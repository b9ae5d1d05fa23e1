----------------------------- MODULE StdinBuffer -----------------------------
(***************************************************************************)
(* StdinBuffer: what a terminal sends arrives in chunks cut anywhere, and  *)
(* leaves as whole keys and pastes.                                        *)
(*                                                                         *)
(* A character is a token.  "e" is ESC; "[", "]", "P", "_" and "O" open    *)
(* CSI, OSC, DCS, APC and SS3 sequences after it; "p" is a parameter,      *)
(* "b" is BEL and "t", after ESC, ends a string; "S" and "E" end the       *)
(* sequences that start and end a paste; "k" ends the Kitty sequence of    *)
(* the character "a"; "a" and "u" are other characters.                    *)
(***************************************************************************)
EXTENDS Integers, Sequences, SequencesExt

CONSTANTS Keys,      \* what the terminal may send: sequences of tokens
          MaxKeys,   \* bound on keys
          MayExpire  \* the timer may run out before the rest of a sequence comes

VARIABLES
  typed,    \* the keys sent
  unread,   \* tokens not yet read
  buffer, pasteMode, pasteBuffer, pending,  \* fields of StdinBuffer
  out       \* events emitted

vars == <<typed, unread, buffer, pasteMode, pasteBuffer, pending, out>>

PasteStart == <<"e", "[", "S">>
PasteEnd == <<"e", "[", "E">>
Data(s) == [type |-> "data", seq |-> s]
Paste(s) == [type |-> "paste", seq |-> s]

Init ==
  /\ typed = <<>> /\ unread = <<>>
  /\ buffer = <<>> /\ pasteMode = FALSE /\ pasteBuffer = <<>> /\ pending = FALSE
  /\ out = <<>>

-----------------------------------------------------------------------------
(* Sequences. *)

\* isCompleteSequence, of a sequence that starts with ESC
Terminated(s) == Len(s) >= 2 /\ SubSeq(s, Len(s) - 1, Len(s)) = <<"e", "t">>
IsComplete(s) ==
  IF Len(s) = 1 THEN FALSE
  ELSE CASE s[2] = "["          -> Len(s) >= 3 /\ s[Len(s)] \notin {"p", "e", "b"}
         [] s[2] = "]"          -> s[Len(s)] = "b" \/ Terminated(s)
         [] s[2] \in {"P", "_"} -> Terminated(s)
         [] s[2] = "O"          -> Len(s) >= 3
         [] OTHER               -> TRUE

Starts == {"[", "]", "O", "P", "_"}

\* extractCompleteSequences: the first sequence of a buffer, <<>> when it is
\* not complete.
FirstSequence(b) ==
  IF b[1] # "e" THEN <<b[1]>>
  ELSE LET ends == {n \in 1..Len(b) : IsComplete(SubSeq(b, 1, n))} IN
       IF ends = {} THEN <<>>
       ELSE LET s == SubSeq(b, 1, CHOOSE n \in ends : \A m \in ends : n <= m) IN
            IF s = <<"e", "e">> /\ Len(b) > 2 /\ b[3] \in Starts THEN <<"e">> ELSE s

RECURSIVE extractCompleteSequences(_)
extractCompleteSequences(b) ==
  IF b = <<>> THEN [sequences |-> <<>>, remainder |-> <<>>]
  ELSE LET s == FirstSequence(b) IN
       IF s = <<>> THEN [sequences |-> <<>>, remainder |-> b]
       ELSE LET rest == extractCompleteSequences(SubSeq(b, Len(s) + 1, Len(b))) IN
            [rest EXCEPT !.sequences = <<s>> \o @]

\* emitDataSequence: a character that repeats a Kitty sequence is dropped.
IsKitty(s) == Len(s) >= 3 /\ s[1] = "e" /\ s[2] = "[" /\ s[Len(s)] = "k"
Emit(o, s) ==
  IF o.pending /\ s = <<"a">> THEN [o EXCEPT !.pending = FALSE]
  ELSE [pending |-> IsKitty(s), out |-> Append(o.out, Data(s))]
EmitAll(o, ss) == FoldLeft(Emit, o, ss)

\* indexOf: the first place where a marker starts, 0 for none
Places(b, marker) == {n \in 1..(Len(b) - Len(marker) + 1) : SubSeq(b, n, n + Len(marker) - 1) = marker}
IndexOf(b, marker) ==
  IF Places(b, marker) = {} THEN 0 ELSE CHOOSE n \in Places(b, marker) : \A m \in Places(b, marker) : n <= m

-----------------------------------------------------------------------------
(* process, as a function of the fields: st = [buffer, paste, pbuf, pending, out]. *)

RECURSIVE Process(_, _)
\* Inside a paste: its end, and what follows it.
EndOfPaste(st) ==
  LET n == IndexOf(st.pbuf, PasteEnd) IN
  IF n = 0 THEN st
  ELSE LET over == [st EXCEPT !.paste = FALSE, !.pbuf = <<>>, !.pending = FALSE,
                              !.out = Append(@, Paste(SubSeq(st.pbuf, 1, n - 1)))]
           rest == SubSeq(st.pbuf, n + Len(PasteEnd), Len(st.pbuf))
       IN IF rest = <<>> THEN over ELSE Process(over, rest)
Process(st, chunk) ==
  LET b == st.buffer \o chunk
      n == IndexOf(b, PasteStart)
  IN IF st.paste THEN EndOfPaste([st EXCEPT !.buffer = <<>>, !.pbuf = @ \o b])
     ELSE IF n > 0
     THEN LET r == extractCompleteSequences(SubSeq(b, 1, n - 1))
              o == EmitAll([pending |-> st.pending, out |-> st.out], r.sequences)
          IN EndOfPaste([buffer |-> <<>>, paste |-> TRUE, pending |-> FALSE, out |-> o.out,
                         pbuf |-> SubSeq(b, n + Len(PasteStart), Len(b))])
     ELSE LET r == extractCompleteSequences(b)
              o == EmitAll([pending |-> st.pending, out |-> st.out], r.sequences)
          IN [st EXCEPT !.buffer = r.remainder, !.pending = o.pending, !.out = o.out]

-----------------------------------------------------------------------------
(* Actions. *)

\* The terminal sends a key.
send(k) ==
  /\ Len(typed) < MaxKeys
  /\ typed' = Append(typed, k)
  /\ unread' = unread \o k
  /\ UNCHANGED <<buffer, pasteMode, pasteBuffer, pending, out>>

\* A chunk of n tokens is read.
process(n) ==
  /\ n \in 1..Len(unread)
  /\ LET st == Process([buffer |-> buffer, paste |-> pasteMode, pbuf |-> pasteBuffer, pending |-> pending,
                        out |-> out], SubSeq(unread, 1, n))
     IN /\ buffer' = st.buffer /\ pasteMode' = st.paste /\ pasteBuffer' = st.pbuf
        /\ pending' = st.pending /\ out' = st.out
  /\ unread' = SubSeq(unread, n + 1, Len(unread))
  /\ UNCHANGED typed

\* The timer runs out: the rest of the sequence is still to come, or nothing is.
expire ==
  /\ buffer # <<>> /\ ~pasteMode
  /\ unread = <<>> \/ MayExpire
  /\ out' = Append(out, Data(buffer))
  /\ buffer' = <<>> /\ pending' = FALSE
  /\ UNCHANGED <<typed, unread, pasteMode, pasteBuffer>>

Done == unread = <<>> /\ buffer = <<>> /\ ~pasteMode

Rest == Done /\ UNCHANGED vars

Next == (\E k \in Keys : send(k)) \/ (\E n \in 1..Len(unread) : process(n)) \/ expire \/ Rest

Spec == Init /\ [][Next]_vars

-----------------------------------------------------------------------------
(* Properties. *)

IsPaste(k) == Len(k) >= 6 /\ SubSeq(k, 1, 3) = PasteStart
Event(k) == IF IsPaste(k) THEN Paste(SubSeq(k, 4, Len(k) - 3)) ELSE Data(k)

\* The events of the keys typed, without a character that repeats a Kitty key.
Expected ==
  LET dropped == {n \in 2..Len(typed) : typed[n] = <<"a">> /\ IsKitty(typed[n - 1])}
      kept == SelectSeq([n \in 1..Len(typed) |-> n], LAMBDA n : n \notin dropped)
  IN [n \in 1..Len(kept) |-> Event(typed[kept[n]])]

\* Escape and the character after it are a meta key too.
Ambiguous == \E n \in 1..(Len(typed) - 1) : typed[n] = <<"e">> /\ Len(typed[n + 1]) = 1

\* However what was typed is cut into chunks, it comes out as the keys and
\* pastes that were typed, each once and whole (process,
\* extractCompleteSequences).
KeysAreWhole == Done /\ ~Ambiguous => out = Expected

\* Whatever the timer cuts off, nothing typed is lost, invented or reordered:
\* the data events spell the tokens that were typed (flush).
NothingIsLost ==
  Done /\ (\A n \in DOMAIN typed : ~IsPaste(typed[n]) /\ ~IsKitty(typed[n]))
    => FlattenSeq([n \in DOMAIN out |-> out[n].seq]) = FlattenSeq(typed)

=============================================================================
