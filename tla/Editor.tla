------------------------------- MODULE Editor -------------------------------
(***************************************************************************)
(* The multi-line editor of the terminal UI: editing, large pastes shown   *)
(* as markers, the kill ring, undo and the prompt history.                 *)
(*                                                                         *)
(* A text is a non-empty sequence of lines, a line a sequence of tokens: a *)
(* character, or a paste marker, which the editor treats as one unit.  A   *)
(* marker remembers the paste it was made for (`of', a history value the   *)
(* code does not have); one whose id is no longer registered, which the    *)
(* code edits as its characters, stays a token.  Columns count the tokens  *)
(* before the cursor.  The editor has no autocomplete provider             *)
(* (EditorAutocomplete models that part) and its lines never wrap; every   *)
(* cursor motion other than by word or to a line's end is one action that  *)
(* may go to any position.                                                 *)
(***************************************************************************)
EXTENDS Integers, Sequences, SequencesExt

CONSTANTS Letters,        \* word characters that are typed
          Clipboard,      \* texts that are pasted
          PasteLines,     \* a paste of more lines is large (10 in the code)
          Prompts,        \* texts given to setText and addToHistory
          HistoryLimit,   \* bound of the history (100 in the code)
          Operations,     \* names of the operations the user performs
          MaxEdits,       \* bound on the depth of the undo stack
          MaxTyped,       \* bound on the tokens of a line characters are typed into
          MaxKills,       \* bound on the kill ring and on the tokens of an entry
          StaleYanks      \* any kill is yanked, as the code allows; FALSE restricts the user to
                          \* kills whose markers still stand for their pastes and are not in the text

VARIABLES
  state,         \* [lines, line, col]: this.state
  pastes,        \* paste id -> pasted text
  pasteCounter,
  undoStack,     \* [state, pastes, pasteCounter], the newest last
  lastAction,    \* "none", "type-word", "kill" or "yank"
  killRing,      \* texts, the most recent last
  history,       \* earlier prompts, the newest first
  historyIndex,  \* -1 when the history is not browsed
  historyDraft,  \* <<state>> while the history is browsed, else <<>>
  base,          \* history: the state before the current kills or the current yank
  submitted      \* history: [text, meant] of the last submission, flat

vars == <<state, pastes, pasteCounter, undoStack, lastAction, killRing,
          history, historyIndex, historyDraft, base, submitted>>

Char(c) == [c |-> c, id |-> 0, of |-> <<>>]
Space == Char(" ")
Slash == Char("/")
NewLine == Char("newline")
Marker(id, text) == [c |-> "marker", id |-> id, of |-> text]

Text(line) == <<line>>
Empty == [lines |-> Text(<<>>), line |-> 1, col |-> 0]

Line(s) == s.lines[s.line]
BeforeCursor(s) == SubSeq(Line(s), 1, s.col)
AfterCursor(s) == SubSeq(Line(s), s.col + 1, Len(Line(s)))

\* The string a + b of two texts that may hold line breaks.
Concat(a, b) ==
  SubSeq(a, 1, Len(a) - 1) \o <<a[Len(a)] \o b[1]>> \o SubSeq(b, 2, Len(b))

\* The text as one sequence, its lines joined by NewLine.
Flat(text) == FoldLeft(LAMBDA acc, line : acc \o <<NewLine>> \o line, text[1], SubSeq(text, 2, Len(text)))

-----------------------------------------------------------------------------
(* What the operations do to the lines and the cursor. *)

insertTextAtCursorInternal(s, text) ==
  IF Len(text) = 1
  THEN [s EXCEPT !.lines[s.line] = BeforeCursor(s) \o text[1] \o AfterCursor(s),
                 !.col = @ + Len(text[1])]
  ELSE [lines |-> SubSeq(s.lines, 1, s.line - 1) \o <<BeforeCursor(s) \o text[1]>>
                    \o SubSeq(text, 2, Len(text) - 1)
                    \o <<text[Len(text)] \o AfterCursor(s)>>
                    \o SubSeq(s.lines, s.line + 1, Len(s.lines)),
        line |-> s.line + Len(text) - 1,
        col |-> Len(text[Len(text)])]

insertYankedText(s, text) == insertTextAtCursorInternal(s, text)

deleteYankedText(s, yanked) ==
  IF Len(yanked) = 1
  THEN LET col == s.col - Len(yanked[1])
       IN  [s EXCEPT !.lines[s.line] = SubSeq(@, 1, col) \o AfterCursor(s), !.col = col]
  ELSE LET start == s.line - (Len(yanked) - 1)
           col   == Len(s.lines[start]) - Len(yanked[1])
       IN  [lines |-> SubSeq(s.lines, 1, start - 1)
                        \o <<SubSeq(s.lines[start], 1, col) \o AfterCursor(s)>>
                        \o SubSeq(s.lines, s.line + 1, Len(s.lines)),
            line |-> start, col |-> col]

MergedWithPrevious(s) ==
  [lines |-> SubSeq(s.lines, 1, s.line - 2) \o <<s.lines[s.line - 1] \o Line(s)>>
               \o SubSeq(s.lines, s.line + 1, Len(s.lines)),
   line |-> s.line - 1, col |-> Len(s.lines[s.line - 1])]

MergedWithNext(s) ==
  [s EXCEPT !.lines = SubSeq(@, 1, s.line - 1) \o <<Line(s) \o @[s.line + 1]>>
                        \o SubSeq(@, s.line + 2, Len(@))]

\* The line without its tokens from + 1 .. to, the cursor at from.
Cut(s, from, to) ==
  [s EXCEPT !.lines[s.line] = SubSeq(@, 1, from) \o SubSeq(@, to + 1, Len(@)), !.col = from]

IsLetter(t) == t.c \in Letters

\* Over spaces, then over one marker, one run of letters or one other character.
findWordBackward(line, cursor) ==
  LET spaces == {k \in 0..cursor : \A j \in (k + 1)..cursor : line[j] = Space}
      skip   == CHOOSE k \in spaces : \A j \in spaces : k <= j
      run    == {k \in 0..skip : \A j \in (k + 1)..skip : IsLetter(line[j])}
  IN  IF skip = 0 THEN 0
      ELSE IF ~ IsLetter(line[skip]) THEN skip - 1
      ELSE CHOOSE k \in run : \A j \in run : k <= j

findWordForward(line, cursor) ==
  LET spaces == {k \in cursor..Len(line) : \A j \in (cursor + 1)..k : line[j] = Space}
      skip   == CHOOSE k \in spaces : \A j \in spaces : j <= k
      run    == {k \in skip..Len(line) : \A j \in (skip + 1)..k : IsLetter(line[j])}
  IN  IF skip = Len(line) THEN skip
      ELSE IF ~ IsLetter(line[skip + 1]) THEN skip + 1
      ELSE CHOOSE k \in run : \A j \in run : j <= k

-----------------------------------------------------------------------------
(* Undo, kill ring and history. *)

Init ==
  /\ state = Empty
  /\ pastes = <<>> /\ pasteCounter = 0
  /\ undoStack = <<>>
  /\ lastAction = "none"
  /\ killRing = <<>>
  /\ history = <<>> /\ historyIndex = -1 /\ historyDraft = <<>>
  /\ base = Empty
  /\ submitted = [text |-> <<>>, meant |-> <<>>]

Snapshot == [state |-> state, pastes |-> pastes, pasteCounter |-> pasteCounter]

pushUndoSnapshot ==
  /\ Len(undoStack) < MaxEdits
  /\ undoStack' = Append(undoStack, Snapshot)

exitHistoryBrowsing ==
  /\ historyIndex' = -1
  /\ historyDraft' = <<>>

keepPastes == UNCHANGED <<pastes, pasteCounter>>

\* An edit that is one undo unit of its own.
Edit(s) ==
  /\ pushUndoSnapshot
  /\ exitHistoryBrowsing
  /\ lastAction' = "none"
  /\ state' = s

KillRingPush(ring, text, prepend, accumulate) ==
  IF accumulate /\ Len(ring) > 0
  THEN LET last == ring[Len(ring)]
       IN  Append(SubSeq(ring, 1, Len(ring) - 1),
                  IF prepend THEN Concat(text, last) ELSE Concat(last, text))
  ELSE Append(ring, text)

KillRingRotate(ring) ==
  IF Len(ring) > 1 THEN <<ring[Len(ring)]>> \o SubSeq(ring, 1, Len(ring) - 1) ELSE ring

\* One deletion that goes to the kill ring.
Kill(s, text, prepend) ==
  /\ pushUndoSnapshot
  /\ exitHistoryBrowsing
  /\ killRing' = KillRingPush(killRing, text, prepend, lastAction = "kill")
  /\ Len(killRing') <= MaxKills /\ Len(Flat(killRing'[Len(killRing')])) <= MaxKills
  /\ lastAction' = "kill"
  /\ state' = s
  /\ base' = IF lastAction = "kill" THEN base ELSE state
  /\ keepPastes
  /\ UNCHANGED <<history, submitted>>

LineBreak == << <<>>, <<>> >>

-----------------------------------------------------------------------------
(* The operations. *)

\* Characters of a word are one undo unit; a space starts the next.
insertCharacter(t) ==
  /\ "type" \in Operations
  /\ Len(Line(state)) < MaxTyped
  /\ exitHistoryBrowsing
  /\ IF t = Space \/ lastAction # "type-word"
     THEN pushUndoSnapshot
     ELSE UNCHANGED undoStack
  /\ lastAction' = "type-word"
  /\ state' = insertTextAtCursorInternal(state, Text(<<t>>))
  /\ keepPastes
  /\ UNCHANGED <<killRing, history, base, submitted>>

addNewLine ==
  /\ "newline" \in Operations
  /\ Edit(insertTextAtCursorInternal(state, LineBreak))
  /\ keepPastes
  /\ UNCHANGED <<killRing, history, base, submitted>>

insertTextAtCursor(text) ==
  /\ "insert" \in Operations
  /\ Edit(insertTextAtCursorInternal(state, text))
  /\ keepPastes
  /\ UNCHANGED <<killRing, history, base, submitted>>

\* A path pasted after a word gets a space in front of it.
Spaced(text) ==
  IF /\ text[1] # <<>> /\ text[1][1] = Slash
     /\ state.col > 0 /\ IsLetter(Line(state)[state.col])
  THEN [text EXCEPT ![1] = <<Space>> \o @]
  ELSE text

handlePaste(pasted) ==
  LET text == Spaced(pasted)
  IN  /\ "paste" \in Operations
      /\ IF Len(text) > PasteLines
         THEN LET id == pasteCounter + 1
              IN  /\ Edit(insertTextAtCursorInternal(state, Text(<<Marker(id, text)>>)))
                  /\ pasteCounter' = id
                  /\ pastes' = [i \in DOMAIN pastes \cup {id} |->
                                  IF i = id THEN text ELSE pastes[i]]
         ELSE /\ Edit(insertTextAtCursorInternal(state, text))
              /\ keepPastes
      /\ UNCHANGED <<killRing, history, base, submitted>>

\* The ids above a deleted marker's move down, in the registry ...
Unregistered_keepsIds(p, id) == [i \in DOMAIN p \ {id} |-> p[i]]
Unregistered(p, id) ==
  LET left == DOMAIN p \ {id}
  IN  [i \in {j \in left : j < id} \cup {j - 1 : j \in {k \in left : k > id}} |->
         IF i < id THEN p[i] ELSE p[i + 1]]

\* ... and in the lines.
Renumbered(lines, id) ==
  [l \in DOMAIN lines |->
     [k \in DOMAIN lines[l] |->
        IF lines[l][k].id > id THEN [lines[l][k] EXCEPT !.id = @ - 1] ELSE lines[l][k]]]

handleBackspace ==
  LET t == Line(state)[state.col]
  IN  /\ "backspace" \in Operations
      /\ IF state.col > 0 /\ t.id > 0
         THEN /\ Edit(Cut([state EXCEPT !.lines = Renumbered(@, t.id)], state.col - 1, state.col))
              /\ pastes' = Unregistered(pastes, t.id)
              /\ pasteCounter' = pasteCounter - 1
         ELSE /\ \/ /\ state.col > 0
                    /\ Edit(Cut(state, state.col - 1, state.col))
                 \/ /\ state.col = 0 /\ state.line > 1
                    /\ Edit(MergedWithPrevious(state))
                 \/ /\ state.col = 0 /\ state.line = 1
                    /\ exitHistoryBrowsing
                    /\ lastAction' = "none"
                    /\ UNCHANGED <<state, undoStack>>
              /\ keepPastes
      /\ UNCHANGED <<killRing, history, base, submitted>>

\* Deleting a marker forward leaves the registry as it is.
handleForwardDelete ==
  /\ "delete" \in Operations
  /\ \/ /\ state.col < Len(Line(state))
        /\ Edit(Cut(state, state.col, state.col + 1))
     \/ /\ state.col = Len(Line(state)) /\ state.line < Len(state.lines)
        /\ Edit(MergedWithNext(state))
     \/ /\ state.col = Len(Line(state)) /\ state.line = Len(state.lines)
        /\ exitHistoryBrowsing
        /\ lastAction' = "none"
        /\ UNCHANGED <<state, undoStack>>
  /\ keepPastes
  /\ UNCHANGED <<killRing, history, base, submitted>>

\* At the text's end the deletions that kill only leave the history.
NothingToKill ==
  /\ exitHistoryBrowsing
  /\ keepPastes
  /\ UNCHANGED <<state, undoStack, lastAction, killRing, history, base, submitted>>

deleteToStartOfLine ==
  /\ "kill" \in Operations
  /\ \/ /\ state.col > 0
        /\ Kill(Cut(state, 0, state.col), Text(BeforeCursor(state)), TRUE)
     \/ /\ state.col = 0 /\ state.line > 1
        /\ Kill(MergedWithPrevious(state), LineBreak, TRUE)
     \/ /\ state.col = 0 /\ state.line = 1
        /\ NothingToKill

deleteToEndOfLine ==
  /\ "kill" \in Operations
  /\ \/ /\ state.col < Len(Line(state))
        /\ Kill(Cut(state, state.col, Len(Line(state))), Text(AfterCursor(state)), FALSE)
     \/ /\ state.col = Len(Line(state)) /\ state.line < Len(state.lines)
        /\ Kill(MergedWithNext(state), LineBreak, FALSE)
     \/ /\ state.col = Len(Line(state)) /\ state.line = Len(state.lines)
        /\ NothingToKill

deleteWordBackwards ==
  LET from == findWordBackward(Line(state), state.col)
  IN  /\ "kill" \in Operations
      /\ \/ /\ state.col > 0
            /\ Kill(Cut(state, from, state.col),
                    Text(SubSeq(Line(state), from + 1, state.col)), TRUE)
         \/ /\ state.col = 0 /\ state.line > 1
            /\ Kill(MergedWithPrevious(state), LineBreak, TRUE)
         \/ /\ state.col = 0 /\ state.line = 1
            /\ NothingToKill

deleteWordForward ==
  LET to == findWordForward(Line(state), state.col)
  IN  /\ "kill" \in Operations
      /\ \/ /\ state.col < Len(Line(state))
            /\ Kill(Cut(state, state.col, to),
                    Text(SubSeq(Line(state), state.col + 1, to)), FALSE)
         \/ /\ state.col = Len(Line(state)) /\ state.line < Len(state.lines)
            /\ Kill(MergedWithNext(state), LineBreak, FALSE)
         \/ /\ state.col = Len(Line(state)) /\ state.line = Len(state.lines)
            /\ NothingToKill

\* A killed marker keeps its id, also over a submission, a renumbering and an undo.
Markers(flat) == {flat[k] : k \in {j \in DOMAIN flat : flat[j].id > 0}}
Yankable(text, into) ==
  StaleYanks \/ \A m \in Markers(Flat(text)) :
                   /\ m.id \in DOMAIN pastes /\ pastes[m.id] = m.of
                   /\ \A n \in Markers(Flat(into)) : n.id # m.id

yank ==
  /\ "yank" \in Operations
  /\ killRing # <<>> /\ Yankable(killRing[Len(killRing)], state.lines)
  /\ pushUndoSnapshot
  /\ exitHistoryBrowsing
  /\ state' = insertYankedText(state, killRing[Len(killRing)])
  /\ lastAction' = "yank"
  /\ base' = state
  /\ keepPastes
  /\ UNCHANGED <<killRing, history, submitted>>

\* Replaces the yanked text by the entry before it.
yankPop ==
  LET ring == KillRingRotate(killRing)
      left == deleteYankedText(state, killRing[Len(killRing)])
  IN  /\ "yank" \in Operations
      /\ lastAction = "yank" /\ Len(killRing) > 1 /\ Yankable(ring[Len(ring)], left.lines)
      /\ pushUndoSnapshot
      /\ exitHistoryBrowsing
      /\ state' = insertYankedText(left, ring[Len(ring)])
      /\ killRing' = ring
      /\ lastAction' = "yank"
      /\ keepPastes
      /\ UNCHANGED <<history, base, submitted>>

undo ==
  /\ "undo" \in Operations
  /\ exitHistoryBrowsing
  /\ IF undoStack = <<>>
     THEN UNCHANGED <<state, pastes, pasteCounter, undoStack, lastAction>>
     ELSE LET snapshot == undoStack[Len(undoStack)]
          IN  /\ state' = snapshot.state
              /\ pastes' = snapshot.pastes
              /\ pasteCounter' = snapshot.pasteCounter
              /\ undoStack' = SubSeq(undoStack, 1, Len(undoStack) - 1)
              /\ lastAction' = "none"
  /\ UNCHANGED <<killRing, history, base, submitted>>

setTextInternal(text, atStart) ==
  IF atStart
  THEN [lines |-> text, line |-> 1, col |-> 0]
  ELSE [lines |-> text, line |-> Len(text), col |-> Len(text[Len(text)])]

setText(text) ==
  /\ "setText" \in Operations
  /\ lastAction' = "none"
  /\ exitHistoryBrowsing
  /\ IF state.lines # text THEN pushUndoSnapshot ELSE UNCHANGED undoStack
  /\ pastes' = <<>>
  /\ pasteCounter' = 0
  /\ state' = setTextInternal(text, FALSE)
  /\ UNCHANGED <<killRing, history, base, submitted>>

-----------------------------------------------------------------------------
(* Cursor motion: arrows, pages, jumps and clicks; only a click leaves the history. *)

moveCursor ==
  /\ "move" \in Operations
  /\ \E l \in DOMAIN state.lines : \E c \in 0..Len(state.lines[l]) :
       /\ state' = [state EXCEPT !.line = l, !.col = c]
       /\ <<l, c>> # <<state.line, state.col>>
  /\ lastAction' = "none"
  /\ \/ exitHistoryBrowsing
     \/ UNCHANGED <<historyIndex, historyDraft>>
  /\ keepPastes
  /\ UNCHANGED <<undoStack, killRing, history, base, submitted>>

moveWordBackwards ==
  /\ "move" \in Operations
  /\ state' = CASE state.col > 0 ->
                     [state EXCEPT !.col = findWordBackward(Line(state), @)]
                [] state.col = 0 /\ state.line > 1 ->
                     [state EXCEPT !.line = @ - 1, !.col = Len(state.lines[state.line - 1])]
                [] OTHER -> state
  /\ lastAction' = "none"
  /\ keepPastes
  /\ UNCHANGED <<undoStack, killRing, history, historyIndex, historyDraft, base, submitted>>

moveWordForwards ==
  /\ "move" \in Operations
  /\ state' = CASE state.col < Len(Line(state)) ->
                     [state EXCEPT !.col = findWordForward(Line(state), @)]
                [] state.col = Len(Line(state)) /\ state.line < Len(state.lines) ->
                     [state EXCEPT !.line = @ + 1, !.col = 0]
                [] OTHER -> state
  /\ lastAction' = "none"
  /\ keepPastes
  /\ UNCHANGED <<undoStack, killRing, history, historyIndex, historyDraft, base, submitted>>

-----------------------------------------------------------------------------
(* History and submission. *)

\* Not twice in a row, and no more than the limit.
addToHistory(text) ==
  /\ "history" \in Operations
  /\ Flat(text) # <<>>
  /\ ~ (history # <<>> /\ history[1] = text)
  /\ history' = LET longer == <<text>> \o history
                IN  SubSeq(longer, 1, IF Len(longer) > HistoryLimit
                                      THEN Len(longer) - 1 ELSE Len(longer))
  /\ UNCHANGED <<state, pastes, pasteCounter, undoStack, lastAction, killRing,
                 historyIndex, historyDraft, base, submitted>>

\* Older (by = 1) or newer (by = -1).
navigateHistory(by) ==
  LET index == historyIndex + by
  IN  /\ "history" \in Operations
      /\ history # <<>> /\ index >= -1 /\ index < Len(history)
      /\ lastAction' = "none"
      /\ historyIndex' = index
      /\ IF historyIndex = -1
         THEN /\ pushUndoSnapshot
              /\ historyDraft' = <<state>>
         ELSE /\ UNCHANGED undoStack
              /\ historyDraft' = IF index = -1 THEN <<>> ELSE historyDraft
      /\ state' = IF index # -1 THEN setTextInternal(history[index + 1], by = 1)
                  ELSE IF historyDraft # <<>> THEN historyDraft[1]
                  ELSE Empty
      /\ keepPastes
      /\ UNCHANGED <<killRing, history, base, submitted>>

\* One paste after the other, over all that is there so far.
expandPasteMarkers(flat) ==
  LET Replaced(acc, id) ==
        FlattenSeq([k \in DOMAIN acc |->
                      IF acc[k].id = id /\ id \in DOMAIN pastes THEN Flat(pastes[id])
                      ELSE <<acc[k]>>])
  IN  FoldLeft(Replaced, flat, [i \in 1..pasteCounter |-> i])

Blank(t) == t \in {Space, NewLine}
Trim(flat) ==
  LET ink == {k \in DOMAIN flat : ~ Blank(flat[k])}
  IN  IF ink = {} THEN <<>>
      ELSE SubSeq(flat, CHOOSE k \in ink : \A j \in ink : k <= j,
                        CHOOSE k \in ink : \A j \in ink : j <= k)

\* What was pasted, wherever a marker stands for it.
Meant(flat) ==
  FlattenSeq([k \in DOMAIN flat |->
                IF flat[k].of # <<>> THEN Flat(flat[k].of) ELSE <<flat[k]>>])

submitValue ==
  /\ "submit" \in Operations
  /\ submitted' = [text  |-> Trim(expandPasteMarkers(Flat(state.lines))),
                   meant |-> Trim(Meant(Flat(state.lines)))]
  /\ state' = Empty
  /\ pastes' = <<>>
  /\ pasteCounter' = 0
  /\ exitHistoryBrowsing
  /\ undoStack' = <<>>
  /\ lastAction' = "none"
  /\ UNCHANGED <<killRing, history, base>>

-----------------------------------------------------------------------------

Next ==
  \/ \E c \in Letters : insertCharacter(Char(c))
  \/ insertCharacter(Space)
  \/ addNewLine
  \/ \E text \in Clipboard : handlePaste(text) \/ insertTextAtCursor(text)
  \/ handleBackspace
  \/ handleForwardDelete
  \/ deleteToStartOfLine
  \/ deleteToEndOfLine
  \/ deleteWordBackwards
  \/ deleteWordForward
  \/ yank
  \/ yankPop
  \/ undo
  \/ moveCursor
  \/ moveWordBackwards
  \/ moveWordForwards
  \/ \E text \in Prompts : setText(text) \/ addToHistory(text)
  \/ \E by \in {1, -1} : navigateHistory(by)
  \/ submitValue

Spec == Init /\ [][Next]_vars

-----------------------------------------------------------------------------
(* Properties. *)

\* The flat text with `text' put in where the cursor of s is.
FlatInserted(s, text) ==
  LET before == Flat(Append(SubSeq(s.lines, 1, s.line - 1), BeforeCursor(s)))
      after  == Flat(<<AfterCursor(s)>> \o SubSeq(s.lines, s.line + 1, Len(s.lines)))
  IN  before \o Flat(text) \o after

(* However deletions to the left and to the right, of words, lines and     *)
(* line breaks, follow one another, the kill ring's newest entry put back  *)
(* at the cursor is the text before the first of them (KillRing.push with  *)
(* prepend and accumulate).                                                *)
KillsAreWhole ==
  lastAction = "kill" =>
    FlatInserted(state, killRing[Len(killRing)]) = Flat(base.lines)

(* After a yank and any number of yank-pops the text is the one before the *)
(* yank with exactly the newest entry of the ring put in: yank-pop takes   *)
(* out what the last yank put in and nothing else (deleteYankedText).      *)
YankPopReplaces ==
  lastAction = "yank" =>
    Flat(state.lines) = FlatInserted(base, killRing[Len(killRing)])

(* A submitted prompt has every paste whose marker is in the text, at its  *)
(* place and as it was pasted, whatever markers were deleted, renumbered,  *)
(* killed and yanked, undone or browsed away in between                    *)
(* (expandPasteMarkers).  This needs StaleYanks to be FALSE: a kill keeps  *)
(* the ids of its markers after a submission, a renumbering or an undo     *)
(* gave those ids to nothing or to other pastes.                           *)
SubmitsPastes == submitted.text = submitted.meant

(* While the history is browsed, the text that was being written is both   *)
(* the draft that returning restores and what the next undo restores, so   *)
(* neither way out of the history loses it (navigateHistory).              *)
DraftIsKept ==
  historyIndex > -1 =>
    /\ historyDraft # <<>>
    /\ undoStack # <<>>
    /\ undoStack[Len(undoStack)].state.lines = historyDraft[1].lines

(* Undoing everything gives the empty editor of the last submission: no    *)
(* operation changes the text without an entry it can be taken back to.    *)
UndoReachesStart ==
  undoStack = <<>> => Flat(state.lines) = <<>>
=============================================================================
