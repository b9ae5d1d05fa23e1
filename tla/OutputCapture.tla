---------------------------- MODULE OutputCapture ----------------------------
(***************************************************************************)
(* The bounded view of a command's output (agent/src/harness/utils/        *)
(* output-capture.ts and truncate.ts): what is kept of the output, which   *)
(* part of it is shown, and the updates that tell a consumer how the view  *)
(* changed.  Characters are "a" (one byte), "w" (two bytes) and the line   *)
(* feed "n"; decoding and removal of control characters are left out.      *)
(***************************************************************************)
EXTENDS Integers, Sequences, SequencesExt, FiniteSetsExt

CONSTANTS
  Chunks,              \* texts that arrive
  MaxBytes, MaxLines,  \* the limits
  Retain,              \* "head" or "tail"
  MaxOutput            \* bound: bytes of output

VARIABLES
  all,        \* auxiliary: everything that arrived
  buffer,     \* what is kept of it
  counts,     \* bytes, line feeds, whether the end is a line feed, bytes of the last line
  published,  \* the last view that was published
  consumer    \* the view a consumer has built from the updates

vars == <<all, buffer, counts, published, consumer>>

Width(c) == IF c = "w" THEN 2 ELSE 1
Bytes(s) == FoldLeft(LAMBDA n, c : n + Width(c), 0, s)
Feeds(s) == {i \in DOMAIN s : s[i] = "n"}

-----------------------------------------------------------------------------
(* truncate.ts *)

\* The lines of a text; a line feed at its end begins no line.
splitLinesForCounting(s) ==
  LET ends == Feeds(s) \cup (IF s # <<>> /\ Last(s) # "n" THEN {Len(s) + 1} ELSE {})
      end == [k \in 1..Cardinality(ends) |-> CHOOSE e \in ends : Cardinality({f \in ends : f <= e}) = k]
  IN  [k \in DOMAIN end |-> SubSeq(s, IF k = 1 THEN 1 ELSE end[k - 1] + 1, end[k] - 1)]

Joined(lines) == FlattenSeq([k \in DOMAIN lines |-> IF k = 1 THEN lines[k] ELSE <<"n">> \o lines[k]])

Cut(text, lines, partial) == [text |-> text, lines |-> lines, bytes |-> Bytes(text), partial |-> partial]

\* The longest end of a line that fits.
truncateStringToBytesFromEnd(s) == SubSeq(s, Min({i \in 1..Len(s) + 1 : Bytes(SubSeq(s, i, Len(s))) <= MaxBytes}), Len(s))

Whole(s, lines) == Len(lines) <= MaxLines /\ Bytes(s) <= MaxBytes

\* As many lines from the start as fit.
truncateHead(s) ==
  LET lines == splitLinesForCounting(s)
      First(k) == Joined(SubSeq(lines, 1, k))
      k == Max({i \in 0..Min({MaxLines, Len(lines)}) : Bytes(First(i)) <= MaxBytes})
  IN  IF Whole(s, lines) THEN Cut(s, Len(lines), FALSE) ELSE Cut(First(k), k, FALSE)

\* As many lines from the end as fit; if not even the last does, its end.
truncateTail(s) ==
  LET lines == splitLinesForCounting(s)
      n == Len(lines)
      From(k) == Joined(SubSeq(lines, n - k + 1, n))
      k == Max({i \in 0..Min({MaxLines, n}) : Bytes(From(i)) <= MaxBytes})
  IN  IF Whole(s, lines) THEN Cut(s, n, FALSE)
      ELSE IF k = 0 THEN Cut(truncateStringToBytesFromEnd(lines[n]), 1, TRUE)
      ELSE Cut(From(k), k, FALSE)

Truncated(s) == IF Retain = "head" THEN truncateHead(s) ELSE truncateTail(s)

-----------------------------------------------------------------------------
(* output-capture.ts *)

\* What is kept when the buffer is too long, a character that is cut in two left out.
trimToLastUtf8Bytes(s, n) == SubSeq(s, Min({i \in 1..Len(s) + 1 : Bytes(SubSeq(s, i, Len(s))) <= n}), Len(s))
trimToFirstUtf8Bytes(s, n) == SubSeq(s, 1, Max({i \in 0..Len(s) : Bytes(SubSeq(s, 1, i)) <= n}))

Guard == 2 * MaxBytes

Trimmed(s) ==
  IF Bytes(s) <= 2 * Guard THEN s
  ELSE IF Retain = "tail" THEN trimToLastUtf8Bytes(s, Guard) ELSE trimToFirstUtf8Bytes(s, Guard)

Counted(text) ==
  [bytes |-> counts.bytes + Bytes(text), feeds |-> counts.feeds + Cardinality(Feeds(text)), ended |-> Last(text) = "n",
   line |-> IF Feeds(text) = {} THEN counts.line + Bytes(text) ELSE Bytes(SubSeq(text, Max(Feeds(text)) + 1, Len(text)))]

totalLines(c) == c.feeds + (IF c.ended \/ c.bytes = 0 THEN 0 ELSE 1)
truncated(c) == c.bytes > MaxBytes \/ totalLines(c) > MaxLines

snapshot ==
  LET cut == Truncated(buffer)
  IN  [text |-> cut.text, lines |-> cut.lines, bytes |-> cut.bytes, partial |-> cut.partial,
       truncated |-> truncated(counts), totalBytes |-> counts.bytes, totalLines |-> totalLines(counts),
       lastLineBytes |-> IF cut.partial THEN counts.line ELSE 0]

NoView == [text |-> <<>>, lines |-> -1, bytes |-> 0, partial |-> FALSE, truncated |-> FALSE,
           totalBytes |-> 0, totalLines |-> 0, lastLineBytes |-> 0]

\* The longest end of the one text that begins the other.
suffixPrefixOverlap(before, after) ==
  Max({n \in 0..Min({Len(before), Len(after)}) : SubSeq(before, Len(before) - n + 1, Len(before)) = SubSeq(after, 1, n)})

\* updateFrom: what is appended is a slide that drops nothing.  The search for
\* the overlap may give up.
Updates(previous, current) ==
  LET shared == suffixPrefixOverlap(previous.text, current.text)
      replace == [kind |-> "replace", drop |-> 0, text |-> current.text, view |-> current]
      slide == [kind |-> "slide", drop |-> Len(previous.text) - shared, text |-> SubSeq(current.text, shared + 1, Len(current.text)),
                view |-> current]
  IN  IF previous = NoView \/ shared = 0 THEN {replace} ELSE {slide, replace}

applyShellOutputUpdate(view, update) ==
  IF update.kind = "replace" THEN update.view
  ELSE [update.view EXCEPT !.text = SubSeq(view.text, update.drop + 1, Len(view.text)) \o update.text]

-----------------------------------------------------------------------------
Init ==
  /\ all = <<>> /\ buffer = <<>>
  /\ counts = [bytes |-> 0, feeds |-> 0, ended |-> TRUE, line |-> 0]
  /\ published = NoView /\ consumer = NoView

appendText(text) ==
  /\ counts.bytes + Bytes(text) <= MaxOutput
  /\ all' = all \o text
  /\ buffer' = Trimmed(buffer \o text)
  /\ counts' = Counted(text)
  /\ UNCHANGED <<published, consumer>>

\* The publisher publishes the view it finds.
publish ==
  /\ published # snapshot
  /\ published' = snapshot
  /\ \E update \in Updates(published, snapshot) : consumer' = applyShellOutputUpdate(consumer, update)
  /\ UNCHANGED <<all, buffer, counts>>

Next == (\E text \in Chunks : appendText(text)) \/ publish

Spec == Init /\ [][Next]_vars

-----------------------------------------------------------------------------
(* Properties. *)

\* The view shows what truncation of the whole output would, although only a
\* part of it is kept, and counts all of it (appendText, snapshot).
ViewIsExact ==
  LET cut == Truncated(all)
  IN  /\ snapshot.text = cut.text /\ snapshot.lines = cut.lines
      /\ snapshot.totalLines = Len(splitLinesForCounting(all))
      /\ snapshot.truncated = ~Whole(all, splitLinesForCounting(all))

\* The bytes given for a line that is shown in part, and that has not ended,
\* are those of the whole line.
LineIsCounted ==
  LET lines == splitLinesForCounting(all)
  IN  (snapshot.partial /\ ~counts.ended) => snapshot.lastLineBytes = Bytes(lines[Len(lines)])

\* A consumer that applies every update has the view that was published last
\* (updateFrom, suffixPrefixOverlap, applyShellOutputUpdate).
ConsumerIsExact == consumer = published
=============================================================================
