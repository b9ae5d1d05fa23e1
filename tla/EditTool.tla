------------------------------- MODULE EditTool -------------------------------
(***************************************************************************)
(* The edit tool (agent/src/harness/tools/edit.ts and edit-diff.ts; the    *)
(* coding agent has the same code): replacements of text that is found     *)
(* exactly or after normalisation, all matched against the same content,   *)
(* in a file whose byte order mark and line endings are kept.  Characters  *)
(* are "a", the quotes "'" and "q" (a typographic one, normalised to "'"), *)
(* a space, the line feed "n" and the carriage return "r".                 *)
(***************************************************************************)
EXTENDS Integers, Sequences, SequencesExt, FiniteSetsExt

CONSTANTS
  Files,     \* contents of the file
  OldTexts, NewTexts,
  MaxEdits   \* bound: edits in a call

VARIABLES
  file,      \* the text of the file, its byte order mark apart
  request,   \* the edits asked for
  result     \* none, an error, or how the text was edited

vars == <<file, request, result>>

Error(why) == [status |-> why, original |-> <<>>, text |-> <<>>, base |-> <<>>, matches |-> <<>>, ending |-> "lf"]
None == Error("none")

-----------------------------------------------------------------------------
(* Line endings and normalisation. *)

IndexesOf(s, t) == {i \in 1..Len(s) - Len(t) + 1 : SubSeq(s, i, i + Len(t) - 1) = t}

\* A file's ending is that of its first line.
detectLineEnding(s) ==
  LET lf == IndexesOf(s, <<"n">>)
      crlf == IndexesOf(s, <<"r", "n">>)
  IN  IF lf = {} \/ crlf = {} \/ Min(crlf) > Min(lf) THEN "lf" ELSE "crlf"

Mapped(s, F(_)) == FlattenSeq([i \in DOMAIN s |-> F(i)])

normalizeToLF(s) ==
  LET Char(i) == IF s[i] # "r" THEN <<s[i]>> ELSE IF i < Len(s) /\ s[i + 1] = "n" THEN <<>> ELSE <<"n">>
  IN  Mapped(s, Char)

restoreLineEndings(s, ending) ==
  LET Char(i) == IF s[i] = "n" THEN <<"r", "n">> ELSE <<s[i]>>
  IN  IF ending = "crlf" THEN Mapped(s, Char) ELSE s

\* A space that only spaces follow on its line.
Trailing(s, i) ==
  /\ s[i] = " "
  /\ \A j \in i..Len(s) : s[j] = " " \/ \E k \in i..j : s[k] = "n"

normalizeForFuzzyMatch(s) ==
  LET Char(i) == IF Trailing(s, i) THEN <<>> ELSE IF s[i] = "q" THEN <<"'">> ELSE <<s[i]>>
  IN  Mapped(s, Char)

\* The spans of lines, their endings included.
getLineSpans(s) ==
  LET ends == {i \in 1..Len(s) : s[i] = "n" \/ i = Len(s)}
      starts == {i \in 1..Len(s) : i = 1 \/ s[i - 1] = "n"}
  IN  [k \in 1..Cardinality(ends) |->
        [start |-> SetToSortSeq(starts, <)[k], end |-> SetToSortSeq(ends, <)[k]]]

-----------------------------------------------------------------------------
(* Matching. *)

fuzzyFindText(content, old) ==
  LET exact == IndexesOf(content, old)
      fuzzyOld == normalizeForFuzzyMatch(old)
      fuzzy == IndexesOf(normalizeForFuzzyMatch(content), fuzzyOld)
  IN  IF exact # {} THEN [found |-> TRUE, index |-> Min(exact), length |-> Len(old), fuzzy |-> FALSE]
      ELSE IF fuzzy # {} THEN [found |-> TRUE, index |-> Min(fuzzy), length |-> Len(fuzzyOld), fuzzy |-> TRUE]
      ELSE [found |-> FALSE, index |-> 0, length |-> 0, fuzzy |-> FALSE]

Counted(s) == normalizeForFuzzyMatch(s)

\* split(): occurrences from the left that do not overlap; an empty text splits into characters.
countOccurrences(content, old) ==
  LET s == Counted(content)
      t == Counted(old)
      Step(acc, i) == IF i >= acc.next THEN [n |-> acc.n + 1, next |-> i + Len(t)] ELSE acc
  IN  IF t = <<>> THEN IF s = <<>> THEN -1 ELSE Len(s) - 1
      ELSE FoldLeft(Step, [n |-> 0, next |-> 1], SetToSortSeq(IndexesOf(s, t), <)).n

End(m) == m.index + m.length - 1
Overlaps(m, n) == End(m) >= n.index
ByIndex(ms) == SortSeq(ms, LAMBDA m, n : m.index < n.index)

\* From the last replacement to the first.
applyReplacements(s, ms, offset) ==
  FoldLeft(LAMBDA out, m : SubSeq(out, 1, m.index - offset - 1) \o m.new \o SubSeq(out, End(m) - offset + 1, Len(out)),
           s, Reverse(ms))

getReplacementLineRange(lines, m) ==
  LET first == CHOOSE i \in DOMAIN lines : m.index \in lines[i].start..lines[i].end
  IN  [startLine |-> first, endLine |-> Min({i \in first..Len(lines) : lines[i].end >= End(m)})]

Joins(group, range) == range.startLine <= group.endLine

\* Replacements that share lines, in order.
Groups(lines, ms) ==
  LET Add(gs, m) ==
        LET range == getReplacementLineRange(lines, m)
            last == gs[Len(gs)]
        IN  IF gs # <<>> /\ Joins(last, range)
            THEN [gs EXCEPT ![Len(gs)] = [startLine |-> last.startLine, endLine |-> Max({last.endLine, range.endLine}),
                                          ms |-> Append(last.ms, m)]]
            ELSE Append(gs, [startLine |-> range.startLine, endLine |-> range.endLine, ms |-> <<m>>])
  IN  FoldLeft(Add, <<>>, ms)

Lines(s) == [k \in DOMAIN getLineSpans(s) |-> SubSeq(s, getLineSpans(s)[k].start, getLineSpans(s)[k].end)]

\* The touched lines are rewritten from the base, the others are copied from the original.
applyReplacementsPreservingUnchangedLines(original, base, ms) ==
  LET spans == getLineSpans(base)
      kept(from, to) == FlattenSeq(SubSeq(Lines(original), from, to))
      Add(acc, g) ==
        LET from == spans[g.startLine].start
            to == spans[g.endLine].end
        IN  [text |-> acc.text \o kept(acc.line, g.startLine - 1)
                               \o applyReplacements(SubSeq(base, from, to), g.ms, from - 1),
             line |-> g.endLine + 1]
      done == FoldLeft(Add, [text |-> <<>>, line |-> 1], Groups(spans, ms))
  IN  done.text \o kept(done.line, Len(spans))

ReplacementBase(content, fuzzy) == IF fuzzy THEN normalizeForFuzzyMatch(content) ELSE content

applyEditsToNormalizedContent(content, edits) ==
  LET n == Len(edits)
      fuzzy == \E i \in 1..n : fuzzyFindText(content, edits[i].old).fuzzy
      base == ReplacementBase(content, fuzzy)
      found(i) == fuzzyFindText(base, edits[i].old)
      ms == ByIndex([i \in 1..n |-> [index |-> found(i).index, length |-> found(i).length,
                                     new |-> edits[i].new, old |-> edits[i].old]])
      spansFit == Len(getLineSpans(base)) = Len(getLineSpans(content)) /\ \A i \in 1..n : ms[i].index <= Len(base)
      text == IF fuzzy THEN applyReplacementsPreservingUnchangedLines(content, base, ms)
              ELSE applyReplacements(base, ms, 0)
  IN  IF \E i \in 1..n : edits[i].old = <<>> THEN Error("empty")
      ELSE IF \E i \in 1..n : ~found(i).found THEN Error("not found")
      ELSE IF \E i \in 1..n : countOccurrences(base, edits[i].old) > 1 THEN Error("not unique")
      ELSE IF \E i \in 2..n : Overlaps(ms[i - 1], ms[i]) THEN Error("overlap")
      ELSE IF fuzzy /\ ~spansFit THEN Error("lines")
      ELSE IF text = content THEN Error("no change")
      ELSE [status |-> "ok", original |-> content, text |-> text, base |-> base, matches |-> ms, ending |-> "lf"]

-----------------------------------------------------------------------------
Init == file \in Files /\ request = <<>> /\ result = None

\* execute: the file is read, edited and written; aborts and failures write nothing.
execute ==
  /\ result = None
  /\ \E n \in 1..MaxEdits : \E edits \in [1..n -> [old : OldTexts, new : NewTexts]] :
       LET normalized == [i \in 1..n |-> [old |-> normalizeToLF(edits[i].old), new |-> normalizeToLF(edits[i].new)]]
       IN  /\ request' = normalized
           /\ result' = [applyEditsToNormalizedContent(normalizeToLF(file), normalized)
                           EXCEPT !.ending = detectLineEnding(file)]
  /\ file' = IF result'.status = "ok" THEN restoreLineEndings(result'.text, result'.ending) ELSE file

Next == execute

Spec == Init /\ [][Next]_vars

-----------------------------------------------------------------------------
(* Properties. *)

Accepted == result.status = "ok"

\* What is replaced is what was asked for: every edit's text, as it is or
\* normalised, stands where it is replaced, and no two edits share a character
\* (fuzzyFindText, the check for overlaps).
EditsMatch ==
  Accepted =>
    \A m \in ToSet(result.matches) :
      LET found == SubSeq(result.base, m.index, End(m))
      IN  /\ found \in {m.old, normalizeForFuzzyMatch(m.old)} /\ found # <<>>
          /\ \A o \in ToSet(result.matches) \ {m} : End(m) < o.index \/ End(o) < m.index

\* An edit's text is nowhere else in the file, not even in another spelling,
\* unless the two places overlap (countOccurrences).
PlaceIsClear ==
  Accepted =>
    LET normal == normalizeForFuzzyMatch(result.original)
    IN  \A m \in ToSet(result.matches) :
          LET old == normalizeForFuzzyMatch(m.old)
          IN  \A i, j \in IndexesOf(normal, old) : i < j => j < i + Len(old)

\* Laid over the original, the edited lines give the text that the edits of the
\* normalised content give, up to normalisation
\* (applyReplacementsPreservingUnchangedLines).
OverlayIsExact ==
  Accepted => normalizeForFuzzyMatch(result.text) = normalizeForFuzzyMatch(applyReplacements(result.base, result.matches, 0))

\* Lines without an edit keep their characters: the runs of such lines before,
\* between and behind the edits are in the text as they were.
OtherLinesKept ==
  Accepted =>
    LET spans == getLineSpans(result.base)
        touched == {k \in DOMAIN spans : \E m \in ToSet(result.matches) : m.index <= spans[k].end /\ End(m) >= spans[k].start}
        original == Lines(result.original)
        Run(from, to) == FlattenSeq(SubSeq(original, from, to))
    IN  /\ IsPrefix(Run(1, Min(touched) - 1), result.text)
        /\ IsSuffix(Run(Max(touched) + 1, Len(original)), result.text)
        /\ \A i, j \in touched : (i < j /\ ~\E k \in touched : i < k /\ k < j) =>
             IndexesOf(result.text, Run(i + 1, j - 1)) # {}

=============================================================================
