---------------------------- MODULE CompactionCut ----------------------------
(***************************************************************************)
(* What a compaction of a branch keeps and what its summary stands for     *)
(* (agent/src/harness/compaction/compaction.ts), over a branch that grows  *)
(* and is compacted again and again.  When a compaction starts, and what   *)
(* happens when it fails, is module Structural's; here every summary       *)
(* request succeeds, and a summary stands for the entries it was told of.  *)
(***************************************************************************)
EXTENDS Integers, Sequences, FiniteSets, SequencesExt, FiniteSetsExt

CONSTANTS
  Kinds,       \* kinds of entry appended, among the ones below
  Sizes,       \* estimateTokens of a message
  KeepRecent,  \* settings.keepRecentTokens
  MaxEntries   \* bound: entries of the branch

VARIABLE path  \* the entries of the branch, oldest first

\* A message or an entry; an entry of type compaction has a summary and a tail.
NoSummary == [told |-> {}, read |-> FALSE, modified |-> FALSE]
Entry(id, kind, size) == [id |-> id, kind |-> kind, size |-> size, tail |-> <<>>, summary |-> NoSummary]

\* "read" and "edit" are assistant messages that call a tool on the one file.
Calls == {"read", "edit"}
isMessage(e) == e.kind \notin {"branch", "custom", "compaction"}

Init == path = <<>>

-----------------------------------------------------------------------------
(* Context. *)

NewestCompaction(p) == Max({i \in DOMAIN p : p[i].kind = "compaction"} \cup {0})

\* getMessageFromEntryForCompaction: a branch summary is a message of its own role.
Messages(es) ==
  LET shown == SelectSeq(es, LAMBDA e : e.kind \notin {"custom", "compaction"})
  IN  [i \in DOMAIN shown |-> IF shown[i].kind = "branch" THEN [shown[i] EXCEPT !.kind = "branchMessage"] ELSE shown[i]]

\* buildContextEntries and sessionEntryToContextMessages, without the summary itself.
Context(p) ==
  LET c == NewestCompaction(p)
  IN  (IF c = 0 THEN <<>> ELSE p[c].tail) \o Messages(SubSeq(p, c + 1, Len(p)))

-----------------------------------------------------------------------------
(* The cut. *)

findValidCutPoints(es) == {i \in DOMAIN es : es[i].kind \notin {"result", "custom", "compaction"}}

findTurnStartIndex(es, at) ==
  Max({i \in 1..at : es[i].kind \in {"branch", "user", "bash"}} \cup {0})

\* Mutant: the cut is where the budget is met, a tool result or not.
findCutPoint_anywhere(es) ==
  LET cuts == findValidCutPoints(es)
      tokens(i) == Cardinality({j \in i..Len(es) : isMessage(es[j])})
      over == {i \in DOMAIN es : isMessage(es[i]) /\ tokens(i) >= KeepRecent}
      cut == IF over = {} THEN Min(cuts \cup {1}) ELSE Max(over)
  IN  [first |-> cut, turn |-> findTurnStartIndex(es, cut),
       split |-> es[cut].kind # "user" /\ findTurnStartIndex(es, cut) # 0]
\* Back from the newest entry until the budget is met, on to the first cut point at or after it,
\* then back over the entries that are not messages.
findCutPoint(es) ==
  LET cuts == findValidCutPoints(es)
      tokens(i) == FoldLeft(LAMBDA n, e : IF isMessage(e) THEN n + e.size ELSE n, 0, SubSeq(es, i, Len(es)))
      over == {i \in DOMAIN es : isMessage(es[i]) /\ tokens(i) >= KeepRecent}
      after == IF over = {} THEN {} ELSE {i \in cuts : i >= Max(over)}
      at == Min(IF after = {} THEN cuts ELSE after)
      cut == Min({i \in 1..at : \A j \in i..(at - 1) : es[j].kind \in {"branch", "custom"}})
      turn == IF es[cut].kind = "user" THEN 0 ELSE findTurnStartIndex(es, cut)
  IN  IF cuts = {} THEN [first |-> 1, turn |-> 0, split |-> FALSE]
      ELSE [first |-> cut, turn |-> turn, split |-> turn # 0]

\* The retained tail of the previous compaction as entries, and what follows it.
compactableEntries(p) ==
  LET c == NewestCompaction(p)
  IN  IF c = 0 THEN p ELSE p[c].tail \o SubSeq(p, c + 1, Len(p))

prepareCompaction(p) ==
  LET es == compactableEntries(p)
      c == NewestCompaction(p)
      cut == findCutPoint(es)
      historyEnd == IF cut.split THEN cut.turn ELSE cut.first
  IN  [messagesToSummarize |-> Messages(SubSeq(es, 1, historyEnd - 1)),
       turnPrefixMessages  |-> IF cut.split THEN Messages(SubSeq(es, cut.turn, cut.first - 1)) ELSE <<>>,
       retainedTail        |-> Messages(SubSeq(es, cut.first, Len(es))),
       isSplitTurn         |-> cut.split,
       previous            |-> IF c = 0 THEN NoSummary ELSE p[c].summary]

-----------------------------------------------------------------------------
(* The summary. *)

Ids(ms) == {ms[i].id : i \in DOMAIN ms}
Has(ms, kind) == \E i \in DOMAIN ms : ms[i].kind = kind

\* extractFileOperations and computeFileLists, of the one file.
FileLists(prep) ==
  LET ms == prep.messagesToSummarize \o prep.turnPrefixMessages
      modified == prep.previous.modified \/ Has(ms, "edit")
  IN  [read |-> (prep.previous.read \/ Has(ms, "read")) /\ ~modified, modified |-> modified]

\* compactWithRequest: what the requests of the summary are told of.
Told(prep) ==
  LET history == prep.previous.told \cup Ids(prep.messagesToSummarize)
  IN  IF prep.isSplitTurn /\ prep.turnPrefixMessages # <<>>
      THEN (IF prep.messagesToSummarize = <<>> THEN {} ELSE history) \cup Ids(prep.turnPrefixMessages)
      ELSE history

-----------------------------------------------------------------------------
(* Actions. *)

\* Whether the newest message is a call without its result.
Pending == LET ms == SelectSeq(path, LAMBDA e : e.kind # "custom") IN ms # <<>> /\ ms[Len(ms)].kind \in Calls

append(kind, size) ==
  /\ Len(path) < MaxEntries
  /\ ~Pending
  /\ path' = Append(path, Entry(Len(path) + 1, kind, size))

\* The result of a call, of any size.
appendResult(size) ==
  /\ Len(path) < MaxEntries
  /\ Pending
  /\ path' = Append(path, Entry(Len(path) + 1, "result", size))

\* prepareCompaction, compactWithRequest, and the entry they make.
compact ==
  /\ Len(path) < MaxEntries
  /\ path # <<>> /\ path[Len(path)].kind # "compaction" /\ ~Pending
  /\ \E prep \in {prepareCompaction(path)} : \E files \in {FileLists(prep)} :
       path' = Append(path, [Entry(Len(path) + 1, "compaction", 1) EXCEPT
                               !.tail = prep.retainedTail,
                               !.summary = [told |-> Told(prep), read |-> files.read, modified |-> files.modified]])

Next ==
  \/ \E kind \in Kinds, size \in Sizes : append(kind, size)
  \/ \E size \in Sizes : appendResult(size)
  \/ compact

Spec == Init /\ [][Next]_path

-----------------------------------------------------------------------------
(* Properties. *)

Shown == Context(path)
Visible == {i \in DOMAIN path : path[i].kind \notin {"custom", "compaction"}}
Omitted == Visible \ Ids(Shown)

\* However often a branch is compacted, the context is its newest messages in
\* their order, none twice and none left out between two that are kept
\* (prepareCompaction's retained tail).
ContextIsSuffix ==
  /\ \A i, j \in DOMAIN Shown : i < j => Shown[i].id < Shown[j].id
  /\ \A i \in Omitted, j \in Ids(Shown) : i < j

\* No tool result is sent to the model without the call it answers
\* (findValidCutPoints).
ResultsHaveCalls ==
  \A i \in DOMAIN Shown : Shown[i].kind = "result" => i > 1 /\ Shown[i - 1].kind \in Calls

\* A file that a message outside the context read or edited is in the lists of
\* the newest compaction, as modified when one of them edited it
\* (extractFileOperations, computeFileLists).
FilesRemembered ==
  LET s == path[NewestCompaction(path)].summary
      used(kind) == \E i \in Omitted : path[i].kind = kind
  IN  NewestCompaction(path) # 0 =>
        s.modified = used("edit") /\ s.read = (used("read") /\ ~used("edit"))

\* The newest summary stands for every message that is no longer in the
\* context (compactWithRequest).
NothingForgotten ==
  NewestCompaction(path) # 0 => Omitted \subseteq path[NewestCompaction(path)].summary.told

=============================================================================
