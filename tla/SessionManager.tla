--------------------------- MODULE SessionManager ---------------------------
(***************************************************************************)
(* The coding agent's session (coding-agent/src/core/session-manager.ts):  *)
(* an append-only tree of entries with a leaf pointer, kept in memory and  *)
(* in one JSONL file, and the context it resolves to.  The file is created *)
(* by the first assistant message; a process death tears the write it      *)
(* interrupts.  prepareCompaction (core/compaction/compaction.ts) chooses  *)
(* what a compaction keeps; every context message counts as one token.     *)
(* Ids are numbers in the order of creation; 0 is null.                    *)
(***************************************************************************)
EXTENDS Integers, Sequences, FiniteSets, SequencesExt

CONSTANTS
  Kinds,       \* kinds of entry a caller appends
  KeepRecent,  \* settings.keepRecentTokens
  MaxEntries,  \* bound: entries created
  MaxLabels,   \* bound: label entries in the session
  MaxMoves,    \* bound: moves of the leaf
  MaxForks,    \* bound: createBranchedSession calls
  MaxCrashes   \* bound: process deaths

VARIABLES
  up,        \* whether a process has the session open
  entries,   \* fileEntries without the header
  leaf,      \* leafId
  flushed,
  file,      \* the session file: whether it exists, its lines, whether the last one has no newline
  count,     \* entries created, moves, forks and crashes so far
  last,      \* history: what the latest fork or compaction did, for the properties
  acked      \* history: ids of entries whose append returned with the file written

vars == <<up, entries, leaf, flushed, file, count, last, acked>>

Entry(id, parent, kind, ref) == [id |-> id, parent |-> parent, kind |-> kind, ref |-> ref]
Header == Entry(0, 0, "session", 0)
Garbage == Entry(0, 0, "garbage", 0)
NoFile == [exists |-> FALSE, lines |-> <<>>, open |-> FALSE]
Nothing == [op |-> "none", before |-> <<>>, after |-> <<>>, summarized |-> <<>>]

Init ==
  /\ up = TRUE /\ entries = <<>> /\ leaf = 0 /\ flushed = FALSE /\ file = NoFile
  /\ count = [ids |-> 0, moves |-> 0, forks |-> 0, crashes |-> 0]
  /\ last = Nothing /\ acked = {}

-----------------------------------------------------------------------------
\* Reading the tree.

Ids(es) == {es[i].id : i \in DOMAIN es}
ById(es, id) == CHOOSE e \in ToSet(es) : e.id = id

\* Walk from the leaf to the root; a missing parent ends the walk.
getBranch(es, id) ==
  LET path[n \in 0..MaxEntries] ==
        IF n \notin Ids(es) THEN <<>> ELSE Append(path[ById(es, n).parent], ById(es, n))
  IN  path[id]

\* Entries that project to a context message.
Visible(e) == e.kind \notin {"label", "meta"}

IndexOf(path, id) == CHOOSE i \in DOMAIN path : path[i].id = id
LatestCompaction(path) ==
  LET at == {i \in DOMAIN path : path[i].kind = "compaction"}
  IN  IF at = {} THEN 0 ELSE CHOOSE i \in at : \A j \in at : j <= i

\* The latest compaction, what it kept, and what followed it.
buildContextEntries(path) ==
  LET c == LatestCompaction(path)
      kept == IF path[c].ref \in Ids(SubSeq(path, 1, c - 1))
              THEN SubSeq(path, IndexOf(path, path[c].ref), c - 1) ELSE <<>>
  IN  IF c = 0 THEN path ELSE <<path[c]>> \o kept \o SubSeq(path, c + 1, Len(path))

Context(es, id) == SelectSeq(buildContextEntries(getBranch(es, id)), Visible)

-----------------------------------------------------------------------------
\* Choosing what a compaction keeps.

isCutPoint(e) == e.kind \notin {"compaction", "result", "label", "meta"}
isTurnStart(e) == e.kind \in {"user", "branch_summary"}

\* findCutPoint: back from the newest entry until the budget is met, then on to the first cut
\* point at or after it, then back over entries the context does not show.
findCutPoint(path, start) ==
  LET cuts == {i \in start..Len(path) : isCutPoint(path[i])}
      size(i) == Cardinality({j \in i..Len(path) : Visible(path[j])})
      over == {i \in start..Len(path) : Visible(path[i]) /\ size(i) >= KeepRecent}
      stop == CHOOSE i \in over : \A j \in over : j <= i
      after == IF over = {} THEN {} ELSE {i \in cuts : i >= stop}
      least(s) == CHOOSE i \in s : \A j \in s : i <= j
      cut == least(IF after = {} THEN cuts ELSE after)
      hidden == {i \in start..cut : \A j \in i..(cut - 1) : ~Visible(path[j])}
  IN  IF cuts = {} THEN start ELSE least(hidden)

\* prepareCompaction: the first kept entry and the entries handed to the summariser.
BoundaryStart(path) ==
  LET c == LatestCompaction(path)
  IN  IF c = 0 THEN 1
      ELSE IF path[c].ref \in Ids(path) THEN IndexOf(path, path[c].ref) ELSE c + 1

\* messagesToSummarize, then turnPrefixMessages when the cut splits a turn.
Summarized(path, cut) ==
  LET start == BoundaryStart(path)
      turns == {i \in start..cut : isTurnStart(path[i])}
      turn == CHOOSE i \in turns : \A j \in turns : j <= i
      split == turns # {} /\ ~isTurnStart(path[cut])
      historyEnd == IF split THEN turn ELSE cut
      messages(a, b) == SelectSeq(SubSeq(path, a, b - 1), LAMBDA e : Visible(e) /\ e.kind # "compaction")
  IN  messages(start, historyEnd) \o (IF split THEN messages(turn, cut) ELSE <<>>)

-----------------------------------------------------------------------------
\* Writing.

hasAssistant(es) == \E e \in ToSet(es) : e.kind \in {"assistant", "call"}

\* Text appended to a line that has no newline makes one line of the two.
Written(f, line) ==
  [f EXCEPT !.exists = TRUE, !.open = FALSE,
            !.lines = IF f.open THEN Append(Front(@), Garbage) ELSE Append(@, line)]
Rewritten(es) == [exists |-> TRUE, lines |-> <<Header>> \o es, open |-> FALSE]

\* _persist: the file is created by the first assistant message and appended to from then on.
Persisted(es, e) ==
  IF ~hasAssistant(es) /\ ~flushed THEN [file |-> file, flushed |-> FALSE]
  ELSE IF ~flushed THEN [file |-> Rewritten(es), flushed |-> TRUE]
  ELSE [file |-> Written(file, e), flushed |-> TRUE]

\* _appendEntry: an entry under a parent becomes the leaf and is persisted.
_appendEntry(parent, kind, ref) ==
  LET e == Entry(count.ids + 1, parent, kind, ref)
  IN  /\ up /\ count.ids < MaxEntries
      /\ count' = [count EXCEPT !.ids = @ + 1, !.moves = @ + (IF parent = leaf THEN 0 ELSE 1)]
      /\ entries' = Append(entries, e)
      /\ leaf' = e.id
      /\ file' = Persisted(entries', e).file
      /\ flushed' = Persisted(entries', e).flushed
      /\ acked' = IF flushed' THEN acked \cup Ids(entries') ELSE acked
      /\ UNCHANGED up

LastVisible == LET c == Context(entries, leaf) IN IF c = <<>> THEN "none" ELSE c[Len(c)].kind

\* appendMessage, appendModelChange and the other kinds; a tool result follows its call.
append(kind) ==
  /\ kind = "result" <=> LastVisible = "call"
  /\ _appendEntry(leaf, kind, 0)
  /\ last' = Nothing

appendLabelChange(target) ==
  /\ target \in Ids(entries)
  /\ Cardinality({e \in ToSet(entries) : e.kind = "label"}) < MaxLabels
  /\ _appendEntry(leaf, "label", target)
  /\ last' = Nothing

\* prepareCompaction, then appendCompaction with what it found.
appendCompaction ==
  LET path == getBranch(entries, leaf)
      cut == findCutPoint(path, BoundaryStart(path))
      summarized == Summarized(path, cut)
  IN  /\ path # <<>> /\ path[Len(path)].kind # "compaction"
      /\ LastVisible # "call"
      /\ cut \in DOMAIN path /\ summarized # <<>>
      /\ _appendEntry(leaf, "compaction", path[cut].id)
      /\ last' = [op |-> "compaction", before |-> Context(entries, leaf),
                  after |-> Context(entries', leaf'), summarized |-> summarized]

\* branch, and resetLeaf when id is 0.
branch(id) ==
  /\ up /\ id \in Ids(entries) \cup {0} /\ id # leaf
  /\ count.moves < MaxMoves
  /\ count' = [count EXCEPT !.moves = @ + 1]
  /\ leaf' = id
  /\ last' = Nothing
  /\ UNCHANGED <<up, entries, flushed, file, acked>>

branchWithSummary(id) ==
  /\ id \in Ids(entries) \cup {0} /\ count.moves < MaxMoves
  /\ _appendEntry(id, "branch_summary", leaf)
  /\ last' = Nothing

-----------------------------------------------------------------------------
\* createBranchedSession: the path to an entry becomes a session of its own.

\* The labels of the path are dropped, the rest is chained anew, and a compaction that kept
\* from a label keeps from the entry after it.
WithoutLabels(path) ==
  LET kept == SelectSeq(path, LAMBDA e : e.kind # "label")
      next(id) == LET after == {i \in DOMAIN path : i > IndexOf(path, id) /\ path[i].kind # "label"}
                  IN  IF id \notin Ids(path) \/ ById(path, id).kind # "label" \/ after = {} THEN id
                      ELSE path[CHOOSE i \in after : \A j \in after : i <= j].id
  IN  [i \in DOMAIN kept |->
         [kept[i] EXCEPT !.parent = IF i = 1 THEN 0 ELSE kept[i - 1].id,
                         !.ref = IF kept[i].kind = "compaction" THEN next(@) ELSE @]]

\* The latest label of each kept entry that has one, in the order the labels were first set.
Labelled(kept) ==
  LET first(t) == CHOOSE i \in DOMAIN entries :
                    /\ entries[i].kind = "label" /\ entries[i].ref = t
                    /\ \A j \in 1..(i - 1) : ~(entries[j].kind = "label" /\ entries[j].ref = t)
      targets == {t \in Ids(kept) : \E e \in ToSet(entries) : e.kind = "label" /\ e.ref = t}
  IN  SetToSortSeq(targets, LAMBDA s, t : first(s) < first(t))

createBranchedSession(id) ==
  LET kept == WithoutLabels(getBranch(entries, id))
      targets == Labelled(kept)
      end == IF kept = <<>> THEN 0 ELSE kept[Len(kept)].id
      labels == [i \in DOMAIN targets |->
                   Entry(count.ids + i, IF i = 1 THEN end ELSE count.ids + i - 1, "label", targets[i])]
  IN  /\ up /\ count.forks < MaxForks /\ id \in Ids(entries)
      /\ count.ids + Len(labels) <= MaxEntries
      /\ count' = [count EXCEPT !.forks = @ + 1, !.ids = @ + Len(labels)]
      /\ entries' = kept \o labels
      /\ leaf' = IF entries' = <<>> THEN 0 ELSE entries'[Len(entries')].id
      /\ flushed' = hasAssistant(entries')
      /\ file' = IF flushed' THEN Rewritten(entries') ELSE NoFile
      /\ acked' = IF flushed' THEN Ids(entries') ELSE {}
      /\ last' = [op |-> "fork", before |-> Context(entries, id),
                  after |-> Context(entries', leaf'), summarized |-> <<>>]
      /\ UNCHANGED up

-----------------------------------------------------------------------------
\* Process death and opening the file again.

\* What is left of a write: lines of it up to one that may be torn, or whole but unterminated.
Torn(before, lines) ==
  {[exists |-> TRUE, lines |-> before \o SubSeq(lines, 1, n), open |-> FALSE] : n \in 0..Len(lines)}
  \cup UNION {{[exists |-> TRUE, lines |-> Append(before \o SubSeq(lines, 1, n - 1), x), open |-> TRUE] :
                 x \in {Garbage, lines[n]}} : n \in 1..Len(lines)}

\* _persist, interrupted: the first write is of everything, the later ones append an entry.
Interrupted(es, e) == IF flushed THEN Torn(file.lines, <<e>>) ELSE Torn(<<>>, <<Header>> \o es)

crash ==
  /\ up /\ count.crashes < MaxCrashes
  /\ count' = [count EXCEPT !.crashes = @ + 1]
  /\ up' = FALSE /\ last' = Nothing
  /\ UNCHANGED <<entries, leaf, flushed, file, acked>>

\* The process dies inside the write of an entry: the file holds a part of it.
crashInAppend(kind) ==
  LET e == Entry(count.ids + 1, leaf, kind, 0)
      es == Append(entries, e)
  IN  /\ up /\ count.crashes < MaxCrashes /\ count.ids < MaxEntries
      /\ kind = "result" <=> LastVisible = "call"
      /\ flushed \/ hasAssistant(es)
      /\ count' = [count EXCEPT !.crashes = @ + 1, !.ids = @ + 1]
      /\ file' \in Interrupted(es, e)
      /\ up' = FALSE /\ last' = Nothing
      /\ UNCHANGED <<entries, leaf, flushed, acked>>

\* loadEntriesFromFile ends an unterminated last line when the file has a header.
loadEntriesFromFile(f) == [f EXCEPT !.open = FALSE]

Parsed(f) == SelectSeq(f.lines, LAMBDA e : e.kind # "garbage")

\* _setSessionFile: load, start a session in an empty or missing file, or refuse another file.
open ==
  LET parsed == Parsed(file)
      loaded == Tail(parsed)
  IN  /\ ~up
      /\ up' = TRUE
      /\ last' = Nothing
      /\ \/ /\ parsed # <<>> /\ parsed[1].kind = "session"
            /\ file' = loadEntriesFromFile(file)
            /\ entries' = loaded
            /\ leaf' = IF loaded = <<>> THEN 0 ELSE loaded[Len(loaded)].id
            /\ flushed' = TRUE
         \/ /\ file.lines = <<>>
            /\ entries' = <<>> /\ leaf' = 0 /\ flushed' = file.exists
            /\ file' = IF file.exists THEN Rewritten(<<>>) ELSE file
      /\ UNCHANGED <<count, acked>>

-----------------------------------------------------------------------------
Next ==
  \/ \E kind \in Kinds : append(kind) \/ crashInAppend(kind)
  \/ \E id \in 0..MaxEntries :
       appendLabelChange(id) \/ branch(id) \/ branchWithSummary(id) \/ createBranchedSession(id)
  \/ appendCompaction \/ crash \/ open

Spec == Init /\ [][Next]_vars

-----------------------------------------------------------------------------
(* Properties. *)

\* While the session is open, loading its file would give the entries in memory: nothing is
\* written that is not an entry, and no entry of a created file is missing from it.
FileMatchesMemory ==
  up /\ flushed => Parsed(file) = <<Header>> \o entries

\* Every entry whose append returned with the file written is there after any number of process
\* deaths, and its parent chain with it: a torn write costs the entry being written only.
WrittenEntriesSurvive ==
  /\ acked \subseteq Ids(Parsed(file))
  /\ up => \A e \in ToSet(entries) : e.parent \in Ids(entries) \cup {0}

\* The session made from a path resolves to the same context as the path did, although its
\* labels are moved and a compaction may have kept from one of them.
ForkKeepsContext ==
  last.op = "fork" => Ids(last.after) = Ids(last.before) /\ Len(last.after) = Len(last.before)

\* A compaction loses no message: what the context showed is either handed to the summariser or
\* kept, and a message handed to it is not kept as well.
CompactionLosesNothing ==
  last.op = "compaction" =>
    LET shown == {e.id : e \in {x \in ToSet(last.before) : x.kind # "compaction"}}
        kept == {e.id : e \in {x \in ToSet(last.after) : x.kind # "compaction"}}
    IN  /\ shown = kept \cup Ids(last.summarized)
        /\ kept \cap Ids(last.summarized) = {}

\* The context a request is built from never starts a tool result without its call: no compaction
\* cuts between them.
ResultsHaveCalls ==
  LET c == Context(entries, leaf)
  IN  \A i \in DOMAIN c : c[i].kind = "result" => i > 1 /\ c[i - 1].kind = "call"
=============================================================================
