---------------------------- MODULE JsonlStorage ----------------------------
(***************************************************************************)
(* A session kept in a JSONL file (packages/agent/src/harness/session/     *)
(* jsonl/): one header line, one line per committed transaction, replayed  *)
(* into the materialised state (in-memory-storage-state.ts) when the file  *)
(* is opened.  The process may crash between any two steps, appends may be *)
(* cut short, and a fork reads the file in two passes while the session    *)
(* goes on committing; createFork is the same from memory.  Values are     *)
(* reduced to one address per rule of the fork policy: the session name, a *)
(* label per entry, one branch tip, one operation value, one user list.    *)
(* The file system is external: an append puts a prefix of the line on     *)
(* disk before the whole; a rename is atomic.                              *)
(***************************************************************************)
EXTENDS Naturals, Sequences, SequencesExt, FiniteSets, Functions

CONSTANTS
  Null,
  Kinds,         \* the commits callers may ask for
  ForkOptions,   \* the forks callers may ask for
  InitialFormat, \* "v3" or "v4"
  MaxCommits,    \* bound: commits asked for
  MaxQueue,      \* bound: commits waiting
  MaxCrashes,    \* bound: process crashes and closes
  MaxForks,      \* bound: forks
  LateErrors     \* whether an append may fail after bytes reached the disk

VARIABLES
  disk,    \* the session file: format, header high-water mark, lines, and a torn tail
  store,   \* the JsonlStorage of the running process
  fork,    \* the fork in progress
  result,  \* what forks published: the destination, and the state it should have
  count,   \* commits, crashes and forks so far
  acked    \* history: the writes of every commit that resolved

vars == <<disk, store, fork, result, count, acked>>

-----------------------------------------------------------------------------
\* The materialised state of a session and what a committed write does to it.

\* A write: its kind, its sequence number, and the entry it is about (0 is null).
Write(kind, seq, x) == [kind |-> kind, seq |-> seq, x |-> x]

\* The constructor of InMemoryStorageState; a scalar is the write that set it, 0 when absent.
EmptyState == [ entries |-> {}, labels |-> {}, name |-> 0, op |-> 0, tip |-> [seq |-> 0, x |-> 0],
                list |-> <<>>, usage |-> 0, next |-> 1 ]

\* One write of applyValidated.
Apply(S, w) ==
  LET set == CASE w.kind = "entry"  -> [S EXCEPT !.entries = @ \cup {[id |-> w.seq, parent |-> w.x]}]
               [] w.kind = "tip"    -> [S EXCEPT !.tip = [seq |-> w.seq, x |-> w.x]]
               [] w.kind = "name"   -> [S EXCEPT !.name = w.seq]
               [] w.kind = "noname" -> [S EXCEPT !.name = 0]
               [] w.kind = "op"     -> [S EXCEPT !.op = w.seq]
               [] w.kind = "label"  -> [S EXCEPT !.labels =
                                          {l \in @ : l.x # w.x} \cup {[seq |-> w.seq, x |-> w.x]}]
               [] w.kind = "push"   -> [S EXCEPT !.list = Append(@, w.seq)]
               [] w.kind = "drop"   -> [S EXCEPT !.list = <<>>]
               [] w.kind = "usage"  -> [S EXCEPT !.usage = @ + 1]
  IN  [set EXCEPT !.next = w.seq + 1]

applyValidated(S, writes) == FoldLeft(Apply, S, writes)

\* validateCommitted: sequence numbers rise, ids are new, parents exist.
validateCommitted(S, writes) ==
  \A i \in DOMAIN writes :
    /\ writes[i].seq >= S.next
    /\ i > 1 => writes[i].seq > writes[i - 1].seq
    /\ writes[i].kind = "entry" =>
         \/ writes[i].x = 0
         \/ writes[i].x \in {e.id : e \in S.entries}
         \/ \E j \in 1..i - 1 : writes[j].kind = "entry" /\ writes[j].seq = writes[i].x

\* Replaying transactions one by one; a record that is not valid makes it fail.
Replay(start, transactions) ==
  FoldLeft(LAMBDA r, t : IF r.ok /\ t.complete /\ validateCommitted(r.state, t.writes)
                         THEN [ok |-> TRUE, state |-> applyValidated(r.state, t.writes)]
                         ELSE [r EXCEPT !.ok = FALSE],
           [ok |-> TRUE, state |-> start], transactions)

-----------------------------------------------------------------------------
\* Forks.  parent is a set of [id, parent] pairs.

RECURSIVE Ancestry(_, _)
Ancestry(entries, id) ==
  IF id = 0 THEN <<>>
  ELSE <<id>> \o Ancestry(entries, (CHOOSE e \in entries : e.id = id).parent)

\* selectBranchFork: the entries and the tip of the destination, walking from the source tip.
selectBranchFork(entries, tip, o) ==
  LET path == Ancestry(entries, tip)
      requested == IF o.entryId = 0 THEN tip ELSE o.entryId
      at == CHOOSE i \in DOMAIN path : path[i] = requested
      from == IF o.position = "before" THEN at + 1 ELSE at
  IN  IF requested = 0 THEN [ids |-> {}, tip |-> 0]
      ELSE [ ids |-> {path[i] : i \in from..Len(path)},
             tip |-> IF from <= Len(path) THEN path[from] ELSE 0 ]

\* The fork names an entry of the source branch, or none.
ForkPossible(S, o) ==
  /\ S.tip.seq # 0
  /\ o.entryId = 0 \/ o.entryId \in ToSet(Ancestry(S.entries, S.tip.x))

\* createFork: the state copied, without usage and operation values.
createFork(S, o) ==
  LET plan == IF o.scope = "tree"
              THEN [ids |-> {e.id : e \in S.entries}, tip |-> S.tip.x]
              ELSE selectBranchFork(S.entries, S.tip.x, o)
  IN  [ S EXCEPT !.entries = {e \in @ : e.id \in plan.ids},
                 !.labels = {l \in @ : l.x \in plan.ids},
                 !.tip.x = plan.tip, !.op = 0, !.usage = 0,
                 !.list = IF o.scope = "tree" THEN @ ELSE <<>> ]

\* JsonlForkIndex: what the first pass over the file remembers.
ForkIndex(writes) ==
  LET seqs(kinds) == {writes[i].seq : i \in {j \in DOMAIN writes : writes[j].kind \in kinds}}
      latest(s) == IF s = {} THEN 0 ELSE CHOOSE n \in s : \A m \in s : m <= n
      kindAt(n) == (CHOOSE w \in ToSet(writes) : w.seq = n).kind
      current(set, delete) == LET n == latest(seqs({set, delete}))
                              IN  IF n # 0 /\ kindAt(n) = set THEN n ELSE 0
      labelled == {w.x : w \in {v \in ToSet(writes) : v.kind = "label"}}
      survivors == {n \in seqs({"push"}) : n > latest(seqs({"drop"}))}
  IN  [ scalars |-> {current("name", "noname"), current("tip", "none"), current("op", "none")}
                      \cup {latest({w.seq : w \in {v \in ToSet(writes) : v.kind = "label" /\ v.x = x}})
                              : x \in labelled},
        first   |-> IF survivors = {} THEN 0 ELSE CHOOSE n \in survivors : \A m \in survivors : n <= m,
        entries |-> {[id |-> w.seq, parent |-> w.x] : w \in {v \in ToSet(writes) : v.kind = "entry"}},
        tip     |-> LET n == current("tip", "none")
                    IN  IF n = 0 THEN 0 ELSE (CHOOSE w \in ToSet(writes) : w.seq = n).x ]

\* projectJsonlForkWrite with the fork policy: whether a write of the second pass is copied.
projectJsonlForkWrite(w, index, plan, o) ==
  CASE w.kind = "entry" -> w.seq \in plan.ids
    [] w.kind \in {"name", "tip"} -> w.seq \in index.scalars
    [] w.kind = "label" -> w.seq \in index.scalars /\ w.x \in plan.ids
    [] w.kind = "push" -> o.scope = "tree" /\ index.first # 0 /\ w.seq >= index.first
    [] OTHER -> FALSE

\* runJsonlFork: the transactions of the destination, one write each.
runJsonlFork(indexed, copied, o) ==
  LET index == ForkIndex(indexed)
      plan == IF o.scope = "tree" THEN [ids |-> {w.seq : w \in ToSet(copied)}, tip |-> 0]
              ELSE selectBranchFork(index.entries, index.tip, o)
      kept == SelectSeq(copied, LAMBDA w : projectJsonlForkWrite(w, index, plan, o))
  IN  [ i \in 1..Len(kept) |->
          [ complete |-> TRUE,
            writes |-> <<IF kept[i].kind = "tip" /\ o.scope = "branch"
                         THEN [kept[i] EXCEPT !.x = plan.tip] ELSE kept[i]>> ] ]

-----------------------------------------------------------------------------
\* The file and the process.

Line(writes) == [complete |-> TRUE, writes |-> writes]
Garbage == [complete |-> FALSE, writes |-> <<>>]

Down == [pc |-> "down", state |-> EmptyState, queue |-> <<>>, tx |-> <<>>, backing |-> "v4"]
NoFork == [pc |-> "none", options |-> Null, kind |-> Null, boundary |-> 0, indexed |-> <<>>, want |-> EmptyState]

\* A format 3 file is normalised to these writes when it is read (LegacyV3Source).
LegacyLines == <<Line(<<Write("entry", 1, 0)>>), Line(<<Write("tip", 2, 1)>>)>>

Init ==
  /\ disk = [ format |-> InitialFormat, next |-> 1, torn |-> FALSE,
              lines |-> IF InitialFormat = "v3" THEN LegacyLines ELSE <<>> ]
  /\ store = Down
  /\ fork = NoFork
  /\ result = {}
  /\ count = [commits |-> 0, crashes |-> 0, forks |-> 0]
  /\ acked = <<>>

AllWrites(lines) == FlattenSeq([i \in DOMAIN lines |-> lines[i].writes])

\* A line is appended where the file ends: behind a torn tail it makes no line of its own.
AppendLine(d, line) ==
  [d EXCEPT !.lines = Append(@, IF d.torn THEN Garbage ELSE line), !.torn = FALSE]

-----------------------------------------------------------------------------
\* Opening, with the repair of a torn tail, and the crash.

\* Mutant: the torn tail is ignored and stays in the file.
open_keepsTail ==
  /\ store.pc = "down"
  /\ LET r == Replay(EmptyState, disk.lines)
     IN  /\ r.ok
         /\ store' = [Down EXCEPT !.pc = "open", !.backing = disk.format,
                        !.state = [r.state EXCEPT !.next = IF @ < disk.next THEN disk.next ELSE @]]
  /\ UNCHANGED <<disk, fork, result, count, acked>>
\* open: the complete lines are replayed; a torn tail is then rewritten away.
open ==
  /\ store.pc = "down"
  /\ LET r == Replay(EmptyState, disk.lines)
     IN  /\ r.ok
         /\ store' = [Down EXCEPT !.pc = IF disk.torn THEN "repair" ELSE "open",
                        !.backing = disk.format,
                        !.state = [r.state EXCEPT !.next = IF @ < disk.next THEN disk.next ELSE @]]
  /\ UNCHANGED <<disk, fork, result, count, acked>>

\* publishFileAtomically of the complete lines: the rename happened, or the open failed.
repair ==
  /\ store.pc = "repair"
  /\ \/ /\ disk' = [disk EXCEPT !.torn = FALSE]
        /\ store' = [store EXCEPT !.pc = "open"]
     \/ /\ store' = Down
        /\ UNCHANGED disk
  /\ UNCHANGED <<fork, result, count, acked>>

\* The process dies; what was written so far stays.
crash ==
  /\ store.pc # "down" /\ count.crashes < MaxCrashes
  /\ count' = [count EXCEPT !.crashes = @ + 1]
  /\ store' = Down
  /\ fork' = NoFork
  /\ UNCHANGED <<disk, result, acked>>

\* close: commits already queued are finished first.
close ==
  /\ store.pc = "open" /\ store.queue = <<>> /\ count.crashes < MaxCrashes
  /\ count' = [count EXCEPT !.crashes = @ + 1]
  /\ store' = Down
  /\ UNCHANGED <<disk, fork, result, acked>>

-----------------------------------------------------------------------------
\* Commits.

\* What a caller's commit writes, in the state its turn finds.
WritesOf(kind, S, n) ==
  CASE kind = "message" -> <<Write("entry", n, S.tip.x), Write("tip", n + 1, n)>>
    [] kind = "back"    -> <<Write("tip", n, LET p == {e \in S.entries : e.id = S.tip.x}
                                            IN  IF p = {} THEN 0 ELSE (CHOOSE e \in p : TRUE).parent)>>
    [] kind = "label"   -> <<Write("label", n, S.tip.x)>>
    [] kind = "list"    -> <<Write("drop", n, 0), Write("push", n + 1, 0)>>
    [] OTHER            -> <<Write(kind, n, 0)>>

commit(kind) ==
  /\ store.pc \in {"open", "append", "upgrade"}
  /\ count.commits < MaxCommits /\ Len(store.queue) < MaxQueue
  /\ count' = [count EXCEPT !.commits = @ + 1]
  /\ store' = [store EXCEPT !.queue = Append(@, kind)]
  /\ UNCHANGED <<disk, fork, result, acked>>

\* The head of the commit queue is prepared: sequence numbers and validation.
applyCommit ==
  /\ store.pc = "open" /\ store.queue # <<>> /\ Head(store.queue) # "fork"
  /\ LET n == store.state.next
         kind == Head(store.queue)
         writes == IF store.backing = "v3"
                   THEN <<Write("usage", n, 0)>> \o WritesOf(kind, store.state, n + 1)
                   ELSE WritesOf(kind, store.state, n)
     IN  /\ validateCommitted(store.state, writes)
         /\ store' = [store EXCEPT !.tx = writes, !.pc = IF store.backing = "v3" THEN "upgrade" ELSE "append"]
  /\ UNCHANGED <<disk, fork, result, count, acked>>

\* The first bytes of the line reach the disk.
appendBytes ==
  /\ store.pc = "append" /\ ~disk.torn
  /\ disk' = [disk EXCEPT !.torn = TRUE]
  /\ store' = [store EXCEPT !.pc = "appending"]
  /\ UNCHANGED <<fork, result, count, acked>>

Resolved ==
  /\ store' = [store EXCEPT !.pc = "open", !.queue = Tail(@), !.tx = <<>>, !.backing = "v4",
                            !.state = applyValidated(@, store.tx)]
  /\ acked' = acked \o store.tx
Rejected ==
  /\ store' = [store EXCEPT !.pc = "open", !.queue = Tail(@), !.tx = <<>>]
  /\ UNCHANGED acked

\* appendFile returned: the line is complete.  The tail begun by appendBytes is its own.
appended ==
  /\ store.pc \in {"append", "appending"}
  /\ disk' = IF store.pc = "appending" THEN AppendLine([disk EXCEPT !.torn = FALSE], Line(store.tx))
             ELSE AppendLine(disk, Line(store.tx))
  /\ Resolved
  /\ UNCHANGED <<fork, result, count>>

\* appendFile reported an error: nothing was written, or (LateErrors) a part or all of the line.
appendFailed ==
  /\ \/ store.pc = "append" /\ UNCHANGED disk
     \/ LateErrors /\ store.pc = "appending" /\ UNCHANGED disk
     \/ LateErrors /\ store.pc = "appending"
                   /\ disk' = AppendLine([disk EXCEPT !.torn = FALSE], Line(store.tx))
  /\ Rejected
  /\ UNCHANGED <<fork, result, count>>

\* upgradeLegacyV3ToV4: the whole file is published in format 4, or nothing is.
upgradeLegacyV3ToV4 ==
  /\ store.pc = "upgrade"
  /\ \/ /\ disk' = [ format |-> "v4", torn |-> FALSE, next |-> Last(store.tx).seq + 1,
                     lines |-> LegacyLines \o <<Line(store.tx)>> ]
        /\ Resolved
     \/ UNCHANGED disk /\ Rejected
  /\ UNCHANGED <<fork, result, count>>

-----------------------------------------------------------------------------
\* Forks: the boundary is captured in the commit queue of an open source; then two passes.

beginFork(o) ==
  /\ fork.pc = "none" /\ count.forks < MaxForks
  /\ store.pc \in {"open", "append", "appending"} => store.backing = "v4"
  /\ store.pc # "repair" /\ disk.format = "v4"
  /\ count' = [count EXCEPT !.forks = @ + 1]
  /\ IF store.pc = "down"
     THEN /\ fork' = [NoFork EXCEPT !.pc = "index", !.options = o, !.kind = "closed"]
          /\ UNCHANGED store
     ELSE /\ fork' = [NoFork EXCEPT !.pc = "capture", !.options = o, !.kind = "open"]
          /\ store' = [store EXCEPT !.queue = Append(@, "fork")]
  /\ UNCHANGED <<disk, result, acked>>

captureForkNextSeq ==
  /\ store.pc = "open" /\ store.queue # <<>> /\ Head(store.queue) = "fork"
  /\ store' = [store EXCEPT !.queue = Tail(@)]
  /\ fork' = [fork EXCEPT !.pc = IF ForkPossible(store.state, fork.options) THEN "index" ELSE "none",
                          !.boundary = store.state.next, !.want = store.state]
  /\ UNCHANGED <<disk, result, count, acked>>

\* The complete lines in front of the boundary; a pass stops at a torn tail.
forkLines(boundary) ==
  LET beyond == {i \in DOMAIN disk.lines : boundary # 0 /\ Head(disk.lines[i].writes).seq >= boundary}
  IN  IF beyond = {} THEN disk.lines
      ELSE SubSeq(disk.lines, 1, (CHOOSE i \in beyond : \A j \in beyond : i <= j) - 1)

\* indexForkInput
indexForkInput ==
  /\ fork.pc = "index"
  /\ \A i \in DOMAIN disk.lines : disk.lines[i].complete
  /\ LET lines == forkLines(fork.boundary)
         writes == AllWrites(lines)
         source == Replay(EmptyState, lines).state
         next == IF fork.kind = "open" THEN fork.boundary
                 ELSE IF writes = <<>> \/ Last(writes).seq < disk.next THEN disk.next
                 ELSE Last(writes).seq + 1
         want == IF fork.kind = "open" THEN fork.want ELSE [source EXCEPT !.next = next]
     IN  fork' = [fork EXCEPT !.pc = IF ForkPossible(source, fork.options) THEN "copy" ELSE "none",
                              !.indexed = writes, !.boundary = next, !.want = want]
  /\ UNCHANGED <<disk, store, result, count, acked>>

\* The copy pass, published atomically: the destination file appears whole.
copyFork ==
  /\ fork.pc = "copy"
  /\ LET lines == runJsonlFork(fork.indexed, AllWrites(forkLines(fork.boundary)), fork.options)
     IN  result' = result \cup {[ lines |-> lines, next |-> fork.boundary,
                                  want |-> createFork(fork.want, fork.options) ]}
  /\ fork' = NoFork
  /\ UNCHANGED <<disk, store, count, acked>>

-----------------------------------------------------------------------------
Next ==
  \/ open \/ repair \/ crash \/ close
  \/ \E kind \in Kinds : commit(kind)
  \/ applyCommit \/ appendBytes \/ appended \/ appendFailed \/ upgradeLegacyV3ToV4
  \/ \E o \in ForkOptions : beginFork(o)
  \/ captureForkNextSeq \/ indexForkInput \/ copyFork

Spec == Init /\ [][Next]_vars

-----------------------------------------------------------------------------
(* Properties. *)

Reopened == Replay(EmptyState, disk.lines)

\* A resolved commit survives process death: whatever crashed since, the file can be opened and
\* replays every write of every commit that resolved (docs/harness.md on durability).
ResolvedCommitsSurvive ==
  /\ Reopened.ok
  /\ ToSet(acked) \subseteq ToSet(AllWrites(disk.lines))

\* Between commits the state in memory is what opening the file would give, sequence numbers
\* included: no commit is applied that is not on disk, and none is on disk that is not applied.
MemoryMatchesFile ==
  store.pc \in {"open", "append", "upgrade"} =>
    store.state = [Reopened.state EXCEPT !.next = IF @ < disk.next THEN disk.next ELSE @]

\* A fork is the source at one moment: the file it publishes opens, and holds what forking the
\* state in memory at the boundary would give, whatever was committed between its two passes.
ForkIsSnapshot ==
  \A f \in result :
    LET r == Replay(EmptyState, f.lines)
    IN  /\ r.ok
        /\ [r.state EXCEPT !.next = IF @ < f.next THEN f.next ELSE @] = f.want
=============================================================================
