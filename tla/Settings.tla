------------------------------ MODULE Settings ------------------------------
(***************************************************************************)
(* The settings of the coding agent                                        *)
(* (coding-agent/src/core/settings-manager.ts): each process holds the     *)
(* global and the project settings in memory, a setter changes memory at   *)
(* once and queues a write of the fields changed so far, and the files are *)
(* shared by processes, which lock them, and by editors, which do not.     *)
(* A field is a leaf: a plain setting or one key of a nested one.  Locking *)
(* is synchronous, so a process does nothing else between the read and the *)
(* write of a file.  Value 0 is an unset field.                            *)
(***************************************************************************)
EXTENDS Integers, Sequences, FiniteSets, TLAPS, FiniteSetTheorems

CONSTANTS
  Managers,   \* processes with a SettingsManager
  Fields,
  Null,
  Present,    \* whether the files exist at first
  MaxSets,    \* bound: setter calls, per process
  MaxEdits,   \* bound: edits by an editor
  MaxCalls    \* bound: reloads and changes of trust

Scopes == {"global", "project"}
Empty == [f \in Fields |-> 0]

VARIABLES
  file,    \* per scope: whether the file exists, whether it parses, its fields
  lock,    \* per scope: the process that holds the lock, or Null
  man,     \* per process: the fields of SettingsManager
  count,   \* setter calls, edits and other calls so far
  latest,  \* history: per scope, what the last writer of each field gave it
  unsaved  \* history: per process, what was set and has not been written

vars == <<file, lock, man, count, latest, unsaved>>

\* A process: globalSettings and projectSettings, the modified fields, whether the file could not be
\* loaded, the writeQueue, the write under way, how many writes reload() still waits for.
Manager(content) ==
  [mem |-> content, modified |-> [sc \in Scopes |-> {}], loadError |-> [sc \in Scopes |-> FALSE],
   queue |-> <<>>, trusted |-> TRUE, read |-> Null, reload |-> Null, errors |-> 0]

Init ==
  /\ file = [sc \in Scopes |-> [exists |-> Present, bad |-> FALSE, data |-> Empty]]
  /\ lock = [sc \in Scopes |-> Null]
  /\ man = [m \in Managers |-> Manager([sc \in Scopes |-> Empty])]
  /\ count = [sets |-> [m \in Managers |-> 0], edits |-> 0, calls |-> 0]
  /\ latest = [sc \in Scopes |-> Empty]
  /\ unsaved = [m \in Managers |-> {}]

Running(m) == man[m].read = Null

-----------------------------------------------------------------------------
\* Setters.

\* enqueueWrite
Enqueued(queue, w) == Append(queue, w)

\* What save() and saveProjectSettings() copy for the queued write.
Snapshot(M, sc) == [scope |-> sc, settings |-> M.mem[sc], fields |-> M.modified[sc]]

\* The scope's settings change, the field is marked, and a write is queued unless the file could
\* not be loaded; project settings are refused without trust.
set(m, sc, f) ==
  LET M == man[m]
      changed == [M EXCEPT !.mem[sc][f] = count.sets[m] + 1, !.modified[sc] = @ \cup {f}]
  IN  /\ Running(m) /\ count.sets[m] < MaxSets
      /\ sc = "project" => M.trusted
      /\ count' = [count EXCEPT !.sets[m] = @ + 1]
      /\ man' = [man EXCEPT ![m] = IF M.loadError[sc] THEN changed
                                   ELSE [changed EXCEPT !.queue = Enqueued(@, Snapshot(changed, sc))]]
      /\ unsaved' = [unsaved EXCEPT ![m] = IF M.loadError[sc] THEN @
                            ELSE {u \in @ : u[1] # sc \/ u[2] # f} \cup {<<sc, f, count.sets[m] + 1>>}]
      /\ UNCHANGED <<file, lock, latest>>

-----------------------------------------------------------------------------
\* The write queue: enqueueWrite, persistScopedSettings and withLock.

\* A write leaves the queue; its error is recorded.
Done(M, failed) ==
  [M EXCEPT !.queue = Tail(@), !.read = Null, !.errors = IF failed THEN @ + 1 ELSE @,
            !.reload = IF M.reload = Null THEN Null ELSE M.reload - 1]

\* assertProjectTrustedForWrite, when the write runs.
MayWrite(M, w) == w.scope = "project" => M.trusted

NextWrite(m) == Head(man[m].queue)
Ready(m) == Running(m) /\ man[m].queue # <<>> /\ man[m].reload # 0
HeldByOther(m, sc) == lock[sc] \notin {Null, m}

\* The file, if it exists, is locked and read.
writeBegin(m) ==
  LET w == NextWrite(m)
      f == file[w.scope]
  IN  /\ Ready(m) /\ MayWrite(man[m], w)
      /\ f.exists => ~HeldByOther(m, w.scope) /\ ~f.bad
      /\ lock' = IF f.exists THEN [lock EXCEPT ![w.scope] = m] ELSE lock
      /\ man' = [man EXCEPT ![m].read = f.data]
      /\ UNCHANGED <<file, count, latest, unsaved>>

\* Mutant: the whole snapshot is written.
Merged_snapshot(current, w) == w.settings
\* The modified fields replace those of the file, whose other fields stay.
Merged(current, w) == [f \in Fields |-> IF f \in w.fields THEN w.settings[f] ELSE current[f]]

\* The merged settings are written, under a lock taken now if the file did not exist before.
writeEnd(m) ==
  LET w == NextWrite(m)
      sc == w.scope
  IN  /\ ~Running(m) /\ ~HeldByOther(m, sc)
      /\ file' = [file EXCEPT ![sc] = [exists |-> TRUE, bad |-> FALSE, data |-> Merged(man[m].read, w)]]
      /\ lock' = [lock EXCEPT ![sc] = Null]
      /\ man' = [man EXCEPT ![m] = [Done(@, FALSE) EXCEPT !.modified[sc] = {}]]
      /\ latest' = [latest EXCEPT ![sc] = [f \in Fields |-> IF f \in w.fields THEN w.settings[f] ELSE @[f]]]
      /\ unsaved' = [unsaved EXCEPT ![m] = @ \ {<<sc, f, w.settings[f]>> : f \in w.fields}]
      /\ UNCHANGED count

\* Without trust, on text that does not parse, or when another process keeps the lock for all ten
\* attempts, the write throws.
writeFails(m) ==
  LET w == NextWrite(m)
      f == file[w.scope]
  IN  /\ \/ Ready(m) /\ (~MayWrite(man[m], w) \/ (f.exists /\ (f.bad \/ HeldByOther(m, w.scope))))
         \/ ~Running(m) /\ HeldByOther(m, w.scope)
      /\ man' = [man EXCEPT ![m] = Done(@, TRUE)]
      /\ UNCHANGED <<file, lock, count, latest, unsaved>>

-----------------------------------------------------------------------------
\* Loading.

\* tryLoadFromStorage: nothing of an untrusted project; an error on bad text or a lock not had.
tryLoad(m, sc, trusted) ==
  LET asked == (sc = "project" => trusted) /\ file[sc].exists
      ok == asked => ~file[sc].bad /\ ~HeldByOther(m, sc)
  IN  [ok |-> ok, data |-> IF asked /\ ok THEN file[sc].data ELSE Empty]

setProjectTrusted(m, trusted) ==
  /\ Running(m) /\ count.calls < MaxCalls /\ man[m].trusted # trusted
  /\ count' = [count EXCEPT !.calls = @ + 1]
  /\ LET M == man[m]
         l == tryLoad(m, "project", trusted)
         loaded == [M EXCEPT !.trusted = trusted, !.modified["project"] = {}, !.mem["project"] = l.data,
                             !.loadError["project"] = ~l.ok, !.errors = IF l.ok THEN @ ELSE @ + 1]
     IN  man' = [man EXCEPT ![m] = loaded]
  /\ UNCHANGED <<file, lock, latest, unsaved>>

\* reload() waits for the writes queued so far ...
reload(m) ==
  /\ Running(m) /\ count.calls < MaxCalls /\ man[m].reload = Null
  /\ count' = [count EXCEPT !.calls = @ + 1]
  /\ man' = [man EXCEPT ![m].reload = Len(man[m].queue)]
  /\ UNCHANGED <<file, lock, latest, unsaved>>

\* ... and loads both files; what cannot be loaded stays as it is in memory.
reloaded(m) ==
  /\ Running(m) /\ man[m].reload = 0
  /\ LET l == [sc \in Scopes |-> tryLoad(m, sc, man[m].trusted)]
     IN  man' = [man EXCEPT ![m].reload = Null,
                     ![m].mem = [sc \in Scopes |-> IF l[sc].ok THEN l[sc].data ELSE @[sc]],
                     ![m].loadError = [sc \in Scopes |-> ~l[sc].ok],
                     ![m].modified = [sc \in Scopes |-> {}],
                     ![m].errors = @ + Cardinality({sc \in Scopes : ~l[sc].ok})]
  /\ UNCHANGED <<file, lock, count, latest, unsaved>>

-----------------------------------------------------------------------------
\* An editor saves the file with one field changed, or with text that does not parse.  It takes no
\* lock; an edit between the read and the write of a process is left out.
edit(sc, f, bad) ==
  /\ count.edits < MaxEdits /\ file[sc].exists
  /\ \A m \in Managers : ~Running(m) => NextWrite(m).scope # sc
  /\ count' = [count EXCEPT !.edits = @ + 1]
  /\ file' = [file EXCEPT ![sc].bad = bad, ![sc].data[f] = 100 + count.edits]
  /\ latest' = [latest EXCEPT ![sc][f] = 100 + count.edits]
  /\ UNCHANGED <<lock, man, unsaved>>

Works(m) == writeBegin(m) \/ writeEnd(m) \/ writeFails(m) \/ reloaded(m)
Program == \E m \in Managers : Works(m)

Next ==
  \/ Program
  \/ \E m \in Managers, sc \in Scopes, f \in Fields : set(m, sc, f)
  \/ \E m \in Managers : reload(m) \/ \E trusted \in BOOLEAN : setProjectTrusted(m, trusted)
  \/ \E sc \in Scopes, f \in Fields, bad \in BOOLEAN : edit(sc, f, bad)

Spec == Init /\ [][Next]_vars
FairSpec == Spec /\ \A m \in Managers : WF_vars(Works(m))

-----------------------------------------------------------------------------
(* Properties. *)

\* "preserves externally added settings": a file holds in every field what the last writer of that
\* field gave it; the write of one setting never brings back an old value of another one, whether
\* an editor or another process changed it meanwhile.
OthersSurvive == \A sc \in Scopes : file[sc].data = latest[sc]

\* flush() is a durability boundary: once the queue is empty and no error was recorded, every field
\* a setter changed has been written with its newest value.
FlushedIsSaved == \A m \in Managers : man[m].queue = <<>> /\ man[m].errors = 0 => unsaved[m] = {}

Flushed(m) == man[m].queue = <<>> /\ man[m].reload = Null


(* Proofs that no write loses what another writer put in the file, and that  *)
(* an empty queue without errors has written everything, for any number of   *)
(* processes, settings, edits and calls.  The lock is what keeps the text a  *)
(* write has read the text of the file until it writes; for the second, every *)
(* field set and not written is in a queued write with its newest value.     *)

Data == [Fields -> Nat]
WriteRec == [scope : Scopes, settings : Data, fields : SUBSET Fields]
Counts == [sets : [Managers -> Nat], edits : Nat, calls : Nat]
Pending == SUBSET (Scopes \X Fields \X Nat)

\* What the proofs need of a process: only a write that is queued is under way; reload just counts.
IsManager(v) ==
  /\ DOMAIN v = {"mem", "modified", "loadError", "queue", "trusted", "read", "reload", "errors"}
  /\ v.mem \in [Scopes -> Data] /\ v.modified \in [Scopes -> SUBSET Fields]
  /\ v.queue \in Seq(WriteRec) /\ v.read \in Data \cup {Null} /\ v.errors \in Nat
  /\ v.read # Null => v.queue # <<>>

TypeOK ==
  /\ file \in [Scopes -> [exists : BOOLEAN, bad : BOOLEAN, data : Data]]
  /\ lock \in [Scopes -> Managers \cup {Null}]
  /\ latest \in [Scopes -> Data]
  /\ man = [m \in Managers |-> man[m]] /\ \A m \in Managers : IsManager(man[m])
  /\ count \in Counts
  /\ unsaved \in [Managers -> Pending]

\* A write under way holds the lock of its file and has read what is there.
Writing(m) ==
  ~Running(m) => lock[NextWrite(m).scope] = m /\ man[m].read = file[NextWrite(m).scope].data

Kept == (\A sc \in Scopes : file[sc].exists) /\ OthersSurvive /\ \A m \in Managers : Writing(m)

\* What process v has set and not written, p, will be written unless a write has failed.
Covers(v, p) ==
  v.errors = 0 => \A u \in p : \E i \in 1..Len(v.queue) :
                     v.queue[i].scope = u[1] /\ u[2] \in v.queue[i].fields /\ v.queue[i].settings[u[2]] = u[3]

Saved == \A m \in Managers : Covers(man[m], unsaved[m])

\* The next states keep the types and each of the two invariants by itself.
Keeps == TypeOK' /\ (Kept => Kept') /\ (Saved => Saved')

\* A nonempty queue has a first write, and the others follow.
LEMMA QueueFacts ==
  ASSUME NEW q \in Seq(WriteRec), q # <<>>
  PROVE  /\ Head(q) \in WriteRec /\ Tail(q) \in Seq(WriteRec) /\ Head(q) = q[1]
         /\ Len(Tail(q)) = Len(q) - 1 /\ \A i \in 1..Len(Tail(q)) : Tail(q)[i] = q[i + 1]
OBVIOUS

\* The step of one process, which is not between the two halves of a write after it.
LEMMA OwnStep ==
  ASSUME TypeOK, NEW m \in Managers, NEW v, IsManager(v), v.read = Null,
         man' = [man EXCEPT ![m] = v], UNCHANGED <<file, lock, latest>>, count' \in Counts,
         NEW p \in Pending, unsaved' = [unsaved EXCEPT ![m] = p],
         Covers(man[m], unsaved[m]) => Covers(v, p)
  PROVE  Keeps
<1>1. /\ man' = [n \in Managers |-> man'[n]] /\ man'[m] = v
      /\ \A n \in Managers \ {m} : man'[n] = man[n]
  BY DEF TypeOK
<1>2. TypeOK'
  <2>1. unsaved' \in [Managers -> Pending]
    BY DEF TypeOK
  <2>2. \A n \in Managers : IsManager(man'[n])
    BY <1>1 DEF TypeOK
  <2>3. QED
    BY <1>1, <2>1, <2>2 DEF TypeOK
<1>3. ASSUME Kept PROVE Kept'
  <2>1. \A n \in Managers : Writing(n)'
    BY <1>1, <1>3 DEF Kept, Writing, Running, NextWrite
  <2>2. OthersSurvive' /\ \A sc \in Scopes : file[sc].exists'
    BY <1>3 DEF Kept, OthersSurvive
  <2>3. QED
    BY <2>1, <2>2 DEF Kept
<1>4. ASSUME Saved PROVE Saved'
  <2>1. /\ unsaved'[m] = p
        /\ \A n \in Managers \ {m} : unsaved'[n] = unsaved[n]
    BY DEF TypeOK
  <2>2. \A n \in Managers : Covers(man'[n], unsaved'[n])
    BY <1>1, <1>4, <2>1 DEF Saved
  <2>3. QED
    BY <2>2 DEF Saved
<1>5. QED
  BY <1>2, <1>3, <1>4 DEF Keeps

\* A write that has left the queue.
LEMMA DoneFacts ==
  ASSUME NEW v, IsManager(v), v.queue # <<>>, NEW failed \in BOOLEAN
  PROVE  /\ IsManager(Done(v, failed)) /\ Done(v, failed).read = Null
         /\ Done(v, failed).queue = Tail(v.queue)
         /\ Done(v, failed).errors = IF failed THEN v.errors + 1 ELSE v.errors
<1>1. Tail(v.queue) \in Seq(WriteRec)
  BY QueueFacts DEF IsManager
<1> DEFINE e == IF failed THEN v.errors + 1 ELSE v.errors
           r == IF v.reload = Null THEN Null ELSE v.reload - 1
           d == [v EXCEPT !.queue = Tail(v.queue), !.read = Null, !.errors = e, !.reload = r]
<1>2. Done(v, failed) = d
  BY DEF Done
<1>3. e \in Nat
  BY DEF IsManager
<1> HIDE DEF e, r
<1>4. IsManager(d) /\ d.read = Null /\ d.queue = Tail(v.queue) /\ d.errors = e
  BY <1>1, <1>3 DEF IsManager
<1> HIDE DEF d
<1>5. QED
  BY <1>2, <1>4 DEF e

\* A setter changes the memory of its process and may queue one more write, which has the field.
LEMMA SetStep ==
  ASSUME TypeOK, NEW m \in Managers, NEW sc \in Scopes, NEW f \in Fields, set(m, sc, f)
  PROVE  Keeps
<1> DEFINE M == man[m]
           n == count.sets[m] + 1
           c == [M EXCEPT !.mem[sc][f] = n, !.modified[sc] = @ \cup {f}]
           w == Snapshot(c, sc)
           q == [c EXCEPT !.queue = Enqueued(@, w)]
           p == {u \in unsaved[m] : u[1] # sc \/ u[2] # f} \cup {<<sc, f, n>>}
<1>1. IsManager(M) /\ M.read = Null /\ n \in Nat /\ unsaved[m] \in Pending
  BY DEF set, Running, TypeOK, Counts
<1>2. /\ IsManager(c) /\ c.read = Null /\ c.errors = M.errors /\ c.queue = M.queue
      /\ f \in c.modified[sc] /\ c.mem[sc][f] = n
  BY <1>1 DEF IsManager, Data
<1>3. w \in WriteRec /\ w.scope = sc /\ f \in w.fields /\ w.settings[f] = n
  BY <1>2 DEF Snapshot, WriteRec, IsManager
<1>4. count' \in Counts
  BY <1>1 DEF set, TypeOK, Counts
<1>5. UNCHANGED <<file, lock, latest>>
  BY DEF set
<1>6. CASE M.loadError[sc]
  <2>1. man' = [man EXCEPT ![m] = c] /\ unsaved' = [unsaved EXCEPT ![m] = unsaved[m]]
    BY <1>6 DEF set
  <2> HIDE DEF c
  <2>2. Covers(man[m], unsaved[m]) => Covers(c, unsaved[m])
    BY <1>2 DEF Covers
  <2>3. QED
    BY <1>1, <1>2, <1>4, <1>5, <2>1, <2>2, OwnStep
<1>7. CASE ~M.loadError[sc]
  <2>1. man' = [man EXCEPT ![m] = q] /\ unsaved' = [unsaved EXCEPT ![m] = p]
    BY <1>7 DEF set
  <2> HIDE DEF c, w
  <2>2. IsManager(q) /\ q.read = Null /\ q.errors = M.errors /\ q.queue = Append(M.queue, w)
    BY <1>2, <1>3 DEF IsManager, Enqueued
  <2>3. p \in Pending
    BY <1>1 DEF Pending
  <2>4. M.queue \in Seq(WriteRec)
    BY <1>1 DEF IsManager
  <2> HIDE DEF q, n
  <2>5. ASSUME Covers(M, unsaved[m]), M.errors = 0, NEW u \in p
        PROVE  \E i \in 1..Len(q.queue) :
                  /\ q.queue[i].scope = u[1] /\ u[2] \in q.queue[i].fields
                  /\ q.queue[i].settings[u[2]] = u[3]
    <3>1. Len(q.queue) = Len(M.queue) + 1 /\ q.queue[Len(M.queue) + 1] = w
          /\ \A i \in 1..Len(M.queue) : q.queue[i] = M.queue[i]
      BY <1>3, <2>2, <2>4
    <3>2. Len(M.queue) \in Nat
      BY <2>4
    <3>3. CASE u = <<sc, f, n>>
      <4>1. u[1] = sc /\ u[2] = f /\ u[3] = n
        BY <3>3
      <4>2. Len(M.queue) + 1 \in 1..Len(q.queue)
        BY <3>1, <3>2
      <4>3. QED
        BY <1>3, <3>1, <4>1, <4>2
    <3>4. CASE u \in unsaved[m]
      <4>1. PICK i \in 1..Len(M.queue) :
               M.queue[i].scope = u[1] /\ u[2] \in M.queue[i].fields /\ M.queue[i].settings[u[2]] = u[3]
        BY <2>5, <3>4 DEF Covers
      <4>2. i \in 1..Len(q.queue) /\ q.queue[i] = M.queue[i]
        BY <3>1, <3>2
      <4>3. QED
        BY <4>1, <4>2
    <3>5. QED
      BY <2>5, <3>3, <3>4
  <2> HIDE DEF p
  <2>6. Covers(man[m], unsaved[m]) => Covers(q, p)
    BY <2>2, <2>5 DEF Covers
  <2>7. QED
    BY <1>4, <1>5, <2>1, <2>2, <2>3, <2>6, OwnStep
<1>8. QED
  BY <1>6, <1>7

\* What a load returns is a file's content, or that of no file.
LEMMA LoadFacts ==
  ASSUME TypeOK, NEW m, NEW sc \in Scopes, NEW trusted PROVE tryLoad(m, sc, trusted).data \in Data
<1>1. file[sc].data \in Data /\ Empty \in Data
  BY DEF TypeOK, Empty, Data
<1>2. QED
  BY <1>1 DEF tryLoad

\* A process whose queue stays, and whose errors do not become fewer, covers what it covered.
LEMMA CoversStays ==
  ASSUME NEW M, IsManager(M), NEW v, NEW k \in Nat, v.queue = M.queue, v.errors = M.errors + k, NEW p
  PROVE  Covers(M, p) => Covers(v, p)
BY DEF IsManager, Covers

\* Trusting a project or not loads its file.
LEMMA TrustStep ==
  ASSUME TypeOK, NEW m \in Managers, NEW trusted \in BOOLEAN, setProjectTrusted(m, trusted)
  PROVE  Keeps
<1> DEFINE M == man[m]
           l == tryLoad(m, "project", trusted)
           k == IF l.ok THEN 0 ELSE 1
           e == IF l.ok THEN M.errors ELSE M.errors + 1
           v == [M EXCEPT !.trusted = trusted, !.modified["project"] = {}, !.mem["project"] = l.data,
                          !.loadError["project"] = ~l.ok, !.errors = IF l.ok THEN @ ELSE @ + 1]
<1>1. IsManager(M) /\ M.read = Null /\ l.data \in Data
  BY LoadFacts DEF setProjectTrusted, Running, TypeOK, Scopes
<1>2. UNCHANGED <<file, lock, latest, unsaved>>
  BY DEF setProjectTrusted
<1>3. man' = [man EXCEPT ![m] = v]
  BY DEF setProjectTrusted
<1>4. k \in Nat /\ e = M.errors + k
  BY <1>1 DEF IsManager
<1> HIDE DEF l, k
<1>5. IsManager(v) /\ v.read = Null /\ v.queue = M.queue /\ v.errors = e
  BY <1>1, <1>4 DEF IsManager, Scopes
<1> HIDE DEF e
<1>6. count' \in Counts
  BY DEF setProjectTrusted, TypeOK, Counts
<1> HIDE DEF v
<1>7. Covers(man[m], unsaved[m]) => Covers(v, unsaved[m])
  BY <1>1, <1>4, <1>5, CoversStays
<1>8. unsaved' = [unsaved EXCEPT ![m] = unsaved[m]] /\ unsaved[m] \in Pending
  BY <1>2 DEF TypeOK
<1>9. QED
  BY <1>2, <1>3, <1>5, <1>6, <1>7, <1>8, OwnStep

\* A reload starts to wait, or loads both files.
LEMMA ReloadStep ==
  ASSUME TypeOK, NEW m \in Managers, reload(m) \/ reloaded(m)
  PROVE  Keeps
<1> DEFINE M == man[m]
<1>1. IsManager(M) /\ M.read = Null
  BY DEF reload, reloaded, Running, TypeOK
<1>2. count' \in Counts
  <2>1. CASE reload(m)
    <3>1. count' = [count EXCEPT !.calls = count.calls + 1]
      BY <2>1 DEF reload
    <3>2. count \in Counts
      BY DEF TypeOK
    <3>3. QED
      BY <3>1, <3>2 DEF Counts
  <2>2. CASE reloaded(m)
    BY <2>2 DEF reloaded, TypeOK
  <2>3. QED
    BY <2>1, <2>2
<1>3. UNCHANGED <<file, lock, latest>>
  BY DEF reload, reloaded
<1>4. unsaved' = [unsaved EXCEPT ![m] = unsaved[m]] /\ unsaved[m] \in Pending
  BY DEF reload, reloaded, TypeOK
<1>5. CASE reload(m)
  <2> DEFINE v == [M EXCEPT !.reload = Len(M.queue)]
  <2>1. man' = [man EXCEPT ![m] = v]
    BY <1>5 DEF reload
  <2>2. IsManager(v) /\ v.read = Null /\ v.queue = M.queue /\ v.errors = M.errors + 0
    BY <1>1 DEF IsManager
  <2> HIDE DEF v
  <2>3. Covers(man[m], unsaved[m]) => Covers(v, unsaved[m])
    BY <1>1, <2>2, CoversStays
  <2>4. QED
    BY <1>2, <1>3, <1>4, <2>1, <2>2, <2>3, OwnStep
<1>6. CASE reloaded(m)
  <2> DEFINE l == [sc \in Scopes |-> tryLoad(m, sc, M.trusted)]
             mem == [sc \in Scopes |-> IF l[sc].ok THEN l[sc].data ELSE M.mem[sc]]
             err == [sc \in Scopes |-> ~l[sc].ok]
             none == [sc \in Scopes |-> {}]
             bad == {sc \in Scopes : ~l[sc].ok}
             k == Cardinality(bad)
             v == [M EXCEPT !.reload = Null, !.mem = mem, !.loadError = err, !.modified = none,
                            !.errors = @ + k]
  <2>1. man' = [man EXCEPT ![m] = v]
    BY <1>6 DEF reloaded
  <2>2. \A sc \in Scopes : l[sc].data \in Data
    BY LoadFacts
  <2>3. mem \in [Scopes -> Data] /\ none \in [Scopes -> SUBSET Fields]
    BY <1>1, <2>2 DEF IsManager
  <2>4. k \in Nat
    <3>1. IsFiniteSet(Scopes)
      <4>1. Scopes = {"global"} \cup {"project"} /\ IsFiniteSet({"global"})
        BY FS_Singleton DEF Scopes
      <4>2. QED
        BY <4>1, FS_AddElement
    <3>2. bad \subseteq Scopes
      OBVIOUS
    <3> HIDE DEF bad
    <3>3. QED
      BY <3>1, <3>2, FS_Subset, FS_CardinalityType
  <2> HIDE DEF l, mem, err, none, k
  <2>5. IsManager(v) /\ v.read = Null /\ v.queue = M.queue /\ v.errors = M.errors + k
    BY <1>1, <2>3, <2>4 DEF IsManager
  <2> HIDE DEF v
  <2>6. Covers(man[m], unsaved[m]) => Covers(v, unsaved[m])
    BY <1>1, <2>4, <2>5, CoversStays
  <2>7. QED
    BY <1>2, <1>3, <1>4, <2>1, <2>5, <2>6, OwnStep
<1>7. QED
  BY <1>5, <1>6

\* A write that fails leaves the queue, and its error is kept.
LEMMA FailStep ==
  ASSUME TypeOK, NEW m \in Managers, writeFails(m)
  PROVE  Keeps
<1>1. IsManager(man[m]) /\ man[m].queue # <<>>
  BY DEF writeFails, Ready, Running, TypeOK, IsManager
<1> DEFINE v == Done(man[m], TRUE)
<1>2. IsManager(v) /\ v.read = Null /\ v.errors = man[m].errors + 1
  BY <1>1, DoneFacts
<1>3. /\ man' = [man EXCEPT ![m] = v] /\ UNCHANGED <<file, lock, latest, count>>
      /\ unsaved' = [unsaved EXCEPT ![m] = unsaved[m]] /\ unsaved[m] \in Pending
  BY DEF writeFails, TypeOK
<1>4. count' \in Counts
  BY <1>3 DEF TypeOK
<1> HIDE DEF v
<1>5. Covers(man[m], unsaved[m]) => Covers(v, unsaved[m])
  BY <1>1, <1>2 DEF Covers, IsManager
<1>6. QED
  BY <1>2, <1>3, <1>4, <1>5, OwnStep

\* A write takes the lock of its file, which no other write has, and reads the file.
LEMMA BeginStep ==
  ASSUME TypeOK, Null \notin Managers, NEW m \in Managers, writeBegin(m)
  PROVE  Keeps
<1> DEFINE w == NextWrite(m)
           sc == w.scope
           v == [man[m] EXCEPT !.read = file[sc].data]
<1>1. IsManager(man[m]) /\ man[m].queue # <<>>
  BY DEF writeBegin, Ready, TypeOK
<1>2. w \in WriteRec
  BY <1>1, QueueFacts DEF IsManager, NextWrite
<1>3. sc \in Scopes
  BY <1>2 DEF WriteRec
<1>4. file[sc].data \in Data
  BY <1>3 DEF TypeOK
<1>5. man' = [man EXCEPT ![m] = v] /\ UNCHANGED <<file, count, latest, unsaved>>
  BY DEF writeBegin
<1>6. /\ IsManager(v) /\ v.queue = man[m].queue /\ v.read = file[sc].data
      /\ v.errors = man[m].errors
  BY <1>1, <1>4 DEF IsManager
<1> HIDE DEF v
<1>7. /\ man' = [n \in Managers |-> man'[n]] /\ man'[m] = v
      /\ \A n \in Managers \ {m} : man'[n] = man[n]
  BY <1>5 DEF TypeOK
<1>8. TypeOK'
  <2>1. lock' \in [Scopes -> Managers \cup {Null}]
    BY DEF writeBegin, TypeOK
  <2>2. \A n \in Managers : IsManager(man'[n])
    BY <1>6, <1>7 DEF TypeOK
  <2>3. QED
    BY <1>5, <1>7, <2>1, <2>2 DEF TypeOK
<1>9. ASSUME Kept PROVE Kept'
  <2>1. ~HeldByOther(m, sc) /\ lock' = [lock EXCEPT ![sc] = m]
    BY <1>3, <1>9 DEF writeBegin, Kept
  <2>2. Writing(m)'
    BY <1>3, <1>5, <1>6, <1>7, <2>1 DEF Writing, NextWrite, TypeOK
  <2>3. ASSUME NEW n \in Managers \ {m}, ~Running(n) PROVE Writing(n)'
    <3>1. Writing(n)
      BY <1>9 DEF Kept
    <3>2. NextWrite(n).scope # sc
      BY <2>1, <2>3, <3>1 DEF Writing, HeldByOther
    <3>3. QED
      BY <1>5, <1>7, <2>1, <2>3, <3>1, <3>2 DEF Writing, Running, NextWrite
  <2>4. \A n \in Managers \ {m} : Writing(n)'
    BY <1>7, <2>3 DEF Writing, Running
  <2>5. OthersSurvive' /\ \A s \in Scopes : file[s].exists'
    BY <1>5, <1>9 DEF Kept, OthersSurvive
  <2>6. QED
    BY <2>2, <2>4, <2>5 DEF Kept
<1>10. ASSUME Saved PROVE Saved'
  <2>1. \A n \in Managers : man'[n].queue = man[n].queue /\ man'[n].errors = man[n].errors
    BY <1>6, <1>7
  <2>2. ASSUME NEW n \in Managers PROVE Covers(man'[n], unsaved'[n])
    <3>1. Covers(man[n], unsaved[n]) /\ unsaved' = unsaved
      BY <1>5, <1>10 DEF Saved
    <3>2. QED
      BY <2>1, <3>1 DEF Covers
  <2>3. QED
    BY <2>2 DEF Saved
<1>11. QED
  BY <1>8, <1>9, <1>10 DEF Keeps

\* A write changes its own fields of the text it read, which is still the text of the file.
LEMMA EndStep ==
  ASSUME TypeOK, NEW m \in Managers, writeEnd(m)
  PROVE  Keeps
<1> DEFINE M == man[m]
           w == NextWrite(m)
           sc == w.scope
           d == Merged(M.read, w)
           e == [f \in Fields |-> IF f \in w.fields THEN w.settings[f] ELSE latest[sc][f]]
           gone == {<<sc, f, w.settings[f]>> : f \in w.fields}
           done == Done(M, FALSE)
           v == [done EXCEPT !.modified[sc] = {}]
<1>1. IsManager(M) /\ M.queue # <<>> /\ M.read \in Data /\ M.queue \in Seq(WriteRec)
  BY DEF writeEnd, TypeOK, IsManager, Running
<1>2. /\ w \in WriteRec /\ w = M.queue[1]
      /\ Len(Tail(M.queue)) = Len(M.queue) - 1
      /\ \A i \in 1..Len(Tail(M.queue)) : Tail(M.queue)[i] = M.queue[i + 1]
  BY <1>1, QueueFacts DEF NextWrite
<1>3. sc \in Scopes /\ w.settings \in Data
  BY <1>2 DEF WriteRec
<1>4. latest[sc] \in Data
  BY <1>3 DEF TypeOK
<1>5. d \in Data /\ e \in Data
  BY <1>1, <1>3, <1>4 DEF Merged, Data
<1>6. /\ IsManager(done) /\ done.read = Null /\ done.queue = Tail(M.queue)
      /\ done.errors = M.errors
  BY <1>1, DoneFacts
<1>7. /\ file' = [file EXCEPT ![sc] = [exists |-> TRUE, bad |-> FALSE, data |-> d]]
      /\ lock' = [lock EXCEPT ![sc] = Null]
      /\ latest' = [latest EXCEPT ![sc] = e]
      /\ man' = [man EXCEPT ![m] = v]
      /\ UNCHANGED count
  BY DEF writeEnd
<1>8. unsaved' = [unsaved EXCEPT ![m] = @ \ gone]
  BY DEF writeEnd
<1>9. Kept => d = e
  BY <1>1, <1>3 DEF Merged, Kept, OthersSurvive, Writing, writeEnd
<1> HIDE DEF d, done, e
<1>10. /\ IsManager(v) /\ v.read = Null /\ v.queue = Tail(M.queue) /\ v.errors = M.errors
  BY <1>3, <1>6 DEF IsManager
<1> HIDE DEF v
<1>11. /\ man' = [n \in Managers |-> man'[n]] /\ man'[m] = v
       /\ \A n \in Managers \ {m} : man'[n] = man[n]
  BY <1>7 DEF TypeOK
<1>12. TypeOK'
  <2>1. file' \in [Scopes -> [exists : BOOLEAN, bad : BOOLEAN, data : Data]]
    BY <1>5, <1>7 DEF TypeOK
  <2>2. lock' \in [Scopes -> Managers \cup {Null}] /\ latest' \in [Scopes -> Data]
    BY <1>5, <1>7 DEF TypeOK
  <2>3. \A n \in Managers : IsManager(man'[n])
    BY <1>10, <1>11 DEF TypeOK
  <2>4. unsaved' \in [Managers -> Pending]
    BY <1>8 DEF TypeOK, Pending
  <2>5. QED
    BY <1>7, <1>11, <2>1, <2>2, <2>3, <2>4 DEF TypeOK
<1>13. ASSUME Kept PROVE Kept'
  <2>1. Writing(m)'
    BY <1>10, <1>11 DEF Writing, Running
  <2>2. lock[sc] = m
    BY <1>13 DEF Kept, Writing, writeEnd
  <2>3. ASSUME NEW n \in Managers \ {m}, ~Running(n) PROVE Writing(n)'
    <3>1. Writing(n)
      BY <1>13 DEF Kept
    <3>2. NextWrite(n).scope # sc
      BY <2>2, <2>3, <3>1 DEF Writing
    <3>3. QED
      BY <1>7, <1>11, <2>3, <3>1, <3>2 DEF Writing, Running, NextWrite
  <2>4. \A n \in Managers \ {m} : Writing(n)'
    BY <1>11, <2>3 DEF Writing, Running
  <2>5. OthersSurvive' /\ \A s \in Scopes : file[s].exists'
    BY <1>3, <1>7, <1>9, <1>13 DEF TypeOK, Kept, OthersSurvive
  <2>6. QED
    BY <2>1, <2>4, <2>5 DEF Kept
<1>14. ASSUME Covers(M, unsaved[m]), v.errors = 0, NEW u \in unsaved[m] \ gone
       PROVE  \E i \in 1..Len(v.queue) :
                 /\ v.queue[i].scope = u[1] /\ u[2] \in v.queue[i].fields
                 /\ v.queue[i].settings[u[2]] = u[3]
  <2>1. PICK i \in 1..Len(M.queue) :
           M.queue[i].scope = u[1] /\ u[2] \in M.queue[i].fields /\ M.queue[i].settings[u[2]] = u[3]
    BY <1>10, <1>14 DEF Covers
  <2>2. u = <<u[1], u[2], u[3]>>
    BY <1>14 DEF TypeOK, Pending
  <2>3. i # 1
    BY <1>2, <1>14, <2>1, <2>2
  <2>4. Len(M.queue) \in Nat
    BY <1>1
  <2>5. i - 1 \in 1..Len(v.queue) /\ v.queue[i - 1] = M.queue[i]
    BY <1>2, <1>10, <2>3, <2>4
  <2>6. QED
    BY <2>1, <2>5
<1>15. ASSUME Saved PROVE Saved'
  <2>1. Covers(M, unsaved[m])
    BY <1>15 DEF Saved
  <2>2. Covers(v, unsaved[m] \ gone)
    BY <1>14, <2>1 DEF Covers
  <2>3. unsaved'[m] = unsaved[m] \ gone /\ \A n \in Managers \ {m} : unsaved'[n] = unsaved[n]
    BY <1>8 DEF TypeOK
  <2>4. \A n \in Managers : Covers(man'[n], unsaved'[n])
    BY <1>11, <1>15, <2>2, <2>3 DEF Saved
  <2>5. QED
    BY <2>4 DEF Saved
<1>16. QED
  BY <1>12, <1>13, <1>15 DEF Keeps

\* An editor changes a file that no write has read.
LEMMA EditStep ==
  ASSUME TypeOK, NEW sc \in Scopes, NEW f \in Fields, NEW bad \in BOOLEAN, edit(sc, f, bad)
  PROVE  Keeps
<1> DEFINE n == 100 + count.edits
           d == [latest[sc] EXCEPT ![f] = n]
           t == [file[sc] EXCEPT !.bad = bad, !.data[f] = n]
<1>1. n \in Nat /\ count' \in Counts
  BY DEF edit, TypeOK, Counts
<1>2. file[sc] \in [exists : BOOLEAN, bad : BOOLEAN, data : Data] /\ latest[sc] \in Data
  BY DEF TypeOK
<1>3. /\ file' = [file EXCEPT ![sc] = t] /\ latest' = [latest EXCEPT ![sc] = d]
      /\ UNCHANGED <<lock, man, unsaved>>
  BY DEF edit
<1>4. d \in Data
  BY <1>1, <1>2 DEF Data
<1>5. /\ t \in [exists : BOOLEAN, bad : BOOLEAN, data : Data] /\ t.exists = file[sc].exists
      /\ file[sc].data = latest[sc] => t.data = d
  BY <1>1, <1>2 DEF Data
<1> HIDE DEF n, d, t
<1>6. TypeOK'
  BY <1>1, <1>3, <1>4, <1>5 DEF TypeOK
<1>7. ASSUME Kept PROVE Kept'
  <2>1. OthersSurvive' /\ \A s \in Scopes : file[s].exists'
    BY <1>3, <1>5, <1>7 DEF Kept, TypeOK, OthersSurvive
  <2>2. ASSUME NEW m \in Managers, ~Running(m) PROVE Writing(m)'
    <3>1. Writing(m) /\ NextWrite(m).scope # sc
      BY <1>7, <2>2 DEF Kept, edit
    <3>2. QED
      BY <1>3, <2>2, <3>1 DEF Writing, Running, NextWrite
  <2>3. \A m \in Managers : Writing(m)'
    BY <1>3, <2>2 DEF Writing, Running
  <2>4. QED
    BY <2>1, <2>3 DEF Kept
<1>8. Saved => Saved'
  BY <1>3 DEF Saved, Covers
<1>9. QED
  BY <1>6, <1>7, <1>8 DEF Keeps

\* No file has been written, and nothing has been set.
LEMMA InitSettings ==
  ASSUME Present \in BOOLEAN, Init PROVE TypeOK /\ (Present => Kept) /\ Saved
<1>1. Empty \in Data
  BY DEF Empty, Data
<1>2. \A m \in Managers : IsManager(man[m]) /\ man[m].read = Null
  <2> DEFINE c == [sc \in Scopes |-> Empty]
             start == Manager(c)
  <2>1. c \in [Scopes -> Data]
    BY <1>1
  <2> HIDE DEF c
  <2>2. IsManager(start) /\ start.read = Null
    BY <2>1 DEF Manager, IsManager
  <2>3. \A m \in Managers : man[m] = start
    BY DEF Init, c
  <2>4. QED
    BY <2>2, <2>3
<1>3. TypeOK
  <2>1. file \in [Scopes -> [exists : BOOLEAN, bad : BOOLEAN, data : Data]]
    BY <1>1 DEF Init
  <2>2. man = [m \in Managers |-> man[m]]
    BY DEF Init
  <2>3. unsaved \in [Managers -> Pending] /\ count \in Counts
    BY DEF Init, Pending, Counts
  <2>4. lock \in [Scopes -> Managers \cup {Null}] /\ latest \in [Scopes -> Data]
    BY <1>1 DEF Init
  <2>5. QED
    BY <1>2, <2>1, <2>2, <2>3, <2>4 DEF TypeOK
<1>4. Present => Kept
  <2>1. Present => \A sc \in Scopes : file[sc].exists
    BY DEF Init
  <2>2. OthersSurvive
    BY DEF Init, OthersSurvive
  <2>3. \A m \in Managers : Writing(m)
    BY <1>2 DEF Writing, Running
  <2>4. QED
    BY <2>1, <2>2, <2>3 DEF Kept
<1>5. Saved
  <2>1. \A m \in Managers : unsaved[m] = {}
    BY DEF Init
  <2>2. QED
    BY <2>1 DEF Saved, Covers
<1>6. QED
  BY <1>3, <1>4, <1>5

\* Every step keeps the types and both invariants.
LEMMA StepKeeps ==
  ASSUME TypeOK, Null \notin Managers, [Next]_vars PROVE Keeps
<1>1. CASE UNCHANGED vars
  <2>1. TypeOK'
    BY <1>1 DEF vars, TypeOK
  <2>2. Kept => Kept'
    BY <1>1 DEF vars, Kept, OthersSurvive, Writing, Running, NextWrite
  <2>3. Saved => Saved'
    BY <1>1 DEF vars, Saved, Covers
  <2>4. QED
    BY <2>1, <2>2, <2>3 DEF Keeps
<1>2. ASSUME NEW m \in Managers, Works(m) PROVE Keeps
  BY <1>2, BeginStep, EndStep, FailStep, ReloadStep DEF Works
<1>3. ASSUME NEW m \in Managers, NEW sc \in Scopes, NEW f \in Fields, set(m, sc, f) PROVE Keeps
  BY <1>3, SetStep
<1>4. ASSUME NEW m \in Managers, reload(m) PROVE Keeps
  BY <1>4, ReloadStep
<1>5. ASSUME NEW m \in Managers, NEW trusted \in BOOLEAN, setProjectTrusted(m, trusted) PROVE Keeps
  BY <1>5, TrustStep
<1>6. ASSUME NEW sc \in Scopes, NEW f \in Fields, NEW bad \in BOOLEAN, edit(sc, f, bad) PROVE Keeps
  BY <1>6, EditStep
<1>7. QED
  BY <1>1, <1>2, <1>3, <1>4, <1>5, <1>6 DEF Next, Program

\* A write of one process never brings back an old value of a field that another process or an
\* editor has given a new one, when the files exist: without a file the lock is taken only after the
\* read, and two processes that create it together can lose a field.
THEOREM OthersKept ==
  ASSUME Present = TRUE, Null \notin Managers
  PROVE  Spec => []OthersSurvive
<1>1. Init => TypeOK /\ Kept
  BY InitSettings
<1>2. TypeOK /\ Kept /\ [Next]_vars => TypeOK' /\ Kept'
  BY StepKeeps DEF Keeps
<1>3. Kept => OthersSurvive
  BY DEF Kept
<1>4. QED
  BY <1>1, <1>2, <1>3, PTL DEF Spec

\* Once the queue of a process is empty and no error was recorded, every field a setter changed has
\* been written with its newest value, whether the files exist or not.
THEOREM FlushedSaved ==
  ASSUME Present \in BOOLEAN, Null \notin Managers
  PROVE  Spec => []FlushedIsSaved
<1>1. Init => TypeOK /\ Saved
  BY InitSettings
<1>2. TypeOK /\ Saved /\ [Next]_vars => TypeOK' /\ Saved'
  BY StepKeeps DEF Keeps
<1>3. TypeOK /\ Saved => FlushedIsSaved
  <2> SUFFICES ASSUME TypeOK, Saved, NEW m \in Managers, man[m].queue = <<>>, man[m].errors = 0,
                      NEW u \in unsaved[m]
               PROVE  FALSE
    BY DEF FlushedIsSaved
  <2>1. PICK i \in 1..Len(man[m].queue) : man[m].queue[i].scope = u[1]
    BY DEF Saved, Covers
  <2>2. QED
    BY <2>1
<1>4. QED
  BY <1>1, <1>2, <1>3, PTL DEF Spec
=============================================================================
