-------------------------- MODULE ModelAvailability --------------------------
(***************************************************************************)
(* The coding agent's snapshot of which providers are configured.          *)
(*                                                                         *)
(* Credential operations (login, logout, runtime keys) are queued per      *)
(* provider, change the stored credential and then read the provider's     *)
(* availability into the snapshot; refreshes read one provider or all of   *)
(* them at any time.  Passes that overlap are kept apart by sequence       *)
(* numbers.  A credential is a version number: 0 at first, one more with   *)
(* every change.  The snapshot holds the version it last showed.           *)
(***************************************************************************)
EXTENDS Integers, FiniteSets, TLAPS

CONSTANTS Providers,  \* provider ids
          MaxTasks,   \* bound on operations
          Kinds,      \* subset of {"credential", "provider", "full"}
          MayFail     \* whether reads fail and callers abort

VARIABLES
  cred,      \* provider -> version of its credential
  snapshot,  \* provider -> version the snapshot shows
  task,      \* task -> [kind, of, pc, prev, seq, pseq, reads]
  tail,      \* credentialOperations: provider -> its last queued task, or 0
  seq,       \* availabilityRefreshSeq
  pseq       \* providerAvailabilitySeq: provider -> number, 0 when absent

vars == <<cred, snapshot, task, tail, seq, pseq>>

Tasks == 1..MaxTasks
Unread == -1
NoReads == [p \in Providers |-> Unread]
NotBegun == [kind |-> "none", of |-> {}, pc |-> "unsent", prev |-> 0, seq |-> 0, pseq |-> 0,
             reads |-> NoReads]

Init ==
  /\ cred = [p \in Providers |-> 0]
  /\ snapshot = [p \in Providers |-> 0]
  /\ task = [t \in Tasks |-> NotBegun]
  /\ tail = [p \in Providers |-> 0]
  /\ seq = 0
  /\ pseq = [p \in Providers |-> 0]

Ended(t) == IF t = 0 THEN TRUE ELSE task[t].pc \in {"done", "failed"}
First(t) == task[t].pc = "unsent" /\ \A u \in Tasks : u < t => task[u].pc # "unsent"

-----------------------------------------------------------------------------
(* Passes over the providers' availability. *)

\* refreshProviderAvailability up to its reads: full passes are superseded, and
\* other passes of this provider.
BeginProviderPass(t, p, k) ==
  /\ seq' = seq + 1
  /\ pseq' = [pseq EXCEPT ![p] = @ + 1]
  /\ task' = [task EXCEPT ![t] = [NotBegun EXCEPT !.kind = k, !.of = {p}, !.pc = "reading",
                                                  !.pseq = pseq'[p]]]

\* queueAvailabilityRefresh: it supersedes every pass.
BeginFullPass(t) ==
  /\ seq' = seq + 1
  /\ pseq' = [p \in Providers |-> IF pseq[p] = 0 THEN 0 ELSE pseq[p] + 1]
  /\ task' = [task EXCEPT ![t] = [NotBegun EXCEPT !.kind = "full", !.of = Providers,
                                                  !.pc = "reading", !.seq = seq']]

\* getAvailable, checkAuth and the credential, as one read of each provider.
Read(t, p) ==
  /\ task[t].pc = "reading" /\ p \in task[t].of /\ task[t].reads[p] = Unread
  /\ task' = [task EXCEPT ![t].reads[p] = cred[p]]
  /\ UNCHANGED <<cred, snapshot, tail, seq, pseq>>

\* The pass is dropped if it has been superseded; else the snapshot takes it.
IsLatest_anyProvider(t) == \A p \in Providers : task[t].pseq = pseq[p]
IsLatest_fullUnchecked(t) == task[t].kind = "full" \/ \A p \in task[t].of : task[t].pseq = pseq[p]
IsLatest(t) ==
  IF task[t].kind = "full" THEN task[t].seq = seq
  ELSE \A p \in task[t].of : task[t].pseq = pseq[p]

Publish(t) ==
  /\ task[t].pc = "reading" /\ \A p \in task[t].of : task[t].reads[p] # Unread
  /\ snapshot' = IF IsLatest(t)
                 THEN [p \in Providers |-> IF p \in task[t].of THEN task[t].reads[p] ELSE snapshot[p]]
                 ELSE snapshot
  /\ task' = [task EXCEPT ![t].pc = "done"]
  /\ UNCHANGED <<cred, tail, seq, pseq>>

\* A read fails or the caller aborts: the snapshot stays as it is.
PassFails(t) ==
  /\ MayFail /\ task[t].pc = "reading"
  /\ task' = [task EXCEPT ![t].pc = "failed"]
  /\ UNCHANGED <<cred, snapshot, tail, seq, pseq>>

-----------------------------------------------------------------------------
(* Refreshes.  The catalog part of a refresh is ModelCatalog's subject. *)

\* getAvailable(), or refresh() of all providers.
refresh(t) ==
  /\ "full" \in Kinds /\ First(t)
  /\ BeginFullPass(t)
  /\ UNCHANGED <<cred, snapshot, tail>>

\* refresh({ providers: [p] }).
refreshProvider(t, p) ==
  /\ "provider" \in Kinds /\ First(t)
  /\ BeginProviderPass(t, p, "provider")
  /\ UNCHANGED <<cred, snapshot, tail>>

-----------------------------------------------------------------------------
(* Credential operations. *)

enqueueCredentialOperation(t, p) ==
  /\ "credential" \in Kinds /\ First(t)
  /\ task' = [task EXCEPT ![t] = [NotBegun EXCEPT !.kind = "credential", !.of = {p},
                                                  !.pc = "queued", !.prev = tail[p]]]
  /\ tail' = [tail EXCEPT ![p] = t]
  /\ UNCHANGED <<cred, snapshot, seq, pseq>>

\* The one before it has settled, either way: the credential is changed, or the
\* operation fails first (aborted in the queue, or its own login failed).
Turn(t) == task[t].pc = "queued" /\ Ended(task[t].prev)

commit(t, p) ==
  /\ Turn(t) /\ task[t].of = {p}
  /\ cred' = [cred EXCEPT ![p] = @ + 1]
  /\ task' = [task EXCEPT ![t].pc = "committed"]
  /\ UNCHANGED <<snapshot, tail, seq, pseq>>
operationFails(t) ==
  /\ MayFail /\ Turn(t)
  /\ task' = [task EXCEPT ![t].pc = "failed"]
  /\ UNCHANGED <<cred, snapshot, tail, seq, pseq>>

\* synchronizeCredentialState: the catalog is refreshed, then availability.
synchronizeCredentialState(t, p) ==
  /\ task[t].pc = "committed" /\ task[t].of = {p}
  /\ BeginProviderPass(t, p, "credential")
  /\ UNCHANGED <<cred, snapshot, tail>>
synchronizationFails(t) ==
  /\ MayFail /\ task[t].pc = "committed"
  /\ task' = [task EXCEPT ![t].pc = "failed"]
  /\ UNCHANGED <<cred, snapshot, tail, seq, pseq>>

-----------------------------------------------------------------------------
AtRest == \A t \in Tasks : task[t].pc \in {"unsent", "done", "failed"}

Rest == AtRest /\ UNCHANGED vars

Progress(t) ==
  \/ \E p \in Providers : Read(t, p) \/ commit(t, p) \/ synchronizeCredentialState(t, p)
  \/ Publish(t) \/ PassFails(t) \/ operationFails(t) \/ synchronizationFails(t)

Begin(t) ==
  \/ refresh(t)
  \/ \E p \in Providers : refreshProvider(t, p) \/ enqueueCredentialOperation(t, p)

Next ==
  \/ \E t \in Tasks : Begin(t) \/ Progress(t)
  \/ Rest

Spec == Init /\ [][Next]_vars

\* Reads and credential operations return.
FairSpec == Spec /\ \A t \in Tasks : WF_vars(Progress(t))

-----------------------------------------------------------------------------
(* Properties. *)

\* However passes overlap, the snapshot of a provider never goes back to a
\* credential older than the one it has shown (availabilityRefreshSeq and
\* providerAvailabilitySeq).
NeverOlderStep == \A p \in Providers : snapshot'[p] >= snapshot[p]

\* Once nothing is under way the snapshot shows every provider's credential, if
\* no operation has failed.
SnapshotIsCurrent == AtRest => snapshot = cred

\* Credential operations of one provider run one after the other, through
\* their synchronization (enqueueCredentialOperation).
OneAtATime ==
  \A t, u \in Tasks :
    /\ t # u /\ {task[t].kind, task[u].kind} = {"credential"} /\ task[t].of = task[u].of
    /\ task[t].pc \in {"committed", "reading"}
    => task[u].pc \notin {"committed", "reading"}

Sent(t) == task[t].pc # "unsent"


-----------------------------------------------------------------------------
(* Proofs, for any number of providers and operations.  What keeps passes    *)
(* apart is that a provider has at most one reading pass that may still be   *)
(* published.                                                              *)

Reads == [Providers -> Nat \cup {Unread}]
Task == [kind : {"none", "credential", "provider", "full"}, of : SUBSET Providers,
         pc : {"unsent", "queued", "committed", "reading", "done", "failed"},
         prev : Tasks \cup {0}, seq : Nat, pseq : Nat, reads : Reads]

TypeOK ==
  /\ cred \in [Providers -> Nat] /\ snapshot \in [Providers -> Nat]
  /\ task \in [Tasks -> Task]
  /\ tail \in [Providers -> Tasks \cup {0}] /\ seq \in Nat /\ pseq \in [Providers -> Nat]

\* The numbers of a pass were the newest when it began; only full passes read more
\* than one provider, and the others made their provider's number positive.
Numbered ==
  \A t \in Tasks : task[t].pc = "reading" =>
    \/ task[t].kind = "full" /\ task[t].seq <= seq
    \/ /\ task[t].kind # "full"
       /\ \E p \in Providers : task[t].of = {p} /\ task[t].pseq \in 1..pseq[p]

\* The pass of t may still publish provider p.
Covers(t, p) == task[t].pc = "reading" /\ p \in task[t].of /\ IsLatest(t)

\* Of two passes that overlap on a provider one is superseded.
OnePassPerProvider ==
  \A t, u \in Tasks : \A p \in Providers : Covers(t, p) /\ Covers(u, p) => t = u

\* What a pass that may be published has read is not older than what is shown.
ReadsAreNotOlder ==
  /\ \A p \in Providers : snapshot[p] <= cred[p]
  /\ \A t \in Tasks, p \in Providers :
       Covers(t, p) /\ task[t].reads[p] # Unread => snapshot[p] <= task[t].reads[p]
  /\ \A t \in Tasks, p \in Providers : task[t].reads[p] <= cred[p]

PassInv == TypeOK /\ Numbered /\ OnePassPerProvider /\ ReadsAreNotOlder

\* One task changes.
LEMMA SetTask ==
  ASSUME TypeOK, NEW t \in Tasks, NEW x \in Task, task' = [task EXCEPT ![t] = x]
  PROVE  /\ task' \in [Tasks -> Task] /\ task'[t] = x
         /\ \A u \in Tasks \ {t} : task'[u] = task[u]
BY DEF TypeOK

\* A task that is not reading changes to one that is not.
LEMMA Aside ==
  ASSUME PassInv, NEW t \in Tasks, NEW x \in Task, task' = [task EXCEPT ![t] = x],
         x.pc # "reading", x.reads = task[t].reads \/ x.reads = NoReads,
         UNCHANGED <<snapshot, seq, pseq>>, cred' \in [Providers -> Nat],
         \A p \in Providers : cred[p] <= cred'[p], tail' \in [Providers -> Tasks \cup {0}]
  PROVE  PassInv' /\ NeverOlderStep
<1>1. TypeOK'
  BY SetTask DEF PassInv, TypeOK
<1>2. task'[t] = x /\ \A u \in Tasks \ {t} : task'[u] = task[u]
  BY SetTask DEF PassInv
<1>3. Numbered'
  BY <1>2 DEF PassInv, Numbered
<1>4. \A u \in Tasks, p \in Providers : Covers(u, p)' => u # t /\ Covers(u, p)
  BY <1>2 DEF Covers, IsLatest
<1>5. OnePassPerProvider'
  BY <1>4 DEF PassInv, OnePassPerProvider
<1>6. \A u \in Tasks, p \in Providers : task'[u].reads[p] <= cred'[p]
  <2> SUFFICES ASSUME NEW u \in Tasks, NEW p \in Providers PROVE task'[u].reads[p] <= cred'[p]
    OBVIOUS
  <2>1. task[u].reads[p] <= cred[p] /\ cred[p] <= cred'[p] /\ cred[p] \in Nat /\ cred'[p] \in Nat
    BY DEF PassInv, ReadsAreNotOlder, TypeOK
  <2>2. task[u].reads[p] \in Nat \cup {Unread}
    BY DEF PassInv, TypeOK, Task, Reads
  <2>3. task'[u].reads[p] \in {task[u].reads[p], Unread}
    BY <1>2 DEF NoReads
  <2>4. QED
    BY <2>1, <2>2, <2>3 DEF Unread
<1>7. \A p \in Providers : snapshot[p] <= cred'[p]
  BY <1>1 DEF PassInv, ReadsAreNotOlder, TypeOK
<1>8. ReadsAreNotOlder'
  BY <1>2, <1>4, <1>6, <1>7 DEF PassInv, ReadsAreNotOlder
<1>9. QED
  BY <1>1, <1>3, <1>5, <1>8 DEF PassInv, NeverOlderStep, TypeOK

\* A pass of one provider begins.
LEMMA ProviderPass ==
  ASSUME PassInv, NEW t \in Tasks, NEW p \in Providers, NEW k \in {"credential", "provider"},
         BeginProviderPass(t, p, k), UNCHANGED <<cred, snapshot, tail>>
  PROVE  PassInv' /\ NeverOlderStep
<1> DEFINE x == [NotBegun EXCEPT !.kind = k, !.of = {p}, !.pc = "reading", !.pseq = pseq'[p]]
<1>1. /\ seq \in Nat /\ seq' = seq + 1 /\ pseq' \in [Providers -> Nat] /\ pseq'[p] = pseq[p] + 1
      /\ pseq[p] \in Nat /\ \A q \in Providers \ {p} : pseq'[q] = pseq[q]
  BY DEF BeginProviderPass, PassInv, TypeOK
<1>2. x \in Task /\ x.kind = k /\ x.of = {p} /\ x.pc = "reading" /\ x.pseq = pseq'[p] /\ x.reads = NoReads
  BY <1>1 DEF NotBegun, NoReads, Task, Reads, Unread
<1>3. task' \in [Tasks -> Task] /\ task'[t] = x /\ \A u \in Tasks \ {t} : task'[u] = task[u]
  BY <1>2, SetTask DEF BeginProviderPass, PassInv
<1> HIDE DEF x
<1>4. TypeOK'
  BY <1>1, <1>3 DEF PassInv, TypeOK
<1>5. ASSUME NEW u \in Tasks, task'[u].pc = "reading"
      PROVE  \/ task'[u].kind = "full" /\ task'[u].seq <= seq'
             \/ /\ task'[u].kind # "full"
                /\ \E q \in Providers : task'[u].of = {q} /\ task'[u].pseq \in 1..pseq'[q]
  <2>1. CASE u = t
    BY <1>1, <1>2, <1>3, <2>1
  <2>2. CASE u # t
    <3>1. task'[u] = task[u] /\ task[u] \in Task
      BY <1>3, <2>2 DEF PassInv, TypeOK
    <3>2. \/ task[u].kind = "full" /\ task[u].seq <= seq
          \/ /\ task[u].kind # "full"
             /\ \E q \in Providers : task[u].of = {q} /\ task[u].pseq \in 1..pseq[q]
      BY <1>5, <3>1 DEF PassInv, Numbered
    <3>3. \A q \in Providers : pseq[q] \in Nat /\ pseq[q] <= pseq'[q] /\ pseq'[q] \in Nat
      BY <1>1 DEF PassInv, TypeOK
    <3>4. QED
      BY <1>1, <3>1, <3>2, <3>3 DEF Task
  <2>3. QED
    BY <2>1, <2>2
<1>6. ASSUME NEW u \in Tasks, NEW q \in Providers, Covers(u, q)'
      PROVE  (u = t /\ q = p) \/ (u # t /\ q # p /\ Covers(u, q))
  <2>1. CASE u = t
    BY <1>2, <1>3, <1>6, <2>1 DEF Covers
  <2>2. CASE u # t
    <3>1. task'[u] = task[u] /\ task[u] \in Task /\ task[u].pc = "reading" /\ q \in task[u].of
      BY <1>3, <1>6, <2>2 DEF PassInv, TypeOK, Covers
    <3>2. \/ task[u].kind = "full" /\ task[u].seq <= seq
          \/ /\ task[u].kind # "full"
             /\ \E r \in Providers : task[u].of = {r} /\ task[u].pseq \in 1..pseq[r]
      BY <3>1 DEF PassInv, Numbered
    <3>3. task[u].kind # "full"
      BY <1>1, <1>6, <3>1, <3>2 DEF Covers, IsLatest, Task
    <3>4. task[u].of = {q} /\ task[u].pseq \in 1..pseq[q] /\ task[u].pseq = pseq'[q]
      BY <1>6, <3>1, <3>2, <3>3 DEF Covers, IsLatest
    <3>5. q # p
      BY <1>1, <3>4
    <3>6. QED
      BY <1>1, <2>2, <3>1, <3>3, <3>4, <3>5 DEF Covers, IsLatest
  <2>3. QED
    BY <2>1, <2>2
<1>7. OnePassPerProvider'
  BY <1>6 DEF PassInv, OnePassPerProvider
<1>8. \A u \in Tasks, q \in Providers : task'[u].reads[q] \in {task[u].reads[q], Unread}
  BY <1>2, <1>3 DEF NoReads
<1>9. \A u \in Tasks, q \in Providers : task'[u].reads[q] <= cred'[q]
  BY <1>8 DEF PassInv, ReadsAreNotOlder, TypeOK, Unread
<1>10. ASSUME NEW u \in Tasks, NEW q \in Providers, Covers(u, q)', task'[u].reads[q] # Unread
       PROVE  snapshot[q] <= task'[u].reads[q]
  BY <1>2, <1>3, <1>6, <1>10 DEF PassInv, ReadsAreNotOlder, NoReads
<1>11. QED
  BY <1>4, <1>5, <1>7, <1>9, <1>10 DEF PassInv, Numbered, ReadsAreNotOlder, NeverOlderStep, TypeOK

\* A full pass begins: no earlier pass may be published any more.
LEMMA FullPass ==
  ASSUME PassInv, NEW t \in Tasks, BeginFullPass(t), UNCHANGED <<cred, snapshot, tail>>
  PROVE  PassInv' /\ NeverOlderStep
<1>0. PICK all \in SUBSET Providers : all = Providers
  OBVIOUS
<1> DEFINE x == [NotBegun EXCEPT !.kind = "full", !.of = all, !.pc = "reading", !.seq = seq']
<1>1. /\ seq \in Nat /\ seq' = seq + 1 /\ pseq' \in [Providers -> Nat]
      /\ \A p \in Providers : pseq[p] \in Nat /\ pseq'[p] = IF pseq[p] = 0 THEN 0 ELSE pseq[p] + 1
  BY DEF BeginFullPass, PassInv, TypeOK
<1>2. x \in Task /\ x.kind = "full" /\ x.pc = "reading" /\ x.seq = seq' /\ x.reads = NoReads
  <2>1. NoReads \in Reads /\ seq' \in Nat
    BY <1>1 DEF NoReads, Reads, Unread
  <2>2. QED
    BY <2>1 DEF NotBegun, Task
<1>3. task' \in [Tasks -> Task] /\ task'[t] = x /\ \A u \in Tasks \ {t} : task'[u] = task[u]
  BY <1>0, <1>2, SetTask DEF BeginFullPass, PassInv
<1> HIDE DEF x
<1>4. TypeOK'
  BY <1>1, <1>3 DEF PassInv, TypeOK
<1>5. ASSUME NEW u \in Tasks, u # t, task[u].pc = "reading"
      PROVE  /\ task'[u] = task[u] /\ ~IsLatest(u)'
             /\ \/ task[u].kind = "full" /\ task[u].seq <= seq'
                \/ /\ task[u].kind # "full"
                   /\ \E q \in Providers : task[u].of = {q} /\ task[u].pseq \in 1..pseq'[q]
  <2>1. task'[u] = task[u] /\ task[u] \in Task
    BY <1>3, <1>5 DEF PassInv, TypeOK
  <2>2. CASE task[u].kind = "full" /\ task[u].seq <= seq
    BY <1>1, <2>1, <2>2 DEF IsLatest, Task
  <2>3. CASE task[u].kind # "full"
    <3>1. PICK q \in Providers : task[u].of = {q} /\ task[u].pseq \in 1..pseq[q]
      BY <1>5, <2>3 DEF PassInv, Numbered
    <3>2. task[u].pseq \in 1..pseq'[q] /\ task[u].pseq # pseq'[q]
      BY <1>1, <3>1
    <3>3. QED
      BY <2>1, <2>3, <3>1, <3>2 DEF IsLatest
  <2>4. QED
    BY <1>5, <2>2, <2>3 DEF PassInv, Numbered
<1>6. Numbered'
  <2> SUFFICES ASSUME NEW u \in Tasks, task'[u].pc = "reading"
               PROVE  \/ task'[u].kind = "full" /\ task'[u].seq <= seq'
                      \/ /\ task'[u].kind # "full"
                         /\ \E p \in Providers : task'[u].of = {p} /\ task'[u].pseq \in 1..pseq'[p]
    BY DEF Numbered
  <2>1. CASE u = t
    BY <1>1, <1>2, <1>3, <2>1
  <2>2. CASE u # t
    <3>1. task[u].pc = "reading"
      BY <1>3, <2>2
    <3>2. QED
      BY <1>5, <2>2, <3>1
  <2>3. QED
    BY <2>1, <2>2
<1>7. \A u \in Tasks, p \in Providers : Covers(u, p)' => u = t
  BY <1>3, <1>5 DEF Covers
<1>8. OnePassPerProvider'
  BY <1>7 DEF OnePassPerProvider
<1>9. \A u \in Tasks, q \in Providers : task'[u].reads[q] \in {task[u].reads[q], Unread}
  BY <1>2, <1>3 DEF NoReads
<1>10. \A u \in Tasks, q \in Providers : task'[u].reads[q] <= cred'[q]
  BY <1>9 DEF PassInv, ReadsAreNotOlder, TypeOK, Unread
<1>11. ReadsAreNotOlder'
  BY <1>2, <1>3, <1>7, <1>10 DEF PassInv, ReadsAreNotOlder, NoReads
<1>12. QED
  BY <1>4, <1>6, <1>8, <1>11 DEF PassInv, NeverOlderStep, TypeOK

\* A pass reads the credential there is now.
LEMMA ReadStep ==
  ASSUME PassInv, NEW t \in Tasks, NEW p \in Providers, Read(t, p)
  PROVE  PassInv' /\ NeverOlderStep
<1> DEFINE x == [task[t] EXCEPT !.reads = [task[t].reads EXCEPT ![p] = cred[p]]]
<1>1. task[t] \in Task /\ cred[p] \in Nat /\ task' = [task EXCEPT ![t] = x]
      /\ UNCHANGED <<cred, snapshot, tail, seq, pseq>>
  BY DEF Read, PassInv, TypeOK
<1>2. /\ x \in Task /\ x.kind = task[t].kind /\ x.of = task[t].of /\ x.pc = task[t].pc
      /\ x.seq = task[t].seq /\ x.pseq = task[t].pseq /\ x.reads[p] = cred[p]
      /\ \A q \in Providers \ {p} : x.reads[q] = task[t].reads[q]
  BY <1>1 DEF Task, Reads
<1>3. task' \in [Tasks -> Task] /\ task'[t] = x /\ \A u \in Tasks \ {t} : task'[u] = task[u]
  BY <1>1, <1>2, SetTask DEF PassInv
<1> HIDE DEF x
<1>4. \A u \in Tasks : /\ task'[u].kind = task[u].kind /\ task'[u].of = task[u].of /\ task'[u].pc = task[u].pc
                       /\ task'[u].seq = task[u].seq /\ task'[u].pseq = task[u].pseq
                       /\ \A q \in Providers : task'[u].reads[q] \in {task[u].reads[q], cred[q]}
  BY <1>2, <1>3
<1>5. TypeOK'
  BY <1>1, <1>3 DEF PassInv, TypeOK
<1>6. Numbered'
  BY <1>1, <1>4 DEF PassInv, Numbered
<1>7. \A u \in Tasks, q \in Providers : Covers(u, q)' <=> Covers(u, q)
  BY <1>1, <1>4 DEF Covers, IsLatest
<1>8. OnePassPerProvider'
  BY <1>7 DEF PassInv, OnePassPerProvider
<1>9. ReadsAreNotOlder'
  BY <1>1, <1>4, <1>7 DEF PassInv, ReadsAreNotOlder, TypeOK
<1>10. QED
  BY <1>1, <1>5, <1>6, <1>8, <1>9 DEF PassInv, NeverOlderStep, TypeOK

\* A pass ends: what it shows is not older, and no other pass covers what it showed.
LEMMA PublishStep ==
  ASSUME PassInv, NEW t \in Tasks, Publish(t)
  PROVE  PassInv' /\ NeverOlderStep
<1> DEFINE x == [task[t] EXCEPT !.pc = "done"]
<1>1. /\ task[t] \in Task /\ task[t].pc = "reading" /\ task' = [task EXCEPT ![t] = x]
      /\ \A p \in task[t].of : task[t].reads[p] # Unread
      /\ UNCHANGED <<cred, tail, seq, pseq>>
  BY DEF Publish, PassInv, TypeOK
<1>2. x \in Task /\ x.pc = "done" /\ x.reads = task[t].reads
  BY <1>1 DEF Task
<1>3. task' \in [Tasks -> Task] /\ task'[t] = x /\ \A u \in Tasks \ {t} : task'[u] = task[u]
  BY <1>1, <1>2, SetTask DEF PassInv
<1>4. /\ snapshot' \in [Providers -> Nat]
      /\ \A p \in Providers : snapshot'[p] = IF Covers(t, p) THEN task[t].reads[p] ELSE snapshot[p]
  <2>1. \A p \in Providers : task[t].reads[p] \in Nat \cup {Unread} /\ snapshot[p] \in Nat
    BY <1>1 DEF Task, Reads, PassInv, TypeOK
  <2>2. CASE IsLatest(t)
    <3>1. snapshot' = [p \in Providers |-> IF p \in task[t].of THEN task[t].reads[p] ELSE snapshot[p]]
      BY <2>2 DEF Publish
    <3>2. QED
      BY <1>1, <2>1, <2>2, <3>1 DEF Covers
  <2>3. CASE ~IsLatest(t)
    BY <2>3 DEF Publish, Covers, PassInv, TypeOK
  <2>4. QED
    BY <2>2, <2>3
<1> HIDE DEF x
<1>5. TypeOK'
  BY <1>1, <1>3, <1>4 DEF PassInv, TypeOK
<1>6. Numbered'
  BY <1>1, <1>2, <1>3 DEF PassInv, Numbered
<1>7. \A u \in Tasks, p \in Providers : Covers(u, p)' => u # t /\ Covers(u, p)
  BY <1>1, <1>2, <1>3 DEF Covers, IsLatest
<1>8. OnePassPerProvider'
  BY <1>7 DEF PassInv, OnePassPerProvider
<1>9. \A p \in Providers : snapshot[p] <= snapshot'[p] /\ snapshot'[p] <= cred[p]
  <2> SUFFICES ASSUME NEW p \in Providers PROVE snapshot[p] <= snapshot'[p] /\ snapshot'[p] <= cred[p]
    OBVIOUS
  <2>1. snapshot[p] \in Nat /\ snapshot[p] <= cred[p]
    BY DEF PassInv, TypeOK, ReadsAreNotOlder
  <2>2. Covers(t, p) => snapshot[p] <= task[t].reads[p] /\ task[t].reads[p] <= cred[p]
    BY <1>1 DEF PassInv, ReadsAreNotOlder, Covers
  <2>3. QED
    BY <1>4, <2>1, <2>2
<1>10. ASSUME NEW u \in Tasks, NEW p \in Providers, Covers(u, p)', task'[u].reads[p] # Unread
       PROVE  snapshot'[p] <= task'[u].reads[p]
  <2>1. u # t /\ Covers(u, p) /\ ~Covers(t, p) /\ task'[u] = task[u]
    BY <1>3, <1>7, <1>10 DEF PassInv, OnePassPerProvider
  <2>2. QED
    BY <1>4, <1>10, <2>1 DEF PassInv, ReadsAreNotOlder
<1>11. \A u \in Tasks, p \in Providers : task'[u].reads[p] <= cred'[p]
  BY <1>1, <1>2, <1>3 DEF PassInv, ReadsAreNotOlder
<1>12. QED
  BY <1>1, <1>5, <1>6, <1>8, <1>9, <1>10, <1>11 DEF PassInv, ReadsAreNotOlder, NeverOlderStep, TypeOK

\* The other steps leave the passes that read alone.
LEMMA OtherStep ==
  ASSUME PassInv, NEW t \in Tasks,
         \/ PassFails(t) \/ operationFails(t) \/ synchronizationFails(t)
         \/ \E p \in Providers : enqueueCredentialOperation(t, p) \/ commit(t, p)
  PROVE  PassInv' /\ NeverOlderStep
<1>1. task[t] \in Task /\ \A p \in Providers : cred[p] \in Nat /\ tail[p] \in Tasks \cup {0}
  BY DEF PassInv, TypeOK
<1>2. ASSUME NEW pc \in {"failed", "committed"}, task' = [task EXCEPT ![t].pc = pc],
             UNCHANGED <<snapshot, tail, seq, pseq>>, cred' \in [Providers -> Nat],
             \A p \in Providers : cred[p] <= cred'[p]
      PROVE  PassInv' /\ NeverOlderStep
  <2> DEFINE x == [task[t] EXCEPT !.pc = pc]
  <2>1. x \in Task /\ x.pc = pc /\ x.reads = task[t].reads /\ task' = [task EXCEPT ![t] = x]
    BY <1>1, <1>2 DEF Task
  <2>2. tail' \in [Providers -> Tasks \cup {0}]
    BY <1>2 DEF PassInv, TypeOK
  <2> HIDE DEF x
  <2>3. QED
    BY <1>2, <2>1, <2>2, Aside
<1>3. CASE PassFails(t) \/ operationFails(t) \/ synchronizationFails(t)
  BY <1>1, <1>2, <1>3 DEF PassFails, operationFails, synchronizationFails, PassInv, TypeOK
<1>4. ASSUME NEW p \in Providers, commit(t, p) PROVE PassInv' /\ NeverOlderStep
  BY <1>1, <1>2, <1>4 DEF commit, PassInv, TypeOK
<1>5. ASSUME NEW p \in Providers, enqueueCredentialOperation(t, p) PROVE PassInv' /\ NeverOlderStep
  <2> DEFINE x == [NotBegun EXCEPT !.kind = "credential", !.of = {p}, !.pc = "queued", !.prev = tail[p]]
  <2>1. x \in Task /\ x.pc = "queued" /\ x.reads = NoReads
    BY <1>1 DEF NotBegun, NoReads, Task, Reads, Unread
  <2>2. /\ task' = [task EXCEPT ![t] = x] /\ UNCHANGED <<cred, snapshot, seq, pseq>>
    BY <1>5 DEF enqueueCredentialOperation
  <2>3. tail' \in [Providers -> Tasks \cup {0}]
    BY <1>5 DEF enqueueCredentialOperation, PassInv, TypeOK
  <2>4. cred' \in [Providers -> Nat] /\ \A q \in Providers : cred[q] <= cred'[q]
    BY <1>1, <2>2 DEF PassInv, TypeOK
  <2> HIDE DEF x
  <2>5. QED
    BY <2>1, <2>2, <2>3, <2>4, Aside
<1>6. QED
  BY <1>3, <1>4, <1>5

\* The inductive step.
LEMMA PassStep == PassInv /\ [Next]_vars => PassInv' /\ [NeverOlderStep]_vars
<1> SUFFICES ASSUME PassInv, [Next]_vars PROVE PassInv' /\ [NeverOlderStep]_vars
  OBVIOUS
<1>1. ASSUME NEW t \in Tasks, Begin(t) PROVE PassInv' /\ NeverOlderStep
  <2>1. CASE refresh(t)
    BY <2>1, FullPass DEF refresh
  <2>2. ASSUME NEW p \in Providers, refreshProvider(t, p) PROVE PassInv' /\ NeverOlderStep
    BY <2>2, ProviderPass DEF refreshProvider
  <2>3. QED
    BY <1>1, <2>1, <2>2, OtherStep DEF Begin
<1>2. ASSUME NEW t \in Tasks, Progress(t) PROVE PassInv' /\ NeverOlderStep
  <2>1. ASSUME NEW p \in Providers, synchronizeCredentialState(t, p) PROVE PassInv' /\ NeverOlderStep
    BY <2>1, ProviderPass DEF synchronizeCredentialState
  <2>2. QED
    BY <1>2, <2>1, ReadStep, PublishStep, OtherStep DEF Progress
<1>3. CASE UNCHANGED vars
  BY <1>3 DEF vars, PassInv, TypeOK, Numbered, OnePassPerProvider, Covers, IsLatest, ReadsAreNotOlder
<1>4. QED
  BY <1>1, <1>2, <1>3 DEF Next, Rest

-----------------------------------------------------------------------------
(* Nothing that is shown stays behind its credential unless an operation is  *)
(* under way that will show it.                                            *)

\* Task t is going to show the credential of p.
WillShow(t, p) ==
  \/ task[t].pc = "committed" /\ task[t].of = {p}
  \/ Covers(t, p) /\ task[t].reads[p] \in {Unread, cred[p]}

ShownOrPending == \A p \in Providers : snapshot[p] = cred[p] \/ \E t \in Tasks : WillShow(t, p)

\* Only credential operations are committed, each for one provider.
CommittedHasProvider ==
  \A t \in Tasks : task[t].pc \in {"queued", "committed"} => \E p \in Providers : task[t].of = {p}

\* Every pass is for one provider when there are no refreshes of all of them.
NoFullPass == \A t \in Tasks : task[t].kind # "full"

ShownInv == PassInv /\ CommittedHasProvider /\ NoFullPass /\ ShownOrPending

\* A step of a program whose reads succeed and whose refreshes name their provider
\* leaves no provider behind.
LEMMA ShownStep ==
  ASSUME "full" \notin Kinds, ~MayFail, ShownInv, [Next]_vars
  PROVE  ShownInv'
<1>1. PassInv /\ PassInv' /\ TypeOK /\ TypeOK'
  BY PassStep DEF ShownInv, PassInv
<1>2. \A t \in Tasks : task[t] \in Task /\ task[t].kind # "full"
  BY <1>1 DEF TypeOK, ShownInv, NoFullPass
<1>3. ASSUME NEW t \in Tasks, NEW p \in Providers, NEW k \in {"credential", "provider"},
             BeginProviderPass(t, p, k), UNCHANGED <<cred, snapshot, tail>>,
             task[t].pc \in {"unsent", "committed"}, task[t].pc = "committed" => task[t].of = {p}
      PROVE  ShownInv'
  <2> DEFINE x == [NotBegun EXCEPT !.kind = k, !.of = {p}, !.pc = "reading", !.pseq = pseq'[p]]
  <2>1. pseq'[p] = pseq[p] + 1 /\ pseq[p] \in Nat /\ \A q \in Providers \ {p} : pseq'[q] = pseq[q]
    BY <1>1, <1>3 DEF BeginProviderPass, TypeOK
  <2>2. x.kind = k /\ x.of = {p} /\ x.pc = "reading" /\ x.pseq = pseq'[p] /\ x.reads = NoReads
    BY DEF NotBegun
  <2>3. task'[t] = x /\ \A u \in Tasks \ {t} : task'[u] = task[u]
    BY <1>1, <1>3 DEF BeginProviderPass, TypeOK
  <2> HIDE DEF x
  <2>4. CommittedHasProvider' /\ NoFullPass'
    BY <2>2, <2>3 DEF ShownInv, CommittedHasProvider, NoFullPass
  <2>5. WillShow(t, p)'
    BY <2>2, <2>3 DEF WillShow, Covers, IsLatest, NoReads
  <2>6. ASSUME NEW q \in Providers \ {p}, NEW u \in Tasks, WillShow(u, q) PROVE WillShow(u, q)'
    <3>1. u # t
      BY <1>3, <2>6 DEF WillShow, Covers
    <3>2. task'[u] = task[u] /\ task[u].kind # "full"
      BY <1>2, <2>3, <3>1
    <3>3. CASE task[u].pc = "committed"
      BY <2>6, <3>2, <3>3 DEF WillShow, Covers
    <3>4. CASE task[u].pc = "reading"
      <4>1. PICK r \in Providers : task[u].of = {r}
        BY <1>1, <3>2, <3>4 DEF PassInv, Numbered
      <4>2. r = q
        BY <2>6, <3>4, <4>1 DEF WillShow, Covers
      <4>3. QED
        BY <1>3, <2>1, <2>6, <3>2, <3>4, <4>1, <4>2 DEF WillShow, Covers, IsLatest
    <3>5. QED
      BY <2>6, <3>3, <3>4 DEF WillShow, Covers
  <2>7. ShownOrPending'
    BY <1>3, <2>5, <2>6 DEF ShownInv, ShownOrPending
  <2>8. QED
    BY <1>1, <2>4, <2>7 DEF ShownInv
<1>4. ASSUME NEW t \in Tasks, NEW p \in Providers, refreshProvider(t, p) PROVE ShownInv'
  BY <1>3, <1>4 DEF refreshProvider, First
<1>5. ASSUME NEW t \in Tasks, NEW p \in Providers, synchronizeCredentialState(t, p) PROVE ShownInv'
  BY <1>3, <1>5 DEF synchronizeCredentialState
<1>6. ASSUME NEW t \in Tasks, NEW p \in Providers, enqueueCredentialOperation(t, p) PROVE ShownInv'
  <2> DEFINE x == [NotBegun EXCEPT !.kind = "credential", !.of = {p}, !.pc = "queued", !.prev = tail[p]]
  <2>1. x.kind = "credential" /\ x.of = {p} /\ x.pc = "queued"
    BY DEF NotBegun
  <2>2. task' = [task EXCEPT ![t] = x] /\ UNCHANGED <<cred, snapshot, seq, pseq>> /\ task[t].pc = "unsent"
    BY <1>6 DEF enqueueCredentialOperation, First
  <2> HIDE DEF x
  <2>3. task'[t] = x /\ \A u \in Tasks \ {t} : task'[u] = task[u]
    BY <1>1, <2>2 DEF TypeOK
  <2>4. CommittedHasProvider' /\ NoFullPass'
    BY <2>1, <2>3 DEF ShownInv, CommittedHasProvider, NoFullPass
  <2>5. \A q \in Providers, u \in Tasks : WillShow(u, q) => WillShow(u, q)'
    BY <2>2, <2>3 DEF WillShow, Covers, IsLatest
  <2>6. QED
    BY <1>1, <2>2, <2>4, <2>5 DEF ShownInv, ShownOrPending
<1>7. ASSUME NEW t \in Tasks, NEW p \in Providers, Read(t, p) PROVE ShownInv'
  <2> DEFINE x == [task[t] EXCEPT !.reads = [task[t].reads EXCEPT ![p] = cred[p]]]
  <2>1. /\ task[t].pc = "reading" /\ task' = [task EXCEPT ![t] = x]
        /\ UNCHANGED <<cred, snapshot, tail, seq, pseq>>
    BY <1>7 DEF Read
  <2>2. /\ x.kind = task[t].kind /\ x.of = task[t].of /\ x.pc = task[t].pc
        /\ x.seq = task[t].seq /\ x.pseq = task[t].pseq /\ x.reads[p] = cred[p]
        /\ \A q \in Providers \ {p} : x.reads[q] = task[t].reads[q]
    BY <1>2 DEF Task, Reads
  <2>3. task'[t] = x /\ \A u \in Tasks \ {t} : task'[u] = task[u]
    BY <1>1, <2>1 DEF TypeOK
  <2> HIDE DEF x
  <2>4. \A u \in Tasks : /\ task'[u].kind = task[u].kind /\ task'[u].of = task[u].of /\ task'[u].pc = task[u].pc
                         /\ task'[u].seq = task[u].seq /\ task'[u].pseq = task[u].pseq
                         /\ \A q \in Providers : task'[u].reads[q] \in {task[u].reads[q], cred[q]}
    BY <2>2, <2>3
  <2>5. CommittedHasProvider' /\ NoFullPass'
    BY <2>4 DEF ShownInv, CommittedHasProvider, NoFullPass
  <2>6. \A q \in Providers, u \in Tasks : WillShow(u, q) => WillShow(u, q)'
    BY <2>1, <2>4 DEF WillShow, Covers, IsLatest
  <2>7. QED
    BY <1>1, <2>1, <2>5, <2>6 DEF ShownInv, ShownOrPending
<1>8. ASSUME NEW t \in Tasks, NEW p \in Providers, commit(t, p) PROVE ShownInv'
  <2> DEFINE x == [task[t] EXCEPT !.pc = "committed"]
  <2>1. /\ task[t].pc = "queued" /\ task[t].of = {p} /\ task' = [task EXCEPT ![t] = x]
        /\ cred' = [cred EXCEPT ![p] = @ + 1] /\ UNCHANGED <<snapshot, tail, seq, pseq>>
    BY <1>8 DEF commit, Turn
  <2>2. x.kind = task[t].kind /\ x.of = {p} /\ x.pc = "committed"
    BY <1>2, <2>1 DEF Task
  <2>3. task'[t] = x /\ \A u \in Tasks \ {t} : task'[u] = task[u]
    BY <1>1, <2>1 DEF TypeOK
  <2> HIDE DEF x
  <2>4. CommittedHasProvider' /\ NoFullPass'
    BY <2>2, <2>3 DEF ShownInv, CommittedHasProvider, NoFullPass
  <2>5. WillShow(t, p)'
    BY <2>2, <2>3 DEF WillShow
  <2>6. \A q \in Providers \ {p} : cred'[q] = cred[q]
    BY <1>1, <2>1 DEF TypeOK
  <2>7. \A q \in Providers \ {p}, u \in Tasks : WillShow(u, q) => WillShow(u, q)'
    BY <2>1, <2>3, <2>6 DEF WillShow, Covers, IsLatest
  <2>8. ShownOrPending'
    BY <2>1, <2>5, <2>6, <2>7 DEF ShownInv, ShownOrPending
  <2>9. QED
    BY <1>1, <2>4, <2>8 DEF ShownInv
<1>9. ASSUME NEW t \in Tasks, Publish(t) PROVE ShownInv'
  <2> DEFINE x == [task[t] EXCEPT !.pc = "done"]
  <2>1. /\ task[t].pc = "reading" /\ task' = [task EXCEPT ![t] = x] /\ UNCHANGED <<cred, tail, seq, pseq>>
        /\ \A p \in task[t].of : task[t].reads[p] # Unread
    BY <1>9 DEF Publish
  <2>2. x.kind = task[t].kind /\ x.of = task[t].of /\ x.pc = "done"
    BY <1>2 DEF Task
  <2>3. task'[t] = x /\ \A u \in Tasks \ {t} : task'[u] = task[u]
    BY <1>1, <2>1 DEF TypeOK
  <2> HIDE DEF x
  <2>4. CommittedHasProvider' /\ NoFullPass'
    BY <2>2, <2>3 DEF ShownInv, CommittedHasProvider, NoFullPass
  <2>5. \A p \in Providers : snapshot'[p] = IF Covers(t, p) THEN task[t].reads[p] ELSE snapshot[p]
    BY <1>1, <1>9 DEF Publish, Covers, TypeOK
  <2>6. ASSUME NEW p \in Providers PROVE snapshot'[p] = cred'[p] \/ \E u \in Tasks : WillShow(u, p)'
    <3>1. CASE WillShow(t, p)
      BY <2>1, <2>5, <3>1 DEF WillShow, Covers
    <3>2. CASE \E u \in Tasks \ {t} : WillShow(u, p)
      BY <2>1, <2>3, <3>2 DEF WillShow, Covers, IsLatest
    <3>3. CASE snapshot[p] = cred[p]
      <4>1. CASE Covers(t, p)
        <5>1. task[t].reads[p] \in Nat /\ task[t].reads[p] <= cred[p] /\ cred[p] <= task[t].reads[p] /\ cred[p] \in Nat
          BY <1>1, <1>2, <2>1, <3>3, <4>1 DEF PassInv, ReadsAreNotOlder, Covers, TypeOK, Task, Reads
        <5>2. QED
          BY <2>1, <2>5, <4>1, <5>1
      <4>2. CASE ~Covers(t, p)
        BY <2>1, <2>5, <3>3, <4>2
      <4>3. QED
        BY <4>1, <4>2
    <3>4. QED
      BY <3>1, <3>2, <3>3 DEF ShownInv, ShownOrPending
  <2>7. QED
    BY <1>1, <2>4, <2>6 DEF ShownInv, ShownOrPending
<1>10. CASE UNCHANGED vars
  BY <1>1, <1>10 DEF vars, ShownInv, CommittedHasProvider, NoFullPass, ShownOrPending, WillShow, Covers, IsLatest
<1>11. QED
  BY <1>4, <1>5, <1>6, <1>7, <1>8, <1>9, <1>10
  DEF Next, Rest, Begin, Progress, refresh, PassFails, operationFails, synchronizationFails

-----------------------------------------------------------------------------
(* The theorems.                                                           *)

\* Nothing has been read or changed at first.
LEMMA InitShown == Init => ShownInv
<1> SUFFICES ASSUME Init PROVE ShownInv
  OBVIOUS
<1>1. NotBegun \in Task
  BY DEF NotBegun, NoReads, Task, Reads, Unread
<1>2. TypeOK
  BY <1>1 DEF Init, TypeOK
<1>3. \A t \in Tasks : task[t] = NotBegun
  BY DEF Init
<1>4. \A t \in Tasks : task[t].pc = "unsent" /\ task[t].kind = "none" /\ task[t].reads = NoReads
  BY <1>3 DEF NotBegun
<1>5. \A p \in Providers : cred[p] = 0 /\ snapshot[p] = 0
  BY DEF Init
<1>6. Numbered /\ OnePassPerProvider /\ CommittedHasProvider /\ NoFullPass
  BY <1>4 DEF Numbered, OnePassPerProvider, Covers, CommittedHasProvider, NoFullPass
<1>7. ReadsAreNotOlder
  BY <1>4, <1>5 DEF ReadsAreNotOlder, Covers, NoReads, Unread
<1>8. QED
  BY <1>2, <1>5, <1>6, <1>7 DEF ShownInv, PassInv, ShownOrPending

\* However refreshes and credential operations overlap, fail or are aborted, a
\* provider's snapshot never goes back to a credential older than the one it shows
\* (availabilityRefreshSeq and providerAvailabilitySeq of model-runtime.ts).
THEOREM NeverOlder == Spec => [][NeverOlderStep]_vars
<1>1. Init => PassInv
  BY InitShown DEF ShownInv
<1>2. QED
  BY <1>1, PassStep, PTL DEF Spec

\* When refreshes name their provider and nothing fails, the snapshot shows every
\* provider's credential as soon as nothing is under way (synchronizeCredentialState,
\* refreshProviderAvailability).
THEOREM ShownIsCurrent ==
  ASSUME "full" \notin Kinds, ~MayFail PROVE Spec => []SnapshotIsCurrent
<1>1. ShownInv => SnapshotIsCurrent
  <2> SUFFICES ASSUME ShownInv, AtRest PROVE snapshot = cred
    BY DEF SnapshotIsCurrent
  <2>1. \A p \in Providers : snapshot[p] = cred[p]
    BY DEF ShownInv, ShownOrPending, WillShow, Covers, AtRest
  <2>2. QED
    BY <2>1 DEF ShownInv, PassInv, TypeOK
<1>2. ShownInv /\ [Next]_vars => ShownInv'
  BY ShownStep
<1>3. QED
  BY <1>1, <1>2, InitShown, PTL DEF Spec
=============================================================================
