---------------------------- MODULE HarnessProofs ---------------------------
(***************************************************************************)
(* Proofs, for every value of the constants, that the projection of a lane *)
(* agrees with its storage (Coherent), that a pass owns its operation      *)
(* (PassOwnsOperation), and that the harness implements OperationLifecycle. *)
(*                                                                         *)
(* None of the three is inductive alone.  Which operation a settlement      *)
(* writes to is read from the projection (mem.op.id), so the refinement     *)
(* needs Coherent; that there is an operation to settle at all needs        *)
(* PassOwnsOperation; and Coherent needs the shape of the records and that *)
(* the current operation has a state.  IndInv is their conjunction.        *)
(*                                                                         *)
(* Layout: commands that settle, the pass, quiet steps, one lemma per       *)
(* command, host commands, process loss, tool batches, the theorems; then,  *)
(* on top of them, the gate and the cancellation.                           *)
(***************************************************************************)
EXTENDS Harness, TLAPS, SequenceTheorems

\* The records of a store, and what they say of results.
IsStore(s) ==
  /\ s = [log |-> s.log, tip |-> s.tip, cfg |-> s.cfg, lane |-> s.lane, opMeta |-> s.opMeta,
          opState |-> s.opState, results |-> s.results, usage |-> s.usage, vals |-> s.vals]
  /\ s.lane = [cur |-> s.lane.cur, last |-> s.lane.last, inbox |-> s.lane.inbox]
  /\ s.lane.cur \in OpIds \cup {Null}
  /\ s.opMeta = [op \in OpIds |-> s.opMeta[op]]
  /\ s.opState = [op \in OpIds |-> s.opState[op]]
  /\ s.results = [op \in OpIds |-> s.results[op]]
  /\ \A op \in OpIds : s.results[op].status \in {"none", "completed", "failed", "aborted"}

\* The shape of an operation state and of a pass.
IsState(st) == st = [ctl |-> st.ctl, settings |-> st.settings, latest |-> st.latest, leaf |-> st.leaf]

IsDrive(d) ==
  d = [id |-> d.id, resumed |-> d.resumed, waitForRetry |-> d.waitForRetry, permits |-> d.permits,
       gate |-> d.gate, released |-> d.released, seen |-> d.seen, pc |-> d.pc, arg |-> d.arg]

DriveShape == IsDrive(drive) /\ (drive.id = Null => drive.pc = "none")

\* The current operation has a state and no result yet.
CurrentIsOpen ==
  store.lane.cur # Null =>
    IsState(store.opState[store.lane.cur]) /\ store.results[store.lane.cur] = NoResult

\* What the projection and the operations need of the store.
StoreInv == IsStore(store) /\ Coherent /\ CurrentIsOpen

\* The inductive invariant.
IndInv == StoreInv /\ DriveShape /\ PassOwnsOperation

\* The phase every operation shows to OperationLifecycle.
PhaseMap == [op \in OpIds |-> PhaseOf(store, op)]

-----------------------------------------------------------------------------

\* A lane created empty satisfies the invariant.
THEOREM InitIndInv == Init => IndInv
<1> SUFFICES ASSUME Init PROVE IndInv
  OBVIOUS
<1> USE DEF Init, LaneInit, ToolInit, durableLaneState, NoDrive
<1>1. IsStore(store)
  BY DEF IsStore, NoResult
<1>2. Coherent
  BY DEF Coherent
<1>3. CurrentIsOpen
  BY DEF CurrentIsOpen
<1>4. DriveShape /\ PassOwnsOperation
  BY DEF DriveShape, IsDrive, PassOwnsOperation
<1>5. QED
  BY <1>1, <1>2, <1>3, <1>4 DEF IndInv, StoreInv

\* A step that leaves storage alone keeps its invariant; the projection stays or is lost
\* with the process.
LEMMA KeepStore ==
  ASSUME StoreInv, store' = store, mem' = mem \/ mem' = Null
  PROVE  StoreInv' /\ PhaseMap' = PhaseMap /\ store'.lane.cur = store.lane.cur
  BY DEF StoreInv, IsStore, Coherent, CurrentIsOpen, IsState, PhaseMap, PhaseOf, restoreLaneState

\* `s' differs from the store in nothing that belongs to the lane's operations.
Frame(s) ==
  /\ IsStore(s)
  /\ s.lane = store.lane /\ s.opState = store.opState /\ s.opMeta = store.opMeta /\ s.results = store.results

\* `m' is the projection of `s' with the inbox of a lane patch.
Patched(m, s, inbox) ==
  m = [tip |-> s.tip, cfg |-> s.cfg, inbox |-> inbox, last |-> mem.last, op |-> mem.op]

\* settleOperation, commit branch: a state of the same control, written to storage and
\* to the projection, leaves both in agreement and every operation in its phase.
LEMMA SettleCommitStep ==
  ASSUME StoreInv, mem # Null, store.lane.cur # Null,
         NEW s, NEW m, NEW inbox, NEW st, NEW patches \in BOOLEAN,
         Frame(s), Patched(m, s, inbox), patches \/ inbox = mem.inbox,
         IsState(st), st.ctl = mem.op.st.ctl,
         SettleCommit(s, m, st, patches)
  PROVE  StoreInv' /\ PhaseMap' = PhaseMap /\ store'.lane.cur = store.lane.cur
<1> DEFINE cur == store.lane.cur
<1>1. /\ mem = [tip |-> store.tip, cfg |-> store.cfg, inbox |-> store.lane.inbox, last |-> store.lane.last,
                op |-> [id |-> cur, meta |-> store.opMeta[cur], st |-> store.opState[cur]]]
      /\ cur \in OpIds
  BY DEF StoreInv, Coherent, restoreLaneState, IsStore
<1>2. /\ store' = [log |-> s.log, tip |-> s.tip, cfg |-> s.cfg,
                   lane |-> [cur |-> cur, last |-> store.lane.last, inbox |-> inbox],
                   opMeta |-> store.opMeta, opState |-> [store.opState EXCEPT ![cur] = st],
                   results |-> store.results, usage |-> s.usage, vals |-> s.vals]
  BY <1>1 DEF SettleCommit, Frame, Patched, IsStore, durableLaneState
<1>3. /\ mem' = [tip |-> s.tip, cfg |-> s.cfg, inbox |-> inbox, last |-> mem.last,
                 op |-> [id |-> cur, meta |-> store.opMeta[cur], st |-> st]]
  BY <1>1 DEF SettleCommit, Patched
<1>4. IsStore(store')
  BY <1>1, <1>2 DEF IsStore, StoreInv
<1>5. Coherent'
  BY <1>1, <1>2, <1>3 DEF Coherent, restoreLaneState, StoreInv, IsStore
<1>6. CurrentIsOpen'
  BY <1>1, <1>2 DEF CurrentIsOpen, StoreInv, IsStore
<1>7. PhaseMap' = PhaseMap
  BY <1>1, <1>2 DEF PhaseMap, PhaseOf, StoreInv, IsStore
<1>8. QED
  BY <1>2, <1>4, <1>5, <1>6, <1>7 DEF StoreInv

\* settleOperation, finish branch: the current operation gets its result and the lane is
\* released; no other operation changes phase.
LEMMA SettleFinishStep ==
  ASSUME StoreInv, mem # Null, store.lane.cur # Null,
         NEW s, NEW m, NEW inbox, NEW record,
         IsStore(s), s.results = store.results, Patched(m, s, inbox),
         record.status \in {"completed", "failed", "aborted"},
         SettleFinish(s, m, record)
  PROVE  /\ StoreInv' /\ store'.lane.cur = Null
         /\ PhaseMap' = [PhaseMap EXCEPT ![store.lane.cur] = record.status]
<1> DEFINE cur == store.lane.cur
<1>1. /\ mem = [tip |-> store.tip, cfg |-> store.cfg, inbox |-> store.lane.inbox, last |-> store.lane.last,
                op |-> [id |-> cur, meta |-> store.opMeta[cur], st |-> store.opState[cur]]]
      /\ cur \in OpIds
  BY DEF StoreInv, Coherent, restoreLaneState, IsStore
<1>2. store' = [log |-> s.log, tip |-> s.tip, cfg |-> s.cfg,
                lane |-> [cur |-> Null, last |-> cur, inbox |-> inbox],
                opMeta |-> s.opMeta, opState |-> s.opState,
                results |-> [store.results EXCEPT ![cur] = record], usage |-> s.usage, vals |-> s.vals]
  BY <1>1 DEF SettleFinish, Patched, IsStore, durableLaneState
<1>3. mem' = [tip |-> s.tip, cfg |-> s.cfg, inbox |-> inbox, last |-> cur, op |-> NoOperation]
  <2>1. mem.op.id = cur
    BY <1>1
  <2>2. mem' = [m EXCEPT !.last = cur, !.op = NoOperation]
    BY <2>1 DEF SettleFinish
  <2>3. QED
    BY <2>2 DEF Patched
<1>4. IsStore(store')
  BY <1>1, <1>2 DEF IsStore, StoreInv
<1>5. Coherent'
  BY <1>2, <1>3 DEF Coherent, restoreLaneState
<1>6. CurrentIsOpen'
  BY <1>2 DEF CurrentIsOpen
<1>7. PhaseMap' = [PhaseMap EXCEPT ![cur] = record.status]
  <2>1. \A op \in OpIds : PhaseOf(store', op) = IF op = cur THEN record.status ELSE PhaseOf(store, op)
    BY <1>1, <1>2, NullAssumption DEF PhaseOf, NoResult, StoreInv, IsStore
  <2>2. QED
    BY <2>1, <1>1 DEF PhaseMap
<1>8. QED
  BY <1>2, <1>4, <1>5, <1>6, <1>7 DEF StoreInv

-----------------------------------------------------------------------------
(* The drive pass and its tasks.                                           *)

JoinPcs == {"sequential.join", "parallel"}

\* A step outside the pass that keeps the current operation keeps the pass's claim on it.
LEMMA KeepPass ==
  ASSUME DriveShape, PassOwnsOperation, drive' = drive, jobs' = jobs, store'.lane.cur = store.lane.cur
  PROVE  DriveShape' /\ PassOwnsOperation'
  BY DEF DriveShape, IsDrive, PassOwnsOperation

\* A step of the pass itself, outside the joins.
Moved ==
  /\ drive.id # Null /\ drive.pc \notin JoinPcs /\ drive.id \in OpIds
  /\ IsDrive(drive') /\ drive'.id = drive.id

\* A step of the pass that keeps its operation current, or ends the pass, keeps the claim.
LEMMA MovePass ==
  ASSUME DriveShape, PassOwnsOperation, Moved, jobs' = jobs,
         drive'.pc = "done" \/ store'.lane.cur = drive.id
  PROVE  DriveShape' /\ PassOwnsOperation'
  BY NullAssumption DEF DriveShape, PassOwnsOperation, Moved, JoinPcs

\* The pass moves while storage and projection stay as they are.
QuietMove ==
  /\ store' = store /\ mem' = mem
  /\ drive' = drive \/ (Moved /\ store.lane.cur = drive.id)

\* A pass that moves without writing keeps the invariant and every phase.
LEMMA QuietMoveStep ==
  ASSUME IndInv, QuietMove, jobs' = jobs
  PROVE  IndInv' /\ PhaseMap' = PhaseMap
<1>1. StoreInv' /\ PhaseMap' = PhaseMap /\ store'.lane.cur = store.lane.cur
  BY KeepStore DEF IndInv, QuietMove
<1>2. DriveShape' /\ PassOwnsOperation'
  <2>1. CASE drive' = drive
    BY <1>1, <2>1, KeepPass DEF IndInv
  <2>2. CASE Moved /\ store.lane.cur = drive.id
    BY <1>1, <2>2, MovePass DEF IndInv
  <2>3. QED
    BY <2>1, <2>2 DEF QuietMove
<1>3. QED
  BY <1>1, <1>2 DEF IndInv

-----------------------------------------------------------------------------
(* The steps of the pass that write nothing.                               *)

\* A planner that threw wrote nothing (Lane.onFault only closes the harness).
LEMMA FaultedStep == Faulted => QuietMove
  BY DEF Faulted, QuietMove

\* What holds whenever the pass is at one of its awaits.
LEMMA PassFacts ==
  ASSUME IndInv, Driving, drive.pc \notin {"none", "begin", "done"}
  PROVE  /\ mem # Null /\ drive.id # Null /\ drive.id \in OpIds /\ IsDrive(drive)
         /\ store.lane.cur = drive.id /\ store.lane.cur # Null
  BY NullAssumption DEF IndInv, DriveShape, PassOwnsOperation, Driving, Open

\* Moving to the next await changes neither the pass's operation nor its shape.
LEMMA GotoStep ==
  ASSUME IsDrive(drive), NEW pc, NEW arg, Goto(pc, arg)
  PROVE  IsDrive(drive') /\ drive'.id = drive.id /\ drive'.pc = pc
  BY DEF Goto, IsDrive

\* A read followed by an admitted hook writes nothing.
LEMMA ReadThenHookStep ==
  ASSUME IndInv, NEW from, from \notin {"none", "begin", "done"} \cup JoinPcs, NEW broken, NEW hook,
         ReadThenHook(from, broken, hook)
  PROVE  QuietMove
<1>1. Driving /\ drive.pc = from
  BY DEF ReadThenHook, MainTurn, At
<1>2. drive.id # Null /\ drive.id \in OpIds /\ IsDrive(drive) /\ store.lane.cur = drive.id
  BY <1>1, PassFacts
<1>3. CASE Faulted
  BY <1>3, FaultedStep
<1>4. CASE ~Faulted
  <2>1. store' = store /\ mem' = mem
    BY <1>4 DEF ReadThenHook
  <2>2. \E pc, arg : Goto(pc, arg)
    BY <1>4 DEF ReadThenHook
  <2>3. IsDrive(drive') /\ drive'.id = drive.id
    BY <1>2, <2>2, GotoStep
  <2>4. QED
    BY <1>1, <1>2, <2>1, <2>3 DEF QuietMove, Moved
<1>5. QED
  BY <1>3, <1>4

\* A hook that settles writes nothing; its command joins the line.
LEMMA HookReturnsStep ==
  ASSUME IndInv, NEW from, from \notin {"none", "begin", "done"} \cup JoinPcs, NEW next, NEW results, HookReturns(from, next, results)
  PROVE  QuietMove
<1>1. Driving /\ drive.pc = from
  BY DEF HookReturns, MainTurn, At
<1>2. drive.id # Null /\ drive.id \in OpIds /\ IsDrive(drive) /\ store.lane.cur = drive.id
  BY <1>1, PassFacts
<1>3. store' = store /\ mem' = mem
  BY DEF HookReturns
<1>4. \E pc, arg : Goto(pc, arg)
  BY DEF HookReturns, Queue
<1>5. IsDrive(drive') /\ drive'.id = drive.id
  BY <1>2, <1>4, GotoStep
<1>6. QED
  BY <1>1, <1>2, <1>3, <1>5 DEF QuietMove, Moved

\* continueOperation writes nothing when it answers cancel_requested.
LEMMA CancelledTurnStep ==
  ASSUME IndInv, NEW from, from \notin {"none", "begin", "done"} \cup JoinPcs, CancelledTurn(from)
  PROVE  QuietMove
<1>1. Driving /\ drive.pc = from
  BY DEF CancelledTurn, MainTurn, At
<1>2. drive.id # Null /\ drive.id \in OpIds /\ IsDrive(drive) /\ store.lane.cur = drive.id
  BY <1>1, PassFacts
<1>3. store' = store /\ mem' = mem
  BY DEF CancelledTurn
<1>4. \E pc, arg : Goto(pc, arg)
  BY DEF CancelledTurn, Queue
<1>5. IsDrive(drive') /\ drive'.id = drive.id
  BY <1>2, <1>4, GotoStep
<1>6. QED
  BY <1>1, <1>2, <1>3, <1>5 DEF QuietMove, Moved

QuietRunStep ==
  \/ awaitCancellation \/ beginDrive \/ beforeDriveReturns \/ Dispatch \/ runRetryWait \/ retryTimer
  \/ startRead \/ beforeRunReturns \/ finishRead \/ beforeRunEndReturns
  \/ requestRead \/ beforeRequestReturns \/ admitTransform \/ admitRequest
  \/ providerReplies \/ afterResponseReturns \/ droppedResponse
  \/ recoverAssistantGeneration \/ recoverCancelledAssistantEffect
  \/ prepareDeferredPoll \/ beforePollReturns \/ admitPoll
  \/ readDeferredHandle \/ cancelDeferredBestEffort

\* Dispatch, hooks, admissions, timers, replies and recovery reads of a pass write nothing.
LEMMA QuietRun ==
  ASSUME IndInv, QuietRunStep
  PROVE  QuietMove
<1>1. CASE beginDrive
  <2>1. CASE ~Busy \/ mem.op.id # drive.id
    BY <1>1, <2>1, FaultedStep DEF beginDrive
  <2>2. CASE Busy /\ mem.op.id = drive.id
    <3>1. drive.id # Null /\ mem # Null /\ drive.pc = "begin"
      BY <1>1 DEF beginDrive, At, Driving, Open
    <3>2. IsDrive(drive) /\ drive.id \in OpIds
      BY <3>1 DEF IndInv, DriveShape, PassOwnsOperation
    <3>3. store.lane.cur = drive.id
      BY <2>2, <3>1 DEF IndInv, StoreInv, Coherent, restoreLaneState, NoOperation, Busy
    <3>4. \E pc, arg : Goto(pc, arg)
      BY <1>1, <2>2 DEF beginDrive
    <3>5. IsDrive(drive') /\ drive'.id = drive.id
      BY <3>2, <3>4, GotoStep
    <3>6. QED
      BY <1>1, <2>2, <3>1, <3>2, <3>3, <3>5 DEF beginDrive, QuietMove, Moved, JoinPcs
  <2>3. QED
    BY <2>1, <2>2
<1>2. CASE startRead \/ finishRead \/ requestRead
  BY <1>2, ReadThenHookStep DEF startRead, finishRead, requestRead, JoinPcs
<1>3. CASE beforeRunReturns \/ beforeRunEndReturns \/ beforeRequestReturns \/ afterResponseReturns \/ beforePollReturns
  BY <1>3, HookReturnsStep
  DEF beforeRunReturns, beforeRunEndReturns, beforeRequestReturns, afterResponseReturns, beforePollReturns, JoinPcs
<1>4. CASE awaitCancellation \/ beforeDriveReturns \/ retryTimer \/ admitTransform \/ admitRequest \/ providerReplies
           \/ droppedResponse \/ admitPoll \/ cancelDeferredBestEffort
  <2>1. Driving /\ drive.pc \notin {"none", "begin", "done"} \cup JoinPcs
    BY <1>4 DEF awaitCancellation, beforeDriveReturns, retryTimer, admitTransform, admitRequest, providerReplies,
                droppedResponse, admitPoll, cancelDeferredBestEffort, At, JoinPcs
  <2>2. /\ drive.id # Null /\ drive.id \in OpIds /\ IsDrive(drive) /\ store.lane.cur = drive.id
    BY <2>1, PassFacts
  <2>3. Faulted \/ (store' = store /\ mem' = mem /\ \E pc, arg : Goto(pc, arg))
    BY <1>4 DEF awaitCancellation, beforeDriveReturns, retryTimer, admitTransform, admitRequest, providerReplies,
                droppedResponse, admitPoll, cancelDeferredBestEffort, Queue
  <2>4. QED
    BY <2>1, <2>2, <2>3, GotoStep, FaultedStep DEF QuietMove, Moved
<1>5. CASE Dispatch \/ runRetryWait \/ recoverAssistantGeneration \/ recoverCancelledAssistantEffect
           \/ prepareDeferredPoll \/ readDeferredHandle
  <2>1. Driving /\ drive.pc \notin {"none", "begin", "done"} \cup JoinPcs
    BY <1>5 DEF Dispatch, runRetryWait, recoverAssistantGeneration, recoverCancelledAssistantEffect,
                prepareDeferredPoll, readDeferredHandle, CancelledTurn, MainTurn, At, JoinPcs
  <2>2. /\ drive.id # Null /\ drive.id \in OpIds /\ IsDrive(drive) /\ store.lane.cur = drive.id
    BY <2>1, PassFacts
  <2>3. CASE Dispatch
    <3>1. CASE Faulted
      BY <3>1, FaultedStep
    <3>2. CASE ~Faulted
      <4>1. store' = store /\ mem' = mem
        BY <2>3, <3>2 DEF Dispatch
      <4>2. IsDrive(drive') /\ drive'.id = drive.id
        BY <2>2, <2>3, <3>2 DEF Dispatch, IsDrive
      <4>3. QED
        BY <2>1, <2>2, <4>1, <4>2 DEF QuietMove, Moved
    <3>3. QED
      BY <3>1, <3>2
  <2>4. CASE runRetryWait
    <3>1. store' = store /\ mem' = mem
      BY <2>4 DEF runRetryWait
    <3>2. IsDrive(drive') /\ drive'.id = drive.id
      BY <2>2, <2>4, GotoStep DEF runRetryWait, IsDrive
    <3>3. QED
      BY <2>1, <2>2, <3>1, <3>2 DEF QuietMove, Moved
  <2>5. CASE recoverAssistantGeneration \/ recoverCancelledAssistantEffect
    <3>1. store' = store /\ mem' = mem
      BY <2>5 DEF recoverAssistantGeneration, recoverCancelledAssistantEffect, CancelledTurn
    <3>2. IsDrive(drive') /\ drive'.id = drive.id
      BY <2>2, <2>5, GotoStep DEF recoverAssistantGeneration, recoverCancelledAssistantEffect, CancelledTurn, IsDrive
    <3>3. QED
      BY <2>1, <2>2, <3>1, <3>2 DEF QuietMove, Moved
  <2>6. CASE prepareDeferredPoll \/ readDeferredHandle
    <3>1. Faulted \/ (store' = store /\ mem' = mem /\ \E pc, arg : Goto(pc, arg))
      BY <2>6 DEF prepareDeferredPoll, readDeferredHandle, CancelledTurn
    <3>2. QED
      BY <2>1, <2>2, <3>1, GotoStep, FaultedStep DEF QuietMove, Moved
  <2>7. QED
    BY <1>5, <2>3, <2>4, <2>5, <2>6
<1>6. QED
  BY <1>1, <1>2, <1>3, <1>4, <1>5 DEF QuietRunStep

-----------------------------------------------------------------------------
(* Stores that commands build before they settle.                          *)

\* `t' has the same lane and operation records as `s', which is a store.
SameRecords(s, t) ==
  /\ IsStore(t)
  /\ t.lane = s.lane /\ t.opState = s.opState /\ t.opMeta = s.opMeta /\ t.results = s.results

\* Writes of auxiliary values touch no lane or operation record.
LEMMA ValsStore ==
  ASSUME NEW s, IsStore(s), NEW vals, NEW t, t = [s EXCEPT !.vals = vals]
  PROVE  SameRecords(s, t) /\ t.tip = s.tip /\ t.cfg = s.cfg
  BY DEF IsStore, SameRecords

\* A usage row touches no lane or operation record.
LEMMA UsageStore ==
  ASSUME NEW s, IsStore(s), NEW id
  PROVE  SameRecords(s, WithUsage(s, id)) /\ WithUsage(s, id).tip = s.tip /\ WithUsage(s, id).cfg = s.cfg
<1> DEFINE t == WithUsage(s, id)
<1>1. t = [s EXCEPT !.usage = Append(s.usage, id)]
  BY DEF WithUsage, IsStore
<1> HIDE DEF t
<1>2. SameRecords(s, t) /\ t.tip = s.tip /\ t.cfg = s.cfg
  BY <1>1 DEF IsStore, SameRecords
<1>3. QED
  BY <1>2 DEF t

\* Inserted entries move the tip and touch no lane or operation record.
LEMMA InsertStore ==
  ASSUME NEW s, IsStore(s), NEW items
  PROVE  /\ SameRecords(s, InsertEntries(s, items))
         /\ InsertEntries(s, items).tip = TipAfter(s.tip, items)
         /\ InsertEntries(s, items).cfg = s.cfg
<1> DEFINE t == InsertEntries(s, items)
<1>1. t = [s EXCEPT !.log = s.log \o ChainEntries(s.tip, items), !.tip = TipAfter(s.tip, items)]
  BY DEF InsertEntries, IsStore
<1> HIDE DEF t
<1>2. SameRecords(s, t) /\ t.tip = TipAfter(s.tip, items) /\ t.cfg = s.cfg
  BY <1>1 DEF IsStore, SameRecords
<1>3. QED
  BY <1>2 DEF t

\* operationCleanupWrites deletes the operation's records and keeps every result.
LEMMA CleanupStore ==
  ASSUME NEW s, IsStore(s)
  PROVE  LET t == operationCleanupWrites(s)
         IN  IsStore(t) /\ t.results = s.results /\ t.tip = s.tip /\ t.cfg = s.cfg
<1> DEFINE t == operationCleanupWrites(s)
           op == mem.op.id
           vals == s.vals \ (OwnedByPrefix(op) \cup FramesOf(op, Leaf) \cup StagedOutcomes(Leaf))
<1>1. t = [s EXCEPT !.opMeta = [s.opMeta EXCEPT ![op] = NoMeta], !.opState = [s.opState EXCEPT ![op] = NoState], !.vals = vals]
  BY DEF operationCleanupWrites, IsStore
<1> HIDE DEF t, vals, op
<1>2. IsStore(t) /\ t.results = s.results /\ t.tip = s.tip /\ t.cfg = s.cfg
  BY <1>1 DEF IsStore
<1>3. QED
  BY <1>2 DEF t

-----------------------------------------------------------------------------
(* Commands of the pass that settle: a new operation state, or the result.  *)

\* A new leaf keeps the control state of the operation.
LEMMA LeafState ==
  ASSUME StoreInv, mem # Null, store.lane.cur # Null, NEW leaf
  PROVE  IsState(WithLeaf(leaf)) /\ WithLeaf(leaf).ctl = mem.op.st.ctl
<1> DEFINE st == mem.op.st
           t  == WithLeaf(leaf)
<1>1. IsState(st)
  BY DEF StoreInv, Coherent, restoreLaneState, CurrentIsOpen
<1>2. t = [st EXCEPT !.leaf = leaf]
  BY DEF WithLeaf
<1> HIDE DEF st, t
<1>3. IsState(t) /\ t.ctl = st.ctl
  BY <1>1, <1>2 DEF IsState
<1>4. QED
  BY <1>3 DEF st, t

\* The projection, and the projection with a new tip, inbox or configuration.
LEMMA MemPatched ==
  ASSUME StoreInv, mem # Null, NEW s, s.tip = store.tip, s.cfg = store.cfg
  PROVE  Patched(mem, s, mem.inbox)
  BY DEF StoreInv, Coherent, restoreLaneState, Patched

\* The projection with the tip of the store a planner built.
LEMMA TipPatched ==
  ASSUME StoreInv, mem # Null, NEW s, NEW m, m = [mem EXCEPT !.tip = s.tip], s.cfg = store.cfg
  PROVE  Patched(m, s, mem.inbox)
  BY DEF StoreInv, Coherent, restoreLaneState, Patched

\* The projection with the tip and the inbox of a placement.
LEMMA InboxPatched ==
  ASSUME StoreInv, mem # Null, NEW s, NEW m, NEW inbox,
         m = [mem EXCEPT !.tip = s.tip, !.inbox = inbox], s.cfg = store.cfg
  PROVE  Patched(m, s, inbox)
<1>1. mem = [tip |-> mem.tip, cfg |-> mem.cfg, inbox |-> mem.inbox, last |-> mem.last, op |-> mem.op] /\ mem.cfg = store.cfg
  BY DEF StoreInv, Coherent, restoreLaneState
<1>2. QED
  BY <1>1 DEF Patched

\* The projection with the tip and the configuration of a tool placement.
LEMMA ConfigPatched ==
  ASSUME StoreInv, mem # Null, NEW s, NEW m, m = [mem EXCEPT !.tip = s.tip, !.cfg = s.cfg]
  PROVE  Patched(m, s, mem.inbox)
<1>1. mem = [tip |-> mem.tip, cfg |-> mem.cfg, inbox |-> mem.inbox, last |-> mem.last, op |-> mem.op]
  BY DEF StoreInv, Coherent, restoreLaneState
<1>2. QED
  BY <1>1 DEF Patched

\* The pass commits a new state of its operation and moves on.
LEMMA PassCommits ==
  ASSUME IndInv, mem # Null, store.lane.cur = drive.id, Moved, jobs' = jobs,
         NEW s, NEW m, NEW inbox, NEW st, NEW patches \in BOOLEAN,
         Frame(s), Patched(m, s, inbox), patches \/ inbox = mem.inbox,
         IsState(st), st.ctl = mem.op.st.ctl,
         SettleCommit(s, m, st, patches)
  PROVE  IndInv' /\ PhaseMap' = PhaseMap
<1>1. store.lane.cur # Null
  BY NullAssumption DEF Moved
<1>2. StoreInv' /\ PhaseMap' = PhaseMap /\ store'.lane.cur = store.lane.cur
  BY <1>1, SettleCommitStep DEF IndInv
<1>3. QED
  BY <1>2, MovePass DEF IndInv

\* The pass records the result of its operation and ends.
LEMMA PassFinishes ==
  ASSUME IndInv, mem # Null, store.lane.cur = drive.id, Moved, drive'.pc = "done", jobs' = jobs,
         NEW s, NEW m, NEW inbox, NEW record,
         IsStore(s), s.results = store.results, Patched(m, s, inbox),
         \/ Cancelled /\ record.status = "aborted"
         \/ ~Cancelled /\ record.status \in {"completed", "failed"},
         SettleFinish(s, m, record)
  PROVE  IndInv' /\ Lifecycle!Next
<1>1. store.lane.cur # Null /\ store.lane.cur \in OpIds
  BY NullAssumption DEF Moved
<1>2. /\ StoreInv' /\ store'.lane.cur = Null
      /\ PhaseMap' = [PhaseMap EXCEPT ![store.lane.cur] = record.status]
  BY <1>1, SettleFinishStep DEF IndInv
<1>3. DriveShape' /\ PassOwnsOperation'
  BY MovePass DEF IndInv
<1>4. PhaseMap[store.lane.cur] = IF Cancelled THEN "cancelling" ELSE "running"
  BY <1>1 DEF PhaseMap, PhaseOf, Cancelled, IndInv, StoreInv, Coherent, restoreLaneState
<1>5. Lifecycle!Settle(store.lane.cur)
  BY <1>2, <1>4 DEF Lifecycle!Settle, Lifecycle!Ended, PhaseMap
<1>6. QED
  BY <1>1, <1>2, <1>3, <1>5 DEF IndInv, Lifecycle!Next

\* When the pass's command runs, the pass owns the current operation (`state.operation!').
LEMMA TurnFacts ==
  ASSUME IndInv, NEW from, from \notin {"none", "begin", "done"} \cup JoinPcs, MainTurn(from)
  PROVE  /\ StoreInv /\ IsStore(store) /\ mem # Null /\ drive.id # Null /\ drive.id \in OpIds
         /\ store.lane.cur = drive.id /\ store.lane.cur # Null /\ IsDrive(drive) /\ drive.pc \notin JoinPcs
  BY PassFacts DEF MainTurn, At, IndInv, StoreInv

\* After its command the pass is at its next await.
LEMMA CommittedStep ==
  ASSUME IndInv, NEW from, from \notin {"none", "begin", "done"} \cup JoinPcs, MainTurn(from),
         NEW pc, NEW arg, NEW minted, Committed(pc, arg, minted)
  PROVE  Moved /\ drive'.pc = pc
  BY TurnFacts, GotoStep DEF Committed, Moved

\* A store with the records of the current one frames the operation.
LEMMA FrameOf ==
  ASSUME NEW s, SameRecords(store, s)
  PROVE  Frame(s)
  BY DEF SameRecords, Frame

\* What a planner that only changes the leaf commits.
LEMMA LeafCommits ==
  ASSUME IndInv, jobs' = jobs, NEW from, from \notin {"none", "begin", "done"} \cup JoinPcs, MainTurn(from),
         Moved, NEW leaf, SettleCommit(store, mem, WithLeaf(leaf), FALSE)
  PROVE  IndInv' /\ PhaseMap' = PhaseMap
<1>1. StoreInv /\ mem # Null /\ store.lane.cur = drive.id /\ store.lane.cur # Null
  BY TurnFacts
<1>2. Frame(store) /\ Patched(mem, store, mem.inbox)
  BY <1>1, MemPatched DEF Frame, StoreInv
<1>3. IsState(WithLeaf(leaf)) /\ WithLeaf(leaf).ctl = mem.op.st.ctl
  BY <1>1, LeafState
<1>4. QED
  BY <1>1, <1>2, <1>3, PassCommits

\* The end of a retry wait (retry.ts) keeps the invariant and every phase.
LEMMA retryCommitStep ==
  ASSUME IndInv, retryCommit, jobs' = jobs
  PROVE  IndInv' /\ PhaseMap' = PhaseMap
<1>1. CASE CancelledTurn("retry.commit")
  BY <1>1, CancelledTurnStep, QuietMoveStep DEF JoinPcs
<1>2. CASE ~CancelledTurn("retry.commit")
  <2>1. MainTurn("retry.commit") /\ Committed("loop", Null, 0)
    BY <1>2 DEF retryCommit
  <2>2. Moved
    BY <2>1, CommittedStep DEF JoinPcs
  <2>3. \E leaf : SettleCommit(store, mem, WithLeaf(leaf), FALSE)
    BY <1>2 DEF retryCommit
  <2>4. QED
    BY <2>1, <2>2, <2>3, LeafCommits DEF JoinPcs
<1>3. QED
  BY <1>1, <1>2

\* The durable intent of a request (generation.ts) keeps the invariant and every phase.
LEMMA publishGenerationIntentStep ==
  ASSUME IndInv, publishGenerationIntent, jobs' = jobs
  PROVE  IndInv' /\ PhaseMap' = PhaseMap
<1>1. CASE CancelledTurn("request.intent")
  BY <1>1, CancelledTurnStep, QuietMoveStep DEF JoinPcs
<1>2. CASE ~CancelledTurn("request.intent")
  <2>1. MainTurn("request.intent") /\ Committed("request.admit", Null, 1)
    BY <1>2 DEF publishGenerationIntent
  <2>2. Moved
    BY <2>1, CommittedStep DEF JoinPcs
  <2>3. \E leaf : SettleCommit(store, mem, WithLeaf(leaf), FALSE)
    BY <1>2 DEF publishGenerationIntent
  <2>4. QED
    BY <2>1, <2>2, <2>3, LeafCommits DEF JoinPcs
<1>3. QED
  BY <1>1, <1>2

\* Starting a run (checkpoint.ts startRun) keeps the invariant and every phase.
LEMMA startCommitStep ==
  ASSUME IndInv, startCommit, jobs' = jobs
  PROVE  IndInv' /\ PhaseMap' = PhaseMap
<1>1. CASE CancelledTurn("start.commit")
  BY <1>1, CancelledTurnStep, QuietMoveStep DEF JoinPcs
<1>2. CASE Faulted
  BY <1>2, FaultedStep, QuietMoveStep
<1>3. CASE ~CancelledTurn("start.commit") /\ ~Faulted
  <2> DEFINE items   == [i \in 1..drive.arg |-> <<Fresh(i), [type |-> "user"]>>]
             trigger == TipAfter(mem.tip, items)
             s       == InsertEntries(store, items)
             m       == [mem EXCEPT !.tip = trigger]
             leaf    == Checkpoint(NeedAssistant(FALSE), trigger)
  <2>1. MainTurn("start.commit") /\ Committed("loop", Null, drive.arg) /\ SettleCommit(s, m, WithLeaf(leaf), FALSE)
    BY <1>3 DEF startCommit
  <2>2. Moved
    BY <2>1, CommittedStep DEF JoinPcs
  <2>3. /\ StoreInv /\ IsStore(store) /\ mem # Null
        /\ store.lane.cur = drive.id /\ store.lane.cur # Null
    BY <2>1, TurnFacts DEF JoinPcs
  <2>4. mem.tip = store.tip
    BY <2>3 DEF StoreInv, Coherent, restoreLaneState
  <2>5. SameRecords(store, s) /\ s.tip = trigger /\ s.cfg = store.cfg
    BY <2>3, <2>4, InsertStore
  <2>6. IsState(WithLeaf(leaf)) /\ WithLeaf(leaf).ctl = mem.op.st.ctl
    BY <2>3, LeafState
  <2> HIDE DEF items, trigger, s, leaf
  <2>7. Frame(s) /\ Patched(m, s, mem.inbox)
    BY <2>3, <2>5, FrameOf, TipPatched
  <2> HIDE DEF m
  <2>8. QED
    BY <2>1, <2>2, <2>3, <2>6, <2>7, PassCommits
<1>4. QED
  BY <1>1, <1>2, <1>3

\* A boundary's placement changes the branch and the inbox, not the operation.
LEMMA Placed ==
  ASSUME StoreInv, mem # Null, NEW plan
  PROVE  /\ SameRecords(store, PlacedStore(plan)) /\ Patched(PlacedMem(plan), PlacedStore(plan), plan.inbox)
         /\ PlacedStore(plan).cfg = store.cfg
<1> DEFINE items == pendingEntryWrite(plan.items)
           u     == InsertEntries(store, items)
           s     == PlacedStore(plan)
           m     == PlacedMem(plan)
<1>1. SameRecords(store, u) /\ u.tip = TipAfter(store.tip, items) /\ u.cfg = store.cfg
  BY InsertStore DEF StoreInv
<1>2. s = [u EXCEPT !.vals = u.vals \ PendingOf(plan.items)]
  <2>1. IsStore(u)
    BY <1>1 DEF SameRecords
  <2>2. QED
    BY <2>1 DEF PlacedStore, IsStore
<1> HIDE DEF u, s
<1>3. SameRecords(u, s) /\ s.tip = u.tip /\ s.cfg = u.cfg
  BY <1>1, <1>2, ValsStore DEF SameRecords
<1>4. mem = [tip |-> mem.tip, cfg |-> mem.cfg, inbox |-> mem.inbox, last |-> mem.last, op |-> mem.op] /\ mem.tip = store.tip
  BY DEF StoreInv, Coherent, restoreLaneState
<1>5. m = [mem EXCEPT !.tip = TipAfter(mem.tip, items), !.inbox = plan.inbox]
  BY <1>4 DEF PlacedMem
<1> HIDE DEF m, items
<1>6. m = [mem EXCEPT !.tip = s.tip, !.inbox = plan.inbox]
  BY <1>1, <1>3, <1>4, <1>5
<1>7. Patched(m, s, plan.inbox)
  BY <1>1, <1>3, <1>6, InboxPatched
<1>8. SameRecords(store, s)
  BY <1>1, <1>3 DEF SameRecords
<1>9. QED
  BY <1>1, <1>3, <1>7, <1>8 DEF s, m

\* A checkpoint (checkpoint.ts runCheckpoint) keeps the invariant and every phase.
LEMMA runCheckpointStep ==
  ASSUME IndInv, runCheckpoint, jobs' = jobs
  PROVE  IndInv' /\ PhaseMap' = PhaseMap
<1>1. CASE CancelledTurn("checkpoint.commit")
  BY <1>1, CancelledTurnStep, QuietMoveStep DEF JoinPcs
<1>2. CASE Faulted
  BY <1>2, FaultedStep, QuietMoveStep
<1>3. CASE ~CancelledTurn("checkpoint.commit") /\ ~Faulted
  <2>1. MainTurn("checkpoint.commit")
    BY <1>3 DEF runCheckpoint
  <2>2. /\ StoreInv /\ mem # Null /\ drive.id # Null /\ drive.id \in OpIds /\ IsDrive(drive) /\ drive.pc \notin JoinPcs
        /\ store.lane.cur = drive.id /\ store.lane.cur # Null
    BY <2>1, TurnFacts DEF JoinPcs
  <2>3. \/ /\ Committed("loop", Null, 0)
           /\ \E plan, leaf : SettleCommit(PlacedStore(plan), PlacedMem(plan), WithLeaf(leaf), TRUE)
        \/ /\ store' = store /\ mem' = mem
           /\ \E arg : drive' = [drive EXCEPT !.pc = "finish.read", !.arg = arg]
    BY <1>3 DEF runCheckpoint
  <2>4. CASE Committed("loop", Null, 0) /\ \E plan, leaf : SettleCommit(PlacedStore(plan), PlacedMem(plan), WithLeaf(leaf), TRUE)
    <3>1. PICK plan, leaf : SettleCommit(PlacedStore(plan), PlacedMem(plan), WithLeaf(leaf), TRUE)
      BY <2>4
    <3>2. Moved
      BY <2>1, <2>4, CommittedStep DEF JoinPcs
    <3>3. Frame(PlacedStore(plan)) /\ Patched(PlacedMem(plan), PlacedStore(plan), plan.inbox)
      BY <2>2, Placed, FrameOf
    <3>4. IsState(WithLeaf(leaf)) /\ WithLeaf(leaf).ctl = mem.op.st.ctl
      BY <2>2, LeafState
    <3>5. QED
      BY <2>2, <3>1, <3>2, <3>3, <3>4, PassCommits
  <2>5. CASE store' = store /\ mem' = mem /\ \E arg : drive' = [drive EXCEPT !.pc = "finish.read", !.arg = arg]
    <3>1. IsDrive(drive') /\ drive'.id = drive.id
      BY <2>2, <2>5 DEF IsDrive
    <3>2. QED
      BY <2>2, <2>5, <3>1, QuietMoveStep DEF QuietMove, Moved
  <2>6. QED
    BY <2>3, <2>4, <2>5
<1>4. QED
  BY <1>1, <1>2, <1>3

\* The terminal transaction of a pass, on a store that keeps the results.
LEMMA CleanedFinishes ==
  ASSUME IndInv, jobs' = jobs, NEW from, from \notin {"none", "begin", "done"} \cup JoinPcs, MainTurn(from),
         Committed("done", "settled", 0),
         NEW s, NEW m, NEW inbox, NEW status, NEW tip,
         SameRecords(store, s), Patched(m, s, inbox),
         \/ Cancelled /\ status = "aborted"
         \/ ~Cancelled /\ status \in {"completed", "failed"},
         SettleFinish(operationCleanupWrites(s), m, operationResultRecord(status, tip))
  PROVE  IndInv' /\ Lifecycle!Next
<1> DEFINE t == operationCleanupWrites(s)
           record == operationResultRecord(status, tip)
<1>1. mem # Null /\ store.lane.cur = drive.id
  BY TurnFacts
<1>2. Moved /\ drive'.pc = "done"
  BY CommittedStep
<1>3. IsStore(t) /\ t.results = store.results /\ t.tip = s.tip /\ t.cfg = s.cfg
  BY CleanupStore DEF SameRecords
<1>4. Patched(m, t, inbox)
  BY <1>3 DEF Patched
<1>5. record.status = status
  BY DEF operationResultRecord
<1> HIDE DEF t, record
<1>6. SettleFinish(t, m, record)
  BY DEF t, record
<1>7. QED
  BY <1>1, <1>2, <1>3, <1>4, <1>5, <1>6, PassFinishes

\* A configuration failure (generation.ts) ends a running operation as failed.
LEMMA publishConfigurationFailureStep ==
  ASSUME IndInv, publishConfigurationFailure, jobs' = jobs
  PROVE  IndInv' /\ (PhaseMap' = PhaseMap \/ Lifecycle!Next)
<1>1. CASE CancelledTurn("fail.commit")
  BY <1>1, CancelledTurnStep, QuietMoveStep DEF JoinPcs
<1>2. CASE Faulted
  BY <1>2, FaultedStep, QuietMoveStep
<1>3. CASE ~CancelledTurn("fail.commit") /\ ~Faulted
  <2>1. /\ MainTurn("fail.commit") /\ ~Cancelled /\ Committed("done", "settled", 0)
        /\ SettleFinish(operationCleanupWrites(store), mem, operationResultRecord("failed", mem.tip))
    BY <1>3 DEF publishConfigurationFailure
  <2>2. StoreInv /\ mem # Null
    BY <2>1, TurnFacts DEF JoinPcs
  <2>3. SameRecords(store, store) /\ Patched(mem, store, mem.inbox)
    BY <2>2, MemPatched DEF SameRecords, StoreInv
  <2>4. QED
    BY <2>1, <2>3, CleanedFinishes DEF JoinPcs
<1>4. QED
  BY <1>1, <1>2, <1>3

\* Reconciliation (reconcile.ts) ends a cancelled operation as aborted.
LEMMA publishAbortedTerminalStep ==
  ASSUME IndInv, publishAbortedTerminal, jobs' = jobs
  PROVE  IndInv' /\ (PhaseMap' = PhaseMap \/ Lifecycle!Next)
<1>1. CASE Faulted
  BY <1>1, FaultedStep, QuietMoveStep
<1>2. CASE ~Faulted
  <2>1. /\ MainTurn("cancel.finish") /\ Cancelled /\ Committed("done", "settled", 0)
        /\ SettleFinish(operationCleanupWrites(store), mem, operationResultRecord("aborted", mem.tip))
    BY <1>2 DEF publishAbortedTerminal
  <2>2. StoreInv /\ mem # Null
    BY <2>1, TurnFacts DEF JoinPcs
  <2>3. SameRecords(store, store) /\ Patched(mem, store, mem.inbox)
    BY <2>2, MemPatched DEF SameRecords, StoreInv
  <2>4. QED
    BY <2>1, <2>3, CleanedFinishes DEF JoinPcs
<1>3. QED
  BY <1>1, <1>2

\* The finish boundary (boundary.ts finishRunBoundary) renews the run or completes it.
LEMMA finishRunBoundaryStep ==
  ASSUME IndInv, finishRunBoundary, jobs' = jobs
  PROVE  IndInv' /\ (PhaseMap' = PhaseMap \/ Lifecycle!Next)
<1>1. CASE CancelledTurn("finish.commit")
  BY <1>1, CancelledTurnStep, QuietMoveStep DEF JoinPcs
<1>2. CASE Faulted
  BY <1>2, FaultedStep, QuietMoveStep
<1>3. CASE ~CancelledTurn("finish.commit") /\ ~Faulted
  <2> DEFINE plan == planBoundaryInbox(TRUE)
             s    == PlacedStore(plan)
             m    == PlacedMem(plan)
             item == <<Fresh(1), [type |-> "user"]>>
             more == InsertEntries(s, <<item>>)
             tipped == [m EXCEPT !.tip = Fresh(1)]
             Renews == /\ Committed("loop", Null, 0)
                       /\ \E leaf : SettleCommit(s, m, WithLeaf(leaf), TRUE)
             Asks   == /\ Committed("loop", Null, 1)
                       /\ \E leaf : SettleCommit(more, tipped, WithLeaf(leaf), TRUE)
             Ends   == /\ SettleFinish(operationCleanupWrites(s), m, operationResultRecord("completed", m.tip))
                       /\ Committed("done", "settled", 0)
  <2>1. MainTurn("finish.commit") /\ ~Cancelled
    BY <1>3 DEF finishRunBoundary
  <2>2. StoreInv /\ mem # Null /\ store.lane.cur = drive.id /\ store.lane.cur # Null
    BY <2>1, TurnFacts DEF JoinPcs
  <2>3. SameRecords(store, s) /\ Patched(m, s, plan.inbox) /\ s.cfg = store.cfg
    BY <2>2, Placed
  <2>4. Renews \/ Asks \/ Ends
    BY <1>3 DEF finishRunBoundary
  <2>5. SameRecords(s, more) /\ more.tip = Fresh(1) /\ more.cfg = s.cfg
    <3>1. TipAfter(s.tip, <<item>>) = Fresh(1)
      BY DEF TipAfter, Last
    <3>2. QED
      BY <2>3, <3>1, InsertStore DEF SameRecords
  <2>6. Patched(tipped, more, plan.inbox)
    <3> HIDE DEF m, s, more, plan
    <3>1. QED
      BY <2>3, <2>5 DEF Patched
  <2> HIDE DEF plan, s, m, more, tipped
  <2>7. CASE Renews
    <3>1. PICK leaf : SettleCommit(s, m, WithLeaf(leaf), TRUE)
      BY <2>7
    <3>2. Moved
      BY <2>1, <2>7, CommittedStep DEF JoinPcs
    <3>3. IsState(WithLeaf(leaf)) /\ WithLeaf(leaf).ctl = mem.op.st.ctl
      BY <2>2, LeafState
    <3>4. QED
      BY <2>2, <2>3, <3>1, <3>2, <3>3, FrameOf, PassCommits
  <2>8. CASE Asks
    <3>1. PICK leaf : SettleCommit(more, tipped, WithLeaf(leaf), TRUE)
      BY <2>8
    <3>2. Moved
      BY <2>1, <2>8, CommittedStep DEF JoinPcs
    <3>3. IsState(WithLeaf(leaf)) /\ WithLeaf(leaf).ctl = mem.op.st.ctl
      BY <2>2, LeafState
    <3>4. Frame(more)
      BY <2>3, <2>5 DEF SameRecords, Frame
    <3>5. QED
      BY <2>2, <2>6, <3>1, <3>2, <3>3, <3>4, PassCommits
  <2>9. CASE Ends
    BY <2>1, <2>3, <2>9, CleanedFinishes DEF JoinPcs
  <2>10. QED
    BY <2>4, <2>7, <2>8, <2>9
<1>4. QED
  BY <1>1, <1>2, <1>3

\* A cancelled operation never fails: its answer only ends the request.
LEMMA CancelledNeverFails ==
  ASSUME NEW r, NEW recovery, Cancelled
  PROVE  Disposition(r, recovery).leaf # FailedRun
  BY DEF Disposition, Checkpoint, FailedRun

\* Publishing a response (response.ts) moves the run on, or fails it if it is not cancelled.
LEMMA publishResponseStep ==
  ASSUME IndInv, publishResponse, jobs' = jobs
  PROVE  IndInv' /\ (PhaseMap' = PhaseMap \/ Lifecycle!Next)
<1>1. CASE Faulted
  BY <1>1, FaultedStep, QuietMoveStep
<1>2. CASE ~Faulted
  <2> DEFINE r    == drive.arg.reply
             d    == Disposition(r, drive.arg.recovery)
             rid  == Leaf.response
             body == [type |-> "assistant", stop |-> d.stop, calls |-> r.calls]
             u    == InsertEntries(store, << <<rid, body>> >>)
             s    == WithUsage(u, rid)
             m    == [mem EXCEPT !.tip = rid]
             kept == [s EXCEPT !.vals = s.vals \ FramesOf(mem.op.id, Leaf)]
             st   == [mem.op.st EXCEPT !.latest = rid, !.leaf = d.leaf]
             Fails == /\ d.leaf = FailedRun
                      /\ SettleFinish(operationCleanupWrites(s), m, operationResultRecord("failed", rid))
                      /\ Committed("done", "settled", 0)
             Goes  == SettleCommit(kept, m, st, FALSE) /\ \E minted : Committed("loop", Null, minted)
  <2>1. MainTurn("publish")
    BY <1>2 DEF publishResponse
  <2>2. StoreInv /\ IsStore(store) /\ mem # Null /\ store.lane.cur = drive.id /\ store.lane.cur # Null
    BY <2>1, TurnFacts DEF JoinPcs
  <2>3. SameRecords(store, u) /\ u.tip = rid /\ u.cfg = store.cfg
    <3>1. TipAfter(store.tip, << <<rid, body>> >>) = rid
      BY DEF TipAfter, Last
    <3>2. QED
      BY <2>2, <3>1, InsertStore
  <2>4. SameRecords(u, s) /\ s.tip = rid /\ s.cfg = store.cfg
    BY <2>3, UsageStore DEF SameRecords
  <2>5. SameRecords(s, kept) /\ kept.tip = rid /\ kept.cfg = store.cfg
    <3> HIDE DEF s
    <3> DEFINE vals == s.vals \ FramesOf(mem.op.id, Leaf)
    <3> HIDE DEF vals
    <3>1. kept = [s EXCEPT !.vals = vals]
      BY DEF vals
    <3> HIDE DEF kept
    <3>2. QED
      BY <2>4, <3>1, ValsStore DEF SameRecords
  <2>6. SameRecords(store, s) /\ SameRecords(store, kept)
    BY <2>3, <2>4, <2>5 DEF SameRecords
  <2>7. Patched(m, s, mem.inbox) /\ Patched(m, kept, mem.inbox)
    <3> HIDE DEF s, kept, rid
    <3>1. QED
      BY <2>2, <2>4, <2>5, TipPatched
  <2>8. IsState(st) /\ st.ctl = mem.op.st.ctl
    <3>1. IsState(mem.op.st)
      BY <2>2 DEF StoreInv, Coherent, restoreLaneState, CurrentIsOpen
    <3> DEFINE old == mem.op.st
    <3> HIDE DEF old, rid, d
    <3>2. st = [old EXCEPT !.latest = rid, !.leaf = d.leaf] /\ IsState(old)
      BY <3>1 DEF old
    <3> HIDE DEF st
    <3>3. IsState(st) /\ st.ctl = old.ctl
      BY <3>2 DEF IsState
    <3>4. QED
      BY <3>3 DEF old
  <2>9. Fails \/ Goes
    <3>1. s = [s EXCEPT !.vals = s.vals] /\ DOMAIN s = DOMAIN store
      BY <2>6, <2>2 DEF SameRecords, IsStore
    <3>2. QED
      BY <1>2, <3>1 DEF publishResponse
  <2>10. CASE Fails
    <3>1. ~Cancelled
      BY <2>10, CancelledNeverFails
    <3> HIDE DEF s, m
    <3>2. QED
      BY <2>1, <2>6, <2>7, <2>10, <3>1, CleanedFinishes DEF JoinPcs
  <2>11. CASE Goes
    <3> HIDE DEF s, m, kept, st
    <3>1. Moved
      BY <2>1, <2>11, CommittedStep DEF JoinPcs
    <3>2. QED
      BY <2>2, <2>6, <2>7, <2>8, <2>11, <3>1, FrameOf, PassCommits
  <2>12. QED
    BY <2>9, <2>10, <2>11
<1>3. QED
  BY <1>1, <1>2

\* A command that writes auxiliary values and a new leaf.
LEMMA ValsLeaf ==
  ASSUME StoreInv, mem # Null, store.lane.cur # Null, NEW vals, NEW leaf,
         NEW s, s = [store EXCEPT !.vals = vals]
  PROVE  /\ Frame(s) /\ Patched(mem, s, mem.inbox)
         /\ IsState(WithLeaf(leaf)) /\ WithLeaf(leaf).ctl = mem.op.st.ctl
<1>1. SameRecords(store, s) /\ s.tip = store.tip /\ s.cfg = store.cfg
  BY ValsStore DEF StoreInv
<1>2. QED
  BY <1>1, FrameOf, MemPatched, LeafState

\* The durable intent of a poll (deferred.ts) keeps the invariant and every phase.
LEMMA publishPollIntentStep ==
  ASSUME IndInv, publishPollIntent, jobs' = jobs
  PROVE  IndInv' /\ PhaseMap' = PhaseMap
<1>1. CASE CancelledTurn("poll.intent")
  BY <1>1, CancelledTurnStep, QuietMoveStep DEF JoinPcs
<1>2. CASE ~CancelledTurn("poll.intent")
  <2> DEFINE vals == store.vals \ FramesOf(mem.op.id, Leaf)
             leaf == [at |-> "deferred.effect_pending", source |-> Leaf.source,
                      poll |-> IF Leaf.at = "deferred.suspended" THEN Leaf.poll + 1 ELSE Leaf.poll,
                      cfg |-> Leaf.cfg, response |-> Fresh(1)]
             s    == [store EXCEPT !.vals = vals]
  <2>1. MainTurn("poll.intent") /\ drive' = [drive EXCEPT !.pc = "poll.admit", !.permits = @ - 1]
    BY <1>2 DEF publishPollIntent
  <2>2. /\ StoreInv /\ IsStore(store) /\ mem # Null /\ drive.id # Null /\ drive.id \in OpIds
        /\ store.lane.cur = drive.id /\ store.lane.cur # Null /\ IsDrive(drive) /\ drive.pc \notin JoinPcs
    BY <2>1, TurnFacts DEF JoinPcs
  <2>3. SettleCommit(s, mem, WithLeaf(leaf), FALSE)
    BY <1>2, <2>2 DEF publishPollIntent, IsStore
  <2>4. Moved
    BY <2>1, <2>2 DEF Moved, IsDrive
  <2> HIDE DEF vals, leaf
  <2>5. s = [store EXCEPT !.vals = vals]
    OBVIOUS
  <2> HIDE DEF s
  <2>6. /\ Frame(s) /\ Patched(mem, s, mem.inbox)
        /\ IsState(WithLeaf(leaf)) /\ WithLeaf(leaf).ctl = mem.op.st.ctl
    BY <2>2, <2>5, ValsLeaf
  <2>7. QED
    BY <2>2, <2>3, <2>4, <2>6, PassCommits
<1>3. QED
  BY <1>1, <1>2

\* Clearing activeDrive (lane.ts drive) leaves no task behind.
LEMMA completeDriveStep ==
  ASSUME IndInv, completeDrive, jobs' = jobs
  PROVE  IndInv' /\ PhaseMap' = PhaseMap
<1>1. StoreInv' /\ PhaseMap' = PhaseMap
  BY KeepStore DEF IndInv, completeDrive
<1>2. DriveShape' /\ PassOwnsOperation'
  BY DEF IndInv, DriveShape, IsDrive, NoDrive, PassOwnsOperation, completeDrive, At
<1>3. QED
  BY <1>1, <1>2 DEF IndInv

\* Every step of a pass over a run is a lifecycle step or none.
LEMMA RunStepStep ==
  ASSUME IndInv, RunStep, jobs' = jobs
  PROVE  IndInv' /\ (PhaseMap' = PhaseMap \/ Lifecycle!Next)
<1>1. CASE QuietRunStep
  BY <1>1, QuietRun, QuietMoveStep
<1>2. CASE completeDrive \/ retryCommit \/ startCommit \/ runCheckpoint \/ publishGenerationIntent \/ publishPollIntent
  BY <1>2, completeDriveStep, retryCommitStep, startCommitStep, runCheckpointStep,
     publishGenerationIntentStep, publishPollIntentStep
<1>3. CASE finishRunBoundary \/ publishConfigurationFailure \/ publishResponse \/ publishAbortedTerminal
  BY <1>3, finishRunBoundaryStep, publishConfigurationFailureStep, publishResponseStep, publishAbortedTerminalStep
<1>4. QED
  BY <1>1, <1>2, <1>3 DEF RunStep, QuietRunStep

-----------------------------------------------------------------------------
(* Host commands and the commands of drive() and abort() on the line.      *)

\* The projection of an open lane, field by field.
LEMMA OpenFacts ==
  ASSUME IndInv, Open
  PROVE  /\ StoreInv /\ IsStore(store) /\ mem # Null
         /\ mem = [tip |-> store.tip, cfg |-> store.cfg, inbox |-> store.lane.inbox,
                   last |-> store.lane.last, op |-> mem.op]
         /\ mem.op.id = store.lane.cur
         /\ store.lane.cur # Null => mem.op = [id |-> store.lane.cur, meta |-> store.opMeta[store.lane.cur],
                                               st |-> store.opState[store.lane.cur]]
  BY DEF IndInv, StoreInv, Coherent, restoreLaneState, NoOperation, Open

\* The store a lane patch writes.
LEMMA LaneStore ==
  ASSUME IsStore(store), NEW s, NEW inbox, NEW t,
         t = [log |-> s.log, tip |-> s.tip, cfg |-> s.cfg,
              lane |-> [cur |-> store.lane.cur, last |-> store.lane.last, inbox |-> inbox],
              opMeta |-> store.opMeta, opState |-> store.opState, results |-> store.results,
              usage |-> s.usage, vals |-> s.vals]
  PROVE  IsStore(t)
  BY DEF IsStore

\* A patch of the lane, outside the pass.
LEMMA LanePatch ==
  ASSUME IndInv, Open, drive' = drive, jobs' = jobs, NEW s, NEW inbox,
         SameRecords(store, s),
         store' = [s EXCEPT !.lane = durableLaneState(mem.op.id, inbox, mem.last)],
         mem' = [tip |-> s.tip, cfg |-> s.cfg, inbox |-> inbox, last |-> mem.last, op |-> mem.op]
  PROVE  IndInv' /\ PhaseMap' = PhaseMap
<1>1. /\ StoreInv /\ mem # Null /\ mem.op.id = store.lane.cur /\ mem.last = store.lane.last
  BY OpenFacts
<1>2. /\ store' = [log |-> s.log, tip |-> s.tip, cfg |-> s.cfg,
                   lane |-> [cur |-> store.lane.cur, last |-> store.lane.last, inbox |-> inbox],
                   opMeta |-> store.opMeta, opState |-> store.opState, results |-> store.results,
                   usage |-> s.usage, vals |-> s.vals]
  BY <1>1 DEF SameRecords, IsStore, durableLaneState
<1>3. mem.op = IF store.lane.cur = Null THEN NoOperation
               ELSE [id |-> store.lane.cur, meta |-> store.opMeta[store.lane.cur], st |-> store.opState[store.lane.cur]]
  BY <1>1 DEF StoreInv, Coherent, restoreLaneState
<1>4. IsStore(store')
  BY <1>1, <1>2, LaneStore DEF StoreInv
<1>5. Coherent'
  <2>1. /\ store'.tip = s.tip /\ store'.cfg = s.cfg /\ store'.lane.inbox = inbox /\ store'.lane.last = mem.last
        /\ store'.lane.cur = store.lane.cur /\ store'.opMeta = store.opMeta /\ store'.opState = store.opState
    BY <1>1, <1>2
  <2>2. QED
    BY <1>3, <2>1 DEF Coherent, restoreLaneState
<1>6. CurrentIsOpen' /\ PhaseMap' = PhaseMap
  BY <1>1, <1>2 DEF StoreInv, CurrentIsOpen, IsState, PhaseMap, PhaseOf
<1>7. store'.lane.cur = store.lane.cur
  BY <1>2
<1>8. QED
  BY <1>4, <1>5, <1>6, <1>7, KeepPass DEF IndInv, StoreInv

\* `inbox' and auxiliary values change, nothing else.
LEMMA InboxPatch ==
  ASSUME IndInv, Open, drive' = drive, jobs' = jobs, NEW vals, NEW inbox,
         store' = [store EXCEPT !.vals = vals, !.lane = durableLaneState(mem.op.id, inbox, mem.last)],
         mem' = [mem EXCEPT !.inbox = inbox]
  PROVE  IndInv' /\ PhaseMap' = PhaseMap
<1> DEFINE s == [store EXCEPT !.vals = vals]
<1>1. s = [store EXCEPT !.vals = vals]
  OBVIOUS
<1>2. store' = [s EXCEPT !.lane = durableLaneState(mem.op.id, inbox, mem.last)]
  BY OpenFacts DEF IsStore
<1> HIDE DEF s
<1>3. SameRecords(store, s) /\ s.tip = store.tip /\ s.cfg = store.cfg
  BY <1>1, OpenFacts, ValsStore
<1>4. mem' = [tip |-> s.tip, cfg |-> s.cfg, inbox |-> inbox, last |-> mem.last, op |-> mem.op]
  BY <1>3, OpenFacts
<1>5. QED
  BY <1>2, <1>3, <1>4, LanePatch

\* steer, followUp and nextRun (lane.ts) keep projection and storage in agreement.
LEMMA enqueueStep ==
  ASSUME IndInv, NEW kind, NEW m, enqueue(kind, m), jobs' = jobs
  PROVE  IndInv' /\ PhaseMap' = PhaseMap
<1>1. CASE Faulted
  BY <1>1, FaultedStep, QuietMoveStep
<1>2. CASE ~Faulted
  <2> DEFINE inbox == Append(mem.inbox, [id |-> m, kind |-> kind])
             vals  == store.vals \cup {PendingEntry(m)}
  <2>1. Open /\ drive' = drive
    BY <1>2 DEF enqueue, Ready
  <2>2. store' = [store EXCEPT !.vals = vals, !.lane = durableLaneState(mem.op.id, inbox, mem.last)]
    BY <1>2, <2>1, OpenFacts DEF enqueue, IsStore, CurrentId
  <2>3. mem' = [mem EXCEPT !.inbox = inbox]
    BY <1>2 DEF enqueue
  <2> HIDE DEF inbox, vals
  <2>4. QED
    BY <2>1, <2>2, <2>3, InboxPatch
<1>3. QED
  BY <1>1, <1>2

\* cancelQueued (lane.ts) keeps projection and storage in agreement.
LEMMA cancelQueuedStep ==
  ASSUME IndInv, NEW m, cancelQueued(m), jobs' = jobs
  PROVE  IndInv' /\ PhaseMap' = PhaseMap
<1>1. CASE Faulted
  BY <1>1, FaultedStep, QuietMoveStep
<1>2. CASE ~Faulted
  <2> DEFINE inbox == withoutInboxItems(mem.inbox, {m})
             vals  == store.vals \ {PendingEntry(m)}
  <2>1. Open /\ drive' = drive
    BY <1>2 DEF cancelQueued, Ready
  <2>2. store' = [store EXCEPT !.vals = vals, !.lane = durableLaneState(mem.op.id, inbox, mem.last)]
    BY <1>2, <2>1, OpenFacts DEF cancelQueued, IsStore, CurrentId
  <2>3. mem' = [mem EXCEPT !.inbox = inbox]
    BY <1>2 DEF cancelQueued
  <2> HIDE DEF inbox, vals
  <2>4. QED
    BY <2>1, <2>2, <2>3, InboxPatch
<1>3. QED
  BY <1>1, <1>2

\* append (lane.ts) keeps projection and storage in agreement, placed or queued.
LEMMA appendStep ==
  ASSUME IndInv, NEW m, append(m), jobs' = jobs
  PROVE  IndInv' /\ PhaseMap' = PhaseMap
<1>1. CASE Faulted
  BY <1>1, FaultedStep, QuietMoveStep
<1>2. CASE ~Faulted /\ Busy
  <2> DEFINE inbox == Append(mem.inbox, [id |-> m, kind |-> "write"])
             vals  == store.vals \cup {PendingEntry(m)}
  <2>1. Open /\ drive' = drive
    BY <1>2 DEF append, Ready
  <2>2. store' = [store EXCEPT !.vals = vals, !.lane = durableLaneState(mem.op.id, inbox, mem.last)]
    BY <1>2, <2>1, OpenFacts DEF append, IsStore
  <2>3. mem' = [mem EXCEPT !.inbox = inbox]
    BY <1>2 DEF append
  <2> HIDE DEF inbox, vals
  <2>4. QED
    BY <2>1, <2>2, <2>3, InboxPatch
<1>3. CASE ~Faulted /\ ~Busy
  <2> DEFINE queued == inboxItems(mem.inbox, {"write"})
             after  == withoutInboxItems(mem.inbox, inboxIds(queued))
             items  == Append(pendingEntryWrite(queued), <<m, UserBody(m)>>)
             u      == InsertEntries(store, items)
             s      == [u EXCEPT !.tip = m, !.vals = u.vals \ PendingOf(queued)]
  <2>1. Open /\ drive' = drive /\ mem.op.id = Null
    BY <1>3 DEF append, Ready, Busy
  <2>2. StoreInv /\ IsStore(store)
    BY <2>1, OpenFacts
  <2>3. SameRecords(store, u) /\ u.cfg = store.cfg
    BY <2>2, InsertStore
  <2>4. store' = [s EXCEPT !.lane = durableLaneState(mem.op.id, after, mem.last)]
    <3>1. IsStore(u)
      BY <2>3 DEF SameRecords
    <3>2. QED
      BY <1>3, <2>1, <3>1 DEF append, IsStore
  <2>5. mem' = [mem EXCEPT !.tip = m, !.inbox = after]
    BY <1>3 DEF append
  <2> HIDE DEF u, after, queued
  <2>6. s = [u EXCEPT !.tip = m, !.vals = u.vals \ PendingOf(queued)]
    OBVIOUS
  <2> HIDE DEF s
  <2>7. SameRecords(store, s) /\ s.tip = m /\ s.cfg = store.cfg
    BY <2>3, <2>6 DEF SameRecords, IsStore
  <2>8. mem' = [tip |-> s.tip, cfg |-> s.cfg, inbox |-> after, last |-> mem.last, op |-> mem.op]
    <3>1. /\ mem = [tip |-> mem.tip, cfg |-> mem.cfg, inbox |-> mem.inbox, last |-> mem.last, op |-> mem.op]
          /\ mem.cfg = store.cfg
      BY <2>1, OpenFacts
    <3>2. QED
      BY <2>5, <2>7, <3>1
  <2>9. QED
    BY <2>1, <2>4, <2>7, <2>8, LanePatch
<1>4. QED
  BY <1>1, <1>2, <1>3

\* setModel, setThinkingLevel and setActiveTools (lane.ts) keep them in agreement.
LEMMA setConfigurationStep ==
  ASSUME IndInv, NEW c, setConfiguration(c), jobs' = jobs
  PROVE  IndInv' /\ PhaseMap' = PhaseMap
<1> DEFINE s == [store EXCEPT !.cfg = c]
<1>1. Open /\ drive' = drive /\ store' = s /\ mem' = [mem EXCEPT !.cfg = c]
  BY DEF setConfiguration, Ready
<1>2. s = [store EXCEPT !.cfg = c]
  OBVIOUS
<1> HIDE DEF s
<1>3. IsStore(store)
  BY <1>1, OpenFacts
<1>4. SameRecords(store, s) /\ s.tip = store.tip /\ s.cfg = c
  BY <1>2, <1>3 DEF SameRecords, IsStore
<1>5. s.lane = durableLaneState(mem.op.id, mem.inbox, mem.last)
  <2>1. store.lane = [cur |-> mem.op.id, last |-> mem.last, inbox |-> mem.inbox]
    BY <1>1, OpenFacts DEF IsStore
  <2>2. QED
    BY <1>4, <2>1 DEF SameRecords, durableLaneState
<1>6. store' = [s EXCEPT !.lane = durableLaneState(mem.op.id, mem.inbox, mem.last)]
  BY <1>1, <1>4, <1>5 DEF SameRecords, IsStore
<1>7. mem' = [tip |-> s.tip, cfg |-> s.cfg, inbox |-> mem.inbox, last |-> mem.last, op |-> mem.op]
  <2>1. /\ mem = [tip |-> mem.tip, cfg |-> mem.cfg, inbox |-> mem.inbox, last |-> mem.last, op |-> mem.op]
        /\ mem.tip = store.tip
    BY <1>1, OpenFacts
  <2>2. QED
    BY <1>1, <1>4, <2>1
<1>8. QED
  BY <1>1, <1>4, <1>6, <1>7, LanePatch

\* The pass keeps its place; only its flags change.
LEMMA FlagPass ==
  ASSUME DriveShape, PassOwnsOperation, jobs' = jobs, store'.lane.cur = store.lane.cur,
         drive' = drive \/ (IsDrive(drive') /\ drive'.id = drive.id /\ drive'.pc = drive.pc)
  PROVE  DriveShape' /\ PassOwnsOperation'
<1>1. CASE drive' = drive
  BY <1>1, KeepPass
<1>2. CASE IsDrive(drive') /\ drive'.id = drive.id /\ drive'.pc = drive.pc
  BY <1>2 DEF DriveShape, PassOwnsOperation
<1>3. QED
  BY <1>1, <1>2

\* The synchronous part of an abort (lane.ts) only closes the gate of the sampled pass.
LEMMA requestOperationAbortStep ==
  ASSUME IndInv, NEW op, requestOperationAbort(op), jobs' = jobs
  PROVE  IndInv' /\ PhaseMap' = PhaseMap
<1>1. StoreInv' /\ PhaseMap' = PhaseMap /\ store'.lane.cur = store.lane.cur
  BY KeepStore DEF IndInv, requestOperationAbort
<1>2. drive' = drive \/ (drive' = [drive EXCEPT !.gate = "aborting"])
  BY DEF requestOperationAbort
<1>3. drive' = drive \/ (IsDrive(drive') /\ drive'.id = drive.id /\ drive'.pc = drive.pc)
  BY <1>2 DEF IndInv, DriveShape, IsDrive
<1>4. QED
  BY <1>1, <1>3, FlagPass DEF IndInv

\* drive() (lane.ts) installs a pass only for the current operation, and only one.
LEMMA installDriveStep ==
  ASSUME IndInv, installDrive, jobs' = jobs
  PROVE  IndInv' /\ PhaseMap' = PhaseMap
<1> DEFINE t == Head(line)
<1>1. StoreInv' /\ PhaseMap' = PhaseMap /\ store'.lane.cur = store.lane.cur
  BY KeepStore DEF IndInv, installDrive
<1>2. \/ drive' = drive
      \/ drive.id # Null /\ \E resumed : drive' = [drive EXCEPT !.resumed = resumed]
      \/ drive.id = Null /\ Busy /\ mem.op.id = t.op /\ drive' = newDrive(t.op, t.mode)
  BY DEF installDrive
<1>3. CASE drive' = drive
  BY <1>1, <1>3, KeepPass DEF IndInv
<1>4. CASE drive.id # Null /\ \E resumed : drive' = [drive EXCEPT !.resumed = resumed]
  <2>1. IsDrive(drive') /\ drive'.id = drive.id /\ drive'.pc = drive.pc
    BY <1>4 DEF IndInv, DriveShape, IsDrive
  <2>2. QED
    BY <1>1, <1>4, <2>1, FlagPass DEF IndInv
<1>5. CASE drive.id = Null /\ Busy /\ mem.op.id = t.op /\ drive' = newDrive(t.op, t.mode)
  <2>1. t.op \in OpIds /\ store.lane.cur # Null
    <3>1. Open
      BY DEF installDrive, Ready
    <3>2. mem.op.id = store.lane.cur /\ IsStore(store)
      BY <3>1, OpenFacts
    <3>3. QED
      BY <1>5, <3>2 DEF IsStore, Busy
  <2> HIDE DEF t
  <2>2. IsDrive(drive') /\ drive'.id = t.op /\ drive'.pc = "begin"
    BY <1>5 DEF newDrive, IsDrive
  <2>3. DriveShape' /\ PassOwnsOperation'
    BY NullAssumption, <1>5, <2>1, <2>2 DEF IndInv, DriveShape, PassOwnsOperation
  <2>4. QED
    BY <1>1, <2>3 DEF IndInv
<1>6. QED
  BY <1>2, <1>3, <1>4, <1>5

\* The abort command (lane.ts) cancels the running operation it names, or changes no phase.
LEMMA commitAbortStep ==
  ASSUME IndInv, commitAbort, jobs' = jobs
  PROVE  IndInv' /\ (PhaseMap' = PhaseMap \/ Lifecycle!Next)
<1>1. CASE Faulted
  BY <1>1, FaultedStep, QuietMoveStep
<1>2. CASE ~Faulted
  <2> DEFINE op      == Head(line).op
             removed == inboxItems(mem.inbox, {"steer", "followUp"})
             inbox   == withoutInboxItems(mem.inbox, inboxIds(removed))
             st      == [mem.op.st EXCEPT !.ctl = "cancel_requested"]
             vals    == store.vals \ PendingOf(removed)
             cur     == store.lane.cur
  <2>1. Open
    BY DEF commitAbort, Ready
  <2>2. drive' = drive \/ (IsDrive(drive') /\ drive'.id = drive.id /\ drive'.pc = drive.pc)
    <3>1. drive' = drive \/ (\E gate : drive' = [drive EXCEPT !.released = TRUE, !.gate = gate])
      BY <1>2 DEF commitAbort
    <3>2. QED
      BY <3>1 DEF IndInv, DriveShape, IsDrive
  <2>3. \/ store' = store /\ mem' = mem
        \/ /\ Busy /\ mem.op.id = op /\ ~Cancelled
           /\ store' = [store EXCEPT !.vals = vals, !.opState = [store.opState EXCEPT ![op] = st],
                                     !.lane = durableLaneState(op, inbox, mem.last)]
           /\ mem' = [mem EXCEPT !.inbox = inbox, !.op = [mem.op EXCEPT !.st = st]]
    <3>1. IsStore(store)
      BY <2>1, OpenFacts
    <3>2. mem = [tip |-> mem.tip, cfg |-> mem.cfg, inbox |-> mem.inbox, last |-> mem.last, op |-> mem.op]
      BY <2>1, OpenFacts
    <3>3. QED
      BY <1>2, <3>1, <3>2 DEF commitAbort, IsStore
  <2>4. CASE store' = store /\ mem' = mem
    <3>1. StoreInv' /\ PhaseMap' = PhaseMap /\ store'.lane.cur = store.lane.cur
      BY <2>4, KeepStore DEF IndInv
    <3>2. QED
      BY <2>2, <3>1, FlagPass DEF IndInv
  <2>5. CASE /\ Busy /\ mem.op.id = op /\ ~Cancelled
             /\ store' = [store EXCEPT !.vals = vals, !.opState = [store.opState EXCEPT ![op] = st],
                                       !.lane = durableLaneState(op, inbox, mem.last)]
             /\ mem' = [mem EXCEPT !.inbox = inbox, !.op = [mem.op EXCEPT !.st = st]]
    <3>1. /\ IsStore(store) /\ cur \in OpIds /\ cur # Null /\ op = cur
          /\ mem = [tip |-> store.tip, cfg |-> store.cfg, inbox |-> store.lane.inbox, last |-> store.lane.last,
                    op |-> [id |-> cur, meta |-> store.opMeta[cur], st |-> store.opState[cur]]]
      BY <2>1, <2>5, OpenFacts DEF Busy, IsStore
    <3>2. IsState(st) /\ st.ctl = "cancel_requested"
      <4>1. IsState(mem.op.st)
        BY <3>1 DEF IndInv, StoreInv, CurrentIsOpen
      <4> DEFINE old == mem.op.st
      <4> HIDE DEF old
      <4>2. IsState(old) /\ st = [old EXCEPT !.ctl = "cancel_requested"]
        BY <4>1 DEF old
      <4> HIDE DEF st
      <4>3. QED
        BY <4>2 DEF IsState
    <3> HIDE DEF op, removed, inbox, st, vals
    <3>3. store' = [log |-> store.log, tip |-> store.tip, cfg |-> store.cfg,
                    lane |-> [cur |-> cur, last |-> store.lane.last, inbox |-> inbox],
                    opMeta |-> store.opMeta, opState |-> [store.opState EXCEPT ![cur] = st],
                    results |-> store.results, usage |-> store.usage, vals |-> vals]
      BY <2>5, <3>1 DEF IsStore, durableLaneState
    <3>4. mem' = [tip |-> store.tip, cfg |-> store.cfg, inbox |-> inbox, last |-> store.lane.last,
                  op |-> [id |-> cur, meta |-> store.opMeta[cur], st |-> st]]
      BY <2>5, <3>1
    <3>5. IsStore(store') /\ Coherent' /\ CurrentIsOpen' /\ store'.lane.cur = cur
      <4>1. IsStore(store')
        BY <3>1, <3>3 DEF IsStore
      <4>2. Coherent'
        BY <3>1, <3>3, <3>4 DEF Coherent, restoreLaneState, IsStore
      <4>3. CurrentIsOpen' /\ store'.lane.cur = cur
        BY <3>1, <3>2, <3>3 DEF IndInv, StoreInv, CurrentIsOpen, IsStore
      <4>4. QED
        BY <4>1, <4>2, <4>3
    <3>6. PhaseMap' = [PhaseMap EXCEPT ![cur] = "cancelling"]
      <4>1. \A x \in OpIds : PhaseOf(store', x) = IF x = cur THEN "cancelling" ELSE PhaseOf(store, x)
        BY <3>1, <3>2, <3>3 DEF PhaseOf, IsStore
      <4>2. QED
        BY <3>1, <4>1 DEF PhaseMap
    <3>7. PhaseMap[cur] = "running"
      BY <2>5, <3>1 DEF PhaseMap, PhaseOf, Cancelled
    <3>8. Lifecycle!Cancel(cur)
      BY <3>6, <3>7 DEF Lifecycle!Cancel, PhaseMap
    <3>9. DriveShape' /\ PassOwnsOperation'
      BY <2>2, <3>5, FlagPass DEF IndInv
    <3>10. QED
      BY <3>1, <3>5, <3>8, <3>9 DEF IndInv, StoreInv, Lifecycle!Next
  <2>6. QED
    BY <2>3, <2>4, <2>5
<1>3. QED
  BY <1>1, <1>2

\* acceptRun (lane.ts) opens an operation that never existed on a lane that has none.
LEMMA acceptRunStep ==
  ASSUME IndInv, NEW op \in OpIds, NEW prompt, NEW settings, acceptRun(op, prompt, settings), jobs' = jobs
  PROVE  IndInv' /\ (PhaseMap' = PhaseMap \/ Lifecycle!Next)
<1>1. CASE Faulted
  BY <1>1, FaultedStep, QuietMoveStep
<1>2. CASE ~Faulted
  <2> DEFINE taken == selectAcceptedInbox(mem.inbox, settings)
             inbox == withoutInboxItems(mem.inbox, inboxIds(taken))
             items == pendingEntryWrite(taken) \o [i \in DOMAIN prompt |-> <<prompt[i], UserBody(prompt[i])>>]
             meta  == [kind |-> "run", source |-> mem.tip, prompt |-> prompt]
             st    == [ctl |-> "running", settings |-> settings, latest |-> Null, leaf |-> [at |-> "starting"]]
             s     == InsertEntries(store, items)
             vals  == s.vals \ PendingOf(taken)
             tip   == TipAfter(mem.tip, items)
  <2>1. /\ Open /\ ~Busy /\ store.results[op] = NoResult /\ drive' = drive
        /\ mem' = [mem EXCEPT !.tip = tip, !.inbox = inbox, !.op = [id |-> op, meta |-> meta, st |-> st]]
    BY <1>2 DEF acceptRun, Ready
  <2>2. /\ IsStore(store) /\ store.lane.cur = Null
        /\ mem = [tip |-> store.tip, cfg |-> store.cfg, inbox |-> store.lane.inbox,
                  last |-> store.lane.last, op |-> mem.op]
    BY <2>1, OpenFacts DEF Busy
  <2>3. SameRecords(store, s) /\ s.tip = tip /\ s.cfg = store.cfg
    BY <2>2, InsertStore
  <2>4. store' = [s EXCEPT !.vals = vals, !.opMeta = [s.opMeta EXCEPT ![op] = meta],
                           !.opState = [s.opState EXCEPT ![op] = st],
                           !.lane = durableLaneState(op, inbox, mem.last)]
    <3>1. IsStore(s)
      BY <2>3 DEF SameRecords
    <3>2. QED
      BY <1>2, <3>1 DEF acceptRun, IsStore
  <2>5. IsState(st) /\ st.ctl = "running"
    BY DEF IsState
  <2> HIDE DEF taken, inbox, items, meta, st, s, vals, tip
  <2>6. store' = [log |-> s.log, tip |-> tip, cfg |-> store.cfg,
                  lane |-> [cur |-> op, last |-> store.lane.last, inbox |-> inbox],
                  opMeta |-> [store.opMeta EXCEPT ![op] = meta], opState |-> [store.opState EXCEPT ![op] = st],
                  results |-> store.results, usage |-> s.usage, vals |-> vals]
    <3>1. /\ s = [log |-> s.log, tip |-> s.tip, cfg |-> s.cfg, lane |-> s.lane, opMeta |-> s.opMeta,
                  opState |-> s.opState, results |-> s.results, usage |-> s.usage, vals |-> s.vals]
          /\ s.tip = tip /\ s.cfg = store.cfg /\ s.opMeta = store.opMeta /\ s.opState = store.opState
          /\ s.results = store.results
      BY <2>3 DEF SameRecords, IsStore
    <3>2. mem.last = store.lane.last
      BY <2>2
    <3>3. QED
      BY <2>4, <3>1, <3>2 DEF durableLaneState
  <2>7. mem' = [tip |-> tip, cfg |-> store.cfg, inbox |-> inbox, last |-> store.lane.last,
                op |-> [id |-> op, meta |-> meta, st |-> st]]
    <3>1. /\ mem = [tip |-> mem.tip, cfg |-> mem.cfg, inbox |-> mem.inbox, last |-> mem.last, op |-> mem.op]
          /\ mem.cfg = store.cfg /\ mem.last = store.lane.last
      BY <2>2
    <3>2. QED
      BY <2>1, <3>1
  <2>8. IsStore(store')
    BY <2>2, <2>6 DEF IsStore
  <2>9. Coherent' /\ CurrentIsOpen'
    <3>1. /\ store'.lane.cur = op /\ store'.opMeta[op] = meta /\ store'.opState[op] = st
          /\ store'.tip = tip /\ store'.cfg = store.cfg /\ store'.lane.inbox = inbox /\ store'.lane.last = store.lane.last
          /\ store'.results = store.results
      BY <2>2, <2>6 DEF IsStore
    <3>2. Coherent'
      BY <2>7, <3>1, NullAssumption DEF Coherent, restoreLaneState
    <3>3. CurrentIsOpen'
      BY <2>1, <2>5, <3>1 DEF CurrentIsOpen
    <3>4. QED
      BY <3>2, <3>3
  <2>10. \A x \in OpIds : PhaseOf(store', x) = IF x = op THEN "running" ELSE PhaseOf(store, x)
    <3>1. /\ store'.lane.cur = op /\ store'.opState[op] = st /\ store'.results = store.results
      BY <2>2, <2>6 DEF IsStore
    <3>2. QED
      BY <2>2, <2>5, <3>1, NullAssumption DEF PhaseOf
  <2>11. /\ PhaseMap[op] = "absent"
         /\ \A x \in OpIds : PhaseMap[x] = IF store.results[x] = NoResult THEN "absent" ELSE store.results[x].status
    BY <2>1, <2>2, NullAssumption DEF PhaseMap, PhaseOf
  <2>12. PhaseMap' = [PhaseMap EXCEPT ![op] = "running"]
    BY <2>10 DEF PhaseMap
  <2>13. \A x \in OpIds : PhaseMap[x] \notin {"running", "cancelling"}
    BY <2>2, <2>11 DEF IsStore
  <2>14. Lifecycle!Accept(op)
    BY <2>11, <2>12, <2>13 DEF Lifecycle!Accept, Lifecycle!Open, PhaseMap
  <2>15. DriveShape' /\ PassOwnsOperation'
    BY <2>1, <2>2, <2>6, NullAssumption DEF IndInv, DriveShape, IsDrive, PassOwnsOperation
  <2>16. QED
    BY <2>1, <2>6, <2>8, <2>9, <2>14, <2>15 DEF IndInv, StoreInv, Lifecycle!Next
<1>3. QED
  BY <1>1, <1>2

\* Every host command is a lifecycle step or none.
LEMMA HostStepStep ==
  ASSUME IndInv, HostStep, jobs' = jobs
  PROVE  IndInv' /\ (PhaseMap' = PhaseMap \/ Lifecycle!Next)
<1>1. CASE \E op \in OpIds, prompt \in Prompts, settings \in RunSettings : acceptRun(op, prompt, settings)
  BY <1>1, acceptRunStep
<1>2. CASE (\E kind, m : enqueue(kind, m)) \/ (\E m : append(m)) \/ (\E m : cancelQueued(m)) \/ (\E c : setConfiguration(c))
  BY <1>2, enqueueStep, appendStep, cancelQueuedStep, setConfigurationStep
<1>3. CASE claimIdle \/ releaseIdle
  BY <1>3, QuietMoveStep DEF claimIdle, releaseIdle, QuietMove
<1>4. CASE \E op \in OpIds : requestOperationAbort(op)
  BY <1>4, requestOperationAbortStep
<1>5. QED
  BY <1>1, <1>2, <1>3, <1>4 DEF HostStep

\* Issuing drive() changes nothing durable.
LEMMA DriveCallStepStep ==
  ASSUME IndInv, DriveCallStep, jobs' = jobs
  PROVE  IndInv' /\ PhaseMap' = PhaseMap
  BY QuietMoveStep DEF DriveCallStep, requestDrive, QuietMove

-----------------------------------------------------------------------------
(* Losing and restoring the process; recovery data.                        *)

\* Losing the process loses nothing durable.
LEMMA StopStepStep ==
  ASSUME IndInv, StopStep
  PROVE  IndInv' /\ PhaseMap' = PhaseMap
<1>1. StoreInv' /\ PhaseMap' = PhaseMap
  BY KeepStore DEF IndInv, StopStep, stopProcess
<1>2. DriveShape' /\ PassOwnsOperation'
  BY DEF DriveShape, IsDrive, PassOwnsOperation, StopStep, stopProcess, NoDrive
<1>3. QED
  BY <1>1, <1>2 DEF IndInv

\* Restoring the session (restore.ts) rebuilds the projection and changes nothing durable.
LEMMA RestoreStepStep ==
  ASSUME IndInv, RestoreStep
  PROVE  IndInv' /\ PhaseMap' = PhaseMap
<1>1. CASE Faulted
  BY <1>1, FaultedStep, QuietMoveStep DEF RestoreStep, toolVars
<1>2. CASE ~Faulted
  <2>1. store' = store /\ mem' = restoreLaneState(store) /\ drive' = drive /\ jobs' = jobs
    BY <1>2 DEF RestoreStep, restoreSession, toolVars
  <2>2. StoreInv' /\ PhaseMap' = PhaseMap /\ store'.lane.cur = store.lane.cur
    BY <2>1 DEF IndInv, StoreInv, IsStore, Coherent, CurrentIsOpen, IsState, PhaseMap, PhaseOf, restoreLaneState
  <2>3. QED
    BY <2>1, <2>2, KeepPass DEF IndInv
<1>3. QED
  BY <1>1, <1>2

\* A write of auxiliary values outside the operation state.
LEMMA ValsOnly ==
  ASSUME IndInv, NEW vals, store' = [store EXCEPT !.vals = vals], mem' = mem
  PROVE  StoreInv' /\ PhaseMap' = PhaseMap /\ store'.lane.cur = store.lane.cur
<1>1. SameRecords(store, store') /\ store'.tip = store.tip /\ store'.cfg = store.cfg
  BY ValsStore DEF IndInv, StoreInv
<1>2. Coherent'
  BY <1>1 DEF IndInv, StoreInv, Coherent, restoreLaneState, SameRecords
<1>3. CurrentIsOpen' /\ PhaseMap' = PhaseMap
  BY <1>1 DEF IndInv, StoreInv, CurrentIsOpen, SameRecords, PhaseMap, PhaseOf, IsState
<1>4. QED
  BY <1>1, <1>2, <1>3 DEF StoreInv, SameRecords

\* Frames, tool output and memos (progress.ts, tools.ts) change no phase.
LEMMA ProgressStepStep ==
  ASSUME IndInv, ProgressStep
  PROVE  IndInv' /\ PhaseMap' = PhaseMap
<1>1. mem' = mem /\ drive' = drive /\ jobs' = jobs
  BY DEF ProgressStep, appendFrame, writeToolOutput, setMemo, toolVars
<1>2. \E vals : store' = [store EXCEPT !.vals = vals]
  BY DEF ProgressStep, appendFrame, writeToolOutput, setMemo, IndInv, StoreInv, IsStore
<1>3. StoreInv' /\ PhaseMap' = PhaseMap /\ store'.lane.cur = store.lane.cur
  BY <1>1, <1>2, ValsOnly
<1>4. QED
  BY <1>1, <1>3, KeepPass DEF IndInv

-----------------------------------------------------------------------------
(* Tool batches.                                                           *)

JobsIdle == \A i \in DOMAIN jobs : jobs[i].pc \in {"none", "done"}

\* The pass moves and its tasks are idle, or it joins them.
LEMMA BatchPass ==
  ASSUME DriveShape, drive.id \in OpIds, IsDrive(drive'), drive'.id = drive.id,
         store'.lane.cur = drive.id, JobsIdle' \/ drive'.pc \in JoinPcs
  PROVE  DriveShape' /\ PassOwnsOperation'
  BY NullAssumption DEF DriveShape, PassOwnsOperation, JobsIdle, JoinPcs

\* Outside the joins no task is at work.
LEMMA IdleOutsideJoins ==
  ASSUME IndInv, drive.pc \notin JoinPcs
  PROVE  JobsIdle
  BY DEF IndInv, PassOwnsOperation, JobsIdle, JoinPcs

\* Placing staged outcomes is a commit of the operation's state.
LEMMA PlaceItemsStep ==
  ASSUME StoreInv, mem # Null, store.lane.cur # Null, NEW placed, PlaceItems(placed)
  PROVE  StoreInv' /\ PhaseMap' = PhaseMap /\ store'.lane.cur = store.lane.cur
<1> DEFINE order == ItemsAt([i \in Calls |-> i], placed)
           items == [k \in DOMAIN order |->
                       <<Call(order[k]).result,
                         [type |-> "result", assistant |-> Leaf.assistant, index |-> order[k]]>>]
           u     == InsertEntries(store, items)
           tip   == TipAfter(mem.tip, items)
<1>1. PICK cfg, vals, usage, leaf :
        SettleCommit([u EXCEPT !.cfg = cfg, !.vals = vals, !.usage = usage],
                     [mem EXCEPT !.tip = tip, !.cfg = cfg], WithLeaf(leaf), FALSE)
  <2> DEFINE added == UNION {Call(i).outcome.added : i \in placed}
             cfg   == PlacedConfig(added)
             calls == [i \in Calls |-> IF i \in placed
                                       THEN [Call(i) EXCEPT !.status = "completed", !.outcome = Null] ELSE Call(i)]
             full  == \A i \in Calls : calls[i].status = "completed"
             leaf  == IF ~full THEN [Leaf EXCEPT !.calls = calls]
                      ELSE Checkpoint(IF \A i \in Calls : calls[i].terminate THEN MayFinish(FALSE)
                                      ELSE NeedAssistant(FALSE), tip)
             freed == {PendingEntry(Call(i).result) : i \in placed}
                        \cup (IF full THEN BatchArguments ELSE {})
             rows  == ItemsAt([i \in Calls |-> i], {i \in placed : Call(i).outcome.metered})
             vals  == u.vals \ freed
             usage == u.usage \o [k \in DOMAIN rows |-> Call(rows[k]).result]
  <2>1. IsStore(u)
    BY InsertStore DEF StoreInv, SameRecords
  <2>2. SettleCommit([u EXCEPT !.cfg = cfg, !.vals = vals, !.usage = usage],
                     [mem EXCEPT !.tip = tip, !.cfg = cfg], WithLeaf(leaf), FALSE)
    <3>1. [u EXCEPT !.cfg = cfg, !.vals = vals, !.usage = usage] =
            [u EXCEPT !.cfg = cfg, !.vals = @ \ freed, !.usage = @ \o [k \in DOMAIN rows |-> Call(rows[k]).result]]
      <4> HIDE DEF u, freed, rows, cfg
      <4>1. QED
        BY <2>1 DEF IsStore
    <3>2. QED
      BY <3>1 DEF PlaceItems
  <2> HIDE DEF cfg, vals, usage, leaf
  <2>3. QED
    BY <2>2
<1> DEFINE s == [u EXCEPT !.cfg = cfg, !.vals = vals, !.usage = usage]
           m == [mem EXCEPT !.tip = tip, !.cfg = cfg]
<1>2. SameRecords(store, u) /\ u.tip = TipAfter(store.tip, items)
  BY InsertStore DEF StoreInv
<1>3. mem = [tip |-> store.tip, cfg |-> mem.cfg, inbox |-> mem.inbox, last |-> mem.last, op |-> mem.op]
  BY DEF StoreInv, Coherent, restoreLaneState
<1> HIDE DEF u, items
<1>4. Frame(s) /\ s.tip = tip /\ s.cfg = cfg
  <2>1. s = [u EXCEPT !.cfg = cfg, !.vals = vals, !.usage = usage] /\ mem.tip = store.tip
    BY <1>3
  <2> HIDE DEF s
  <2>2. QED
    BY <1>2, <2>1 DEF SameRecords, IsStore, Frame
<1>5. Patched(m, s, mem.inbox)
  <2> HIDE DEF order, s, tip
  <2>1. m = [mem EXCEPT !.tip = s.tip, !.cfg = s.cfg]
    BY <1>4
  <2> HIDE DEF m
  <2>2. QED
    BY <2>1, ConfigPatched
<1>6. IsState(WithLeaf(leaf)) /\ WithLeaf(leaf).ctl = mem.op.st.ctl
  BY LeafState
<1>7. SettleCommit(s, m, WithLeaf(leaf), FALSE)
  BY <1>1
<1> HIDE DEF s, m
<1>8. QED
  BY <1>4, <1>5, <1>6, <1>7, SettleCommitStep

\* The pass's steps over a tool batch (tools.ts) keep its operation and every phase.
LEMMA BatchStepStep ==
  ASSUME IndInv, BatchStep
  PROVE  IndInv' /\ PhaseMap' = PhaseMap
<1>1. CASE Faulted /\ jobs' = jobs
  BY <1>1, FaultedStep, QuietMoveStep
<1>2. CASE ~(Faulted /\ jobs' = jobs) /\ (readToolBatchSource \/ runTools \/ readPlacement)
  <2>1. Driving /\ drive.pc \notin {"none", "begin", "done"} \cup JoinPcs
    BY <1>2 DEF readToolBatchSource, runTools, readPlacement, MainTurn, At, JoinPcs
  <2>2. DriveShape /\ drive.id \in OpIds /\ IsDrive(drive) /\ store.lane.cur = drive.id
    BY <2>1, PassFacts DEF IndInv
  <2>3. store' = store /\ mem' = mem
    BY <1>2 DEF readToolBatchSource, runTools, readPlacement, toolVars
  <2>4. JobsIdle'
    <3>1. JobsIdle
      BY <2>1, IdleOutsideJoins
    <3>2. jobs' = jobs \/ jobs' = [i \in Calls |-> NoJob]
      BY <1>2 DEF readToolBatchSource, runTools, readPlacement, toolVars
    <3>3. QED
      BY <3>1, <3>2 DEF JobsIdle, NoJob, Job
  <2>5. IsDrive(drive') /\ drive'.id = drive.id
    <3>1. CASE readToolBatchSource
      BY <1>2, <2>2, <3>1 DEF readToolBatchSource, IsDrive, toolVars
    <3>2. CASE runTools
      BY <2>2, <3>2, GotoStep DEF runTools, IsDrive
    <3>3. CASE readPlacement
      BY <1>2, <2>2, <3>3 DEF readPlacement, IsDrive, toolVars
    <3>4. QED
      BY <1>2, <3>1, <3>2, <3>3
  <2>6. StoreInv' /\ PhaseMap' = PhaseMap /\ store'.lane.cur = store.lane.cur
    BY <2>3, KeepStore DEF IndInv
  <2>7. QED
    BY <2>2, <2>4, <2>5, <2>6, BatchPass DEF IndInv
<1>3. CASE commitPlacement
  <2>1. MainTurn("place.commit") /\ \E placed : PlaceItems(placed)
    BY <1>3 DEF commitPlacement
  <2>2. /\ StoreInv /\ mem # Null /\ drive.id \in OpIds
        /\ store.lane.cur = drive.id /\ store.lane.cur # Null /\ IsDrive(drive) /\ drive.pc \notin JoinPcs
    BY <2>1, TurnFacts DEF JoinPcs
  <2>3. StoreInv' /\ PhaseMap' = PhaseMap /\ store'.lane.cur = store.lane.cur
    BY <2>1, <2>2, PlaceItemsStep
  <2>4. IsDrive(drive') /\ drive'.id = drive.id /\ jobs' = jobs
    BY <1>3, <2>2 DEF commitPlacement, IsDrive, toolVars
  <2>5. JobsIdle'
    BY <2>2, <2>4, IdleOutsideJoins DEF JobsIdle
  <2>6. QED
    BY <2>2, <2>3, <2>4, <2>5, BatchPass DEF IndInv
<1>4. CASE ~(Faulted /\ jobs' = jobs) /\ runSequential
  <2>1. Driving /\ drive.pc = "sequential"
    BY <1>4 DEF runSequential, At
  <2>2. DriveShape /\ drive.id \in OpIds /\ IsDrive(drive) /\ store.lane.cur = drive.id
    BY <2>1, PassFacts DEF IndInv
  <2>3. store' = store /\ mem' = mem
    BY <1>4 DEF runSequential
  <2>4. (JobsIdle' \/ drive'.pc \in JoinPcs) /\ IsDrive(drive') /\ drive'.id = drive.id
    <3>1. \/ jobs' = jobs /\ Goto("loop", Null)
          \/ \E turns : drive' = [drive EXCEPT !.pc = "sequential.join", !.arg = turns]
      BY <1>4, <2>2 DEF runSequential, IsDrive
    <3>2. CASE jobs' = jobs /\ Goto("loop", Null)
      BY <2>1, <2>2, <3>2, GotoStep, IdleOutsideJoins DEF JobsIdle, JoinPcs
    <3>3. CASE \E turns : drive' = [drive EXCEPT !.pc = "sequential.join", !.arg = turns]
      BY <2>2, <3>3 DEF IsDrive, JoinPcs
    <3>4. QED
      BY <3>1, <3>2, <3>3
  <2>5. StoreInv' /\ PhaseMap' = PhaseMap /\ store'.lane.cur = store.lane.cur
    BY <2>3, KeepStore DEF IndInv
  <2>6. QED
    BY <2>2, <2>4, <2>5, BatchPass DEF IndInv
<1>5. CASE joinSequential \/ startParallel \/ joinParallel
  <2>1. Driving /\ drive.pc \in JoinPcs
    BY <1>5 DEF joinSequential, startParallel, joinParallel, At, JoinPcs
  <2>2. DriveShape /\ drive.id \in OpIds /\ IsDrive(drive) /\ store.lane.cur = drive.id
    BY <2>1, PassFacts DEF IndInv, JoinPcs
  <2>3. store' = store /\ mem' = mem
    BY <1>5 DEF joinSequential, startParallel, joinParallel
  <2>4. \/ drive' = drive
        \/ jobs' = [i \in DOMAIN jobs |-> NoJob] /\ \E pc, arg : drive' = [drive EXCEPT !.pc = pc, !.arg = arg]
    BY <1>5, <2>2 DEF joinSequential, startParallel, joinParallel, Queue, Goto, IsDrive
  <2>5. (JobsIdle' \/ drive'.pc \in JoinPcs) /\ IsDrive(drive') /\ drive'.id = drive.id
    <3>1. CASE drive' = drive
      BY <2>1, <2>2, <3>1
    <3>2. CASE jobs' = [i \in DOMAIN jobs |-> NoJob] /\ \E pc, arg : drive' = [drive EXCEPT !.pc = pc, !.arg = arg]
      BY <2>2, <3>2 DEF JobsIdle, NoJob, Job, IsDrive
    <3>3. QED
      BY <2>4, <3>1, <3>2
  <2>6. StoreInv' /\ PhaseMap' = PhaseMap /\ store'.lane.cur = store.lane.cur
    BY <2>3, KeepStore DEF IndInv
  <2>7. QED
    BY <2>2, <2>5, <2>6, BatchPass DEF IndInv
<1>6. QED
  BY <1>1, <1>2, <1>3, <1>4, <1>5 DEF BatchStep

\* A task at work: the pass waits for it and owns the operation.
LEMMA TaskFacts ==
  ASSUME IndInv, NEW i, NEW pc, pc \notin {"none", "done"}, JobAt(i, pc)
  PROVE  /\ StoreInv /\ DriveShape /\ mem # Null /\ drive.id \in OpIds /\ drive.pc \in JoinPcs
         /\ store.lane.cur = drive.id /\ store.lane.cur # Null
  BY NullAssumption DEF JobAt, Driving, Open, IndInv, PassOwnsOperation, JoinPcs

\* Whatever a task does, the pass keeps its place.
LEMMA TaskPass ==
  ASSUME IndInv, NEW i, NEW pc, pc \notin {"none", "done"}, JobAt(i, pc), drive' = drive,
         StoreInv', store'.lane.cur = store.lane.cur
  PROVE  IndInv'
<1>1. /\ DriveShape /\ drive.id \in OpIds /\ drive.pc \in JoinPcs /\ store.lane.cur = drive.id
  BY TaskFacts
<1>2. DriveShape' /\ PassOwnsOperation'
  <2>1. IsDrive(drive') /\ drive'.id = drive.id /\ drive'.pc \in JoinPcs
    BY <1>1 DEF DriveShape, IsDrive
  <2>2. QED
    BY <1>1, <2>1, BatchPass
<1>3. QED
  BY <1>2 DEF IndInv

\* A task that writes nothing.
LEMMA QuietTask ==
  ASSUME IndInv, NEW i, NEW pc, pc \notin {"none", "done"}, JobAt(i, pc),
         drive' = drive, store' = store, mem' = mem
  PROVE  IndInv' /\ PhaseMap' = PhaseMap
<1>1. StoreInv' /\ PhaseMap' = PhaseMap /\ store'.lane.cur = store.lane.cur
  BY KeepStore DEF IndInv
<1>2. QED
  BY <1>1, TaskPass

\* A task that commits a new state of its call.
LEMMA CommittingTask ==
  ASSUME IndInv, NEW i, NEW pc, pc \notin {"none", "done"}, JobAt(i, pc), drive' = drive,
         NEW vals, NEW leaf, SettleCommit([store EXCEPT !.vals = vals], mem, WithLeaf(leaf), FALSE)
  PROVE  IndInv' /\ PhaseMap' = PhaseMap
<1> DEFINE s == [store EXCEPT !.vals = vals]
<1>1. s = [store EXCEPT !.vals = vals] /\ SettleCommit(s, mem, WithLeaf(leaf), FALSE)
  OBVIOUS
<1> HIDE DEF s
<1>2. StoreInv /\ mem # Null /\ store.lane.cur # Null
  BY TaskFacts
<1>3. /\ Frame(s) /\ Patched(mem, s, mem.inbox)
      /\ IsState(WithLeaf(leaf)) /\ WithLeaf(leaf).ctl = mem.op.st.ctl
  BY <1>1, <1>2, ValsLeaf
<1>4. StoreInv' /\ PhaseMap' = PhaseMap /\ store'.lane.cur = store.lane.cur
  BY <1>1, <1>2, <1>3, SettleCommitStep
<1>5. QED
  BY <1>4, TaskPass

\* The tasks of tool calls (tools.ts) keep the pass's operation and every phase.
LEMMA JobStepStep ==
  ASSUME IndInv, NEW i, JobStep(i)
  PROVE  IndInv' /\ PhaseMap' = PhaseMap
<1>1. CASE beforeToolReturns(i) \/ refusedTool(i) \/ readCheckpoint(i) \/ admitTool(i) \/ toolReturns(i) \/ afterToolReturns(i)
  <2>1. PICK pc \in {"before", "refused", "checkpoint", "admit", "execute", "after"} : JobAt(i, pc)
    BY <1>1 DEF beforeToolReturns, refusedTool, readCheckpoint, admitTool, toolReturns, afterToolReturns
  <2>2. drive' = drive /\ store' = store /\ mem' = mem
    BY <1>1 DEF beforeToolReturns, refusedTool, readCheckpoint, admitTool, toolReturns, afterToolReturns, jobUnchanged
  <2>3. QED
    BY <2>1, <2>2, QuietTask
<1>2. CASE publishToolIntent(i)
  <2>1. JobAt(i, "intent") /\ drive' = drive
    BY <1>2 DEF publishToolIntent
  <2>2. CASE Cancelled
    <3>1. store' = store /\ mem' = mem
      BY <1>2, <2>2 DEF publishToolIntent
    <3>2. QED
      BY <2>1, <3>1, QuietTask
  <2>3. CASE ~Cancelled
    <3>1. IsStore(store)
      BY DEF IndInv, StoreInv
    <3>2. \E vals, leaf : SettleCommit([store EXCEPT !.vals = vals], mem, WithLeaf(leaf), FALSE)
      BY <1>2, <2>3, <3>1 DEF publishToolIntent, IsStore, WithCall
    <3>3. QED
      BY <2>1, <3>2, CommittingTask
  <2>4. QED
    BY <2>2, <2>3
<1>3. CASE publishToolOutcome(i)
  <2>1. JobAt(i, "outcome") /\ drive' = drive
    BY <1>3 DEF publishToolOutcome
  <2>2. IsStore(store)
    BY DEF IndInv, StoreInv
  <2>3. \E vals, leaf : SettleCommit([store EXCEPT !.vals = vals], mem, WithLeaf(leaf), FALSE)
    BY <1>3, <2>2 DEF publishToolOutcome, IsStore, WithCall
  <2>4. QED
    BY <2>1, <2>3, CommittingTask
<1>4. CASE clearReplayCheckpoint(i)
  <2>1. JobAt(i, "clear") /\ drive' = drive /\ mem' = mem
    BY <1>4 DEF clearReplayCheckpoint, Faulted
  <2>2. store' = store \/ \E vals : store' = [store EXCEPT !.vals = vals]
    BY <1>4 DEF clearReplayCheckpoint, Faulted, IndInv, StoreInv, IsStore
  <2>3. CASE store' = store
    BY <2>1, <2>3, QuietTask
  <2>4. CASE \E vals : store' = [store EXCEPT !.vals = vals]
    BY <2>1, <2>4, ValsOnly, TaskPass
  <2>5. QED
    BY <2>2, <2>3, <2>4
<1>5. CASE jobReadsPlacement(i)
  <2>1. JobAt(i, "place") /\ drive' = drive /\ store' = store /\ mem' = mem
    BY <1>5 DEF jobReadsPlacement, Faulted
  <2>2. QED
    BY <2>1, QuietTask
<1>6. CASE jobCommitsPlacement(i)
  <2>1. JobAt(i, "placing") /\ drive' = drive /\ PlaceItems(jobs[i].out)
    BY <1>6 DEF jobCommitsPlacement
  <2>2. StoreInv /\ mem # Null /\ store.lane.cur # Null
    BY <2>1, TaskFacts
  <2>3. StoreInv' /\ PhaseMap' = PhaseMap /\ store'.lane.cur = store.lane.cur
    BY <2>1, <2>2, PlaceItemsStep
  <2>4. QED
    BY <2>1, <2>3, TaskPass
<1>7. QED
  BY <1>1, <1>2, <1>3, <1>4, <1>5, <1>6 DEF JobStep

-----------------------------------------------------------------------------
(* The invariant and the refinement.                                       *)

\* Every step of the harness keeps the invariant and is a lifecycle step of one
\* operation or leaves every phase alone.
LEMMA NextStep ==
  ASSUME IndInv, [Next]_vars
  PROVE  IndInv' /\ (PhaseMap' = PhaseMap \/ Lifecycle!Next)
<1>1. CASE UNCHANGED vars
  <2>1. store' = store /\ mem' = mem /\ drive' = drive /\ jobs' = jobs
    BY <1>1 DEF vars, laneVars, toolVars
  <2>2. QED
    BY <2>1, QuietMoveStep DEF QuietMove
<1>2. CASE (HostStep \/ DriveCallStep \/ LineStep \/ RunStep) /\ UNCHANGED <<toolVars, stops>>
  <2>1. jobs' = jobs
    BY <1>2 DEF toolVars
  <2>2. QED
    BY <1>2, <2>1, HostStepStep, DriveCallStepStep, installDriveStep, commitAbortStep, RunStepStep DEF LineStep
<1>3. CASE BatchStep \/ (\E i \in DOMAIN jobs : JobStep(i)) \/ ProgressStep \/ RestoreStep
  BY <1>3, BatchStepStep, JobStepStep, ProgressStepStep, RestoreStepStep
<1>4. CASE StopStep
  BY <1>4, StopStepStep
<1>5. QED
  BY <1>1, <1>2, <1>3, <1>4 DEF Next, Rest

\* IndInv is an invariant of the harness.
THEOREM Invariance == Spec => []IndInv
<1>1. IndInv /\ [Next]_vars => IndInv'
  BY NextStep
<1>2. QED
  BY <1>1, InitIndInv, PTL DEF Spec

\* The projection every command publishes is what a restart restores from
\* storage, whatever commands, passes, tools, aborts and process losses happened
\* (lane.ts command, settleOperation; restore.ts restoreLaneState).
THEOREM ProjectionCoherent == Spec => []Coherent
<1>1. IndInv => Coherent
  BY DEF IndInv, StoreInv
<1>2. QED
  BY <1>1, Invariance, PTL

\* A pass owns the lane's current operation between any two of its awaits, and
\* tasks of tool calls never outlive the join that waits for them (lane.ts drive,
\* settleOperation; tools.ts runSequential, runParallel).
THEOREM OperationOwned == Spec => []PassOwnsOperation
<1>1. IndInv => PassOwnsOperation
  BY DEF IndInv
<1>2. QED
  BY <1>1, Invariance, PTL

\* The harness implements the lifecycle of operations: one open at a time, one
\* immutable result, and a recorded cancellation ends as "aborted" and nothing
\* else does (lane.ts acceptRun, settleOperation, requestOperationAbort).
THEOREM Refinement == Spec => ImplementsLifecycle
<1>1. Init => Lifecycle!Init
  BY NullAssumption DEF Init, LaneInit, durableLaneState, PhaseOf, Lifecycle!Init, NoResult
<1>2. IndInv /\ [Next]_vars => [Lifecycle!Next]_PhaseMap
  BY NextStep
<1>3. QED
  BY <1>1, <1>2, Invariance, PTL DEF Spec, ImplementsLifecycle, Lifecycle!Spec, PhaseMap
-----------------------------------------------------------------------------
(***************************************************************************)
(* A cancellation on disk admits nothing (EffectsOnlyWhileRunning), and a   *)
(* pass released from its wait for one finds it recorded                    *)
(* (ReleasedMeansCancelled).                                               *)
(*                                                                         *)
(* The gate alone does not give this: an abort that sampled the lane before *)
(* the pass was installed never signals its gate.  What does is the order   *)
(* of the mutation line.  Such an abort is ahead of the first command of    *)
(* the pass (LineAgrees), so it is on disk before the pass reads the state  *)
(* for the first time; from then on an open gate means that the operation  *)
(* runs (OpenIsRunning).                                                    *)
(***************************************************************************)

\* The awaits at which a pass waits for a command of its own.
MainPcs ==
  {"start.read", "start.commit", "checkpoint.commit", "finish.read", "finish.commit",
   "request.read", "request.intent", "fail.commit", "recover.read", "publish", "settle.read",
   "tools.source", "poll.read", "poll.intent", "cancel.handle", "cancel.finish", "retry.commit",
   "place.read", "place.commit"}

\* Where a pass may be before its first command has run.
EarlyPcs == {"none", "done", "begin", "before_drive", "loop", "timer", "wait"}

Token ==
  [who : {"main"}] \cup [who : {"abort"}, op : OpIds, sampled : BOOLEAN]
    \cup [who : {"drive"}, op : OpIds, mode : DriveModes]

Mains == {i \in DOMAIN line : line[i].who = "main"}
Aborts == {i \in DOMAIN line : line[i].who = "abort"}

\* Aborts of the pass's operation that will not signal its gate.
Unsampled == {i \in Aborts : line[i].op = drive.id /\ ~line[i].sampled}

LineAgrees ==
  /\ line \in Seq(Token)
  /\ \A i \in Aborts : line[i].sampled => line[i].op = drive.id
  /\ \A i, j \in Mains : i = j
  /\ Mains # {} => drive.pc \in MainPcs
  /\ Unsampled # {} => drive.pc \in EarlyPcs \cup MainPcs
  /\ \A i \in Unsampled, j \in Mains : i < j

Phase == PhaseOf(store, drive.id)

PassHasOperation == drive.pc \notin {"none", "done"} => Phase \in {"running", "cancelling"}

ReleasedIsCancelling ==
  drive.released /\ drive.pc \notin {"none", "done"} => Phase = "cancelling"

\* Awaits and tasks that go on to an effect when the gate lets them.
OpenPcs == {"request.admit", "request.transform", "poll.admit", "parallel"}
OpenJobs == {"before", "intent", "clear", "admit"}

JobsOpen == \E i \in DOMAIN jobs : jobs[i].pc \in OpenJobs

OpenIsRunning == GateOpen /\ (drive.pc \in OpenPcs \/ JobsOpen) => Phase = "running"

\* Where a placement of the pass goes on, and what the pass carries there.
BatchPcs == {"place.read", "place.commit", "tools.begin", "sequential", "sequential.join", "parallel"}
Returns == {"tools.begin", "sequential", "loop"}

IsBatchArg(a) ==
  /\ a = [mode |-> a.mode, after |-> a.after, turns |-> a.turns, items |-> a.items]
  /\ a.after \in Returns

PlacementReturns == drive.pc \in BatchPcs => IsBatchArg(drive.arg)

\* The tasks of a batch are tasks.
IsJob(j) == j = [pc |-> j.pc, out |-> j.out, ran |-> j.ran]
TasksAreJobs == \A i \in DOMAIN jobs : IsJob(jobs[i])

GateInv ==
  /\ PassHasOperation /\ ReleasedIsCancelling
  /\ LineAgrees /\ OpenIsRunning /\ PlacementReturns /\ TasksAreJobs

-----------------------------------------------------------------------------
(* The mutation line.                                                      *)

SameGate == drive'.id = drive.id /\ drive'.gate = drive.gate /\ drive'.released = drive.released

\* A command of the pass has run; the pass may queue another one.
TurnMove ==
  /\ HeadIs("main") /\ SameGate
  /\ line' = Tail(line) \/ (line' = Append(Tail(line), MainToken) /\ drive'.pc \in MainPcs)

\* Something else the pass awaited has settled.
AwaitMove ==
  /\ drive.pc \notin MainPcs /\ SameGate
  /\ \/ line' = line /\ (drive.pc \notin EarlyPcs \/ drive'.pc \in EarlyPcs)
     \/ line' = Append(line, MainToken) /\ drive'.pc \in MainPcs

Move == TurnMove \/ AwaitMove \/ (drive' = drive /\ line' = line)

\* What remains of the line when its first command has run.
LEMMA TailLine ==
  ASSUME line \in Seq(Token), line # <<>>, line' = Tail(line)
  PROVE  /\ line' \in Seq(Token)
         /\ \A i \in DOMAIN line' : i \in Nat /\ i + 1 \in DOMAIN line /\ i + 1 # 1 /\ line'[i] = line[i + 1]
BY HeadTailProperties, EmptySeq

\* What the line is when a command has joined it.
LEMMA JoinLine ==
  ASSUME NEW l \in Seq(Token), NEW t \in Token, line' = Append(l, t)
  PROVE  /\ line' \in Seq(Token) /\ Len(l) + 1 \in DOMAIN line' /\ line'[Len(l) + 1] = t
         /\ \A i \in DOMAIN line' : /\ i \in Nat /\ i <= Len(l) + 1
                                    /\ i # Len(l) + 1 => i \in DOMAIN l /\ line'[i] = l[i]
         /\ Len(l) \in Nat
BY AppendProperties, LenProperties

\* A step of the pass keeps the order of the line.
LEMMA MoveLine ==
  ASSUME LineAgrees, Move
  PROVE  LineAgrees'
<1>1. line \in Seq(Token)
  BY DEF LineAgrees
<1>2. CASE drive' = drive /\ line' = line
  BY <1>2 DEF LineAgrees, Mains, Aborts, Unsampled
<1>3. CASE TurnMove
  <2>1. line # <<>> /\ 1 \in Mains
    BY <1>1, <1>3, HeadTailProperties, EmptySeq DEF TurnMove, HeadIs, Mains
  <2>2. \A i \in DOMAIN line : i # 1 => line[i].who # "main"
    BY <2>1 DEF LineAgrees, Mains
  <2>3. Unsampled = {}
    <3>1. \A i \in DOMAIN line : ~(i < 1)
      BY <1>1, LenProperties
    <3>2. QED
      BY <2>1, <3>1 DEF LineAgrees, Unsampled, Aborts
  <2>4. \A i \in DOMAIN line :
          line[i].who = "abort" => /\ line[i].op = drive.id => line[i].sampled
                                   /\ line[i].sampled => line[i].op = drive.id
    BY <2>3 DEF LineAgrees, Unsampled, Aborts
  <2>5. Tail(line) \in Seq(Token) /\ Len(Tail(line)) \in Nat
        /\ \A i \in DOMAIN Tail(line) :
             /\ i \in Nat /\ Tail(line)[i].who # "main"
             /\ Tail(line)[i].who = "abort" => /\ Tail(line)[i].op = drive.id => Tail(line)[i].sampled
                                               /\ Tail(line)[i].sampled => Tail(line)[i].op = drive.id
    <3>1. Tail(line) \in Seq(Token) /\ Len(Tail(line)) \in Nat
          /\ \A i \in DOMAIN Tail(line) : i \in Nat /\ i + 1 \in DOMAIN line /\ i + 1 # 1 /\ Tail(line)[i] = line[i + 1]
      BY <1>1, <2>1, HeadTailProperties, EmptySeq, LenProperties
    <3>2. QED
      BY <2>2, <2>4, <3>1
  <2>6. CASE line' = Tail(line)
    BY <1>3, <2>5, <2>6 DEF LineAgrees, Mains, Aborts, Unsampled, TurnMove, SameGate
  <2>7. CASE line' = Append(Tail(line), MainToken) /\ drive'.pc \in MainPcs
    <3>1. MainToken \in Token /\ MainToken.who = "main"
      BY DEF MainToken, Token
    <3>2. PICK l : l = Tail(line)
      OBVIOUS
    <3>3. /\ line' \in Seq(Token) /\ Len(l) + 1 \in DOMAIN line' /\ line'[Len(l) + 1] = MainToken
          /\ \A i \in DOMAIN line' : /\ i \in Nat /\ i <= Len(l) + 1
                                     /\ i # Len(l) + 1 => i \in DOMAIN l /\ line'[i] = l[i]
          /\ Len(l) \in Nat
      BY <2>5, <2>7, <3>1, <3>2, JoinLine
    <3>4. \A i \in DOMAIN line' :
            /\ line'[i].who = "main" => i = Len(l) + 1
            /\ line'[i].who = "abort" => /\ line'[i].op = drive.id => line'[i].sampled
                                         /\ line'[i].sampled => line'[i].op = drive.id
      BY <2>5, <3>1, <3>2, <3>3
    <3>5. drive'.id = drive.id
      BY <1>3 DEF TurnMove, SameGate
    <3>6. QED
      BY <2>7, <3>3, <3>4, <3>5 DEF LineAgrees, Mains, Aborts, Unsampled
  <2>8. QED
    BY <1>3, <2>6, <2>7 DEF TurnMove
<1>4. CASE AwaitMove
  <2>1. Mains = {} /\ drive'.id = drive.id
    BY <1>4 DEF LineAgrees, AwaitMove, SameGate
  <2>2. CASE line' = line /\ (drive.pc \notin EarlyPcs \/ drive'.pc \in EarlyPcs)
    BY <1>4, <2>1, <2>2 DEF LineAgrees, Mains, Aborts, Unsampled, AwaitMove
  <2>3. CASE line' = Append(line, MainToken) /\ drive'.pc \in MainPcs
    <3>1. MainToken \in Token /\ MainToken.who = "main"
      BY DEF MainToken, Token
    <3>2. /\ line' \in Seq(Token) /\ Len(line) + 1 \in DOMAIN line' /\ line'[Len(line) + 1] = MainToken
          /\ \A i \in DOMAIN line' : /\ i \in Nat /\ i <= Len(line) + 1
                                     /\ i # Len(line) + 1 => i \in DOMAIN line /\ line'[i] = line[i]
          /\ Len(line) \in Nat
      BY <1>1, <2>3, <3>1, JoinLine
    <3>3. \A i \in DOMAIN line' :
            /\ line'[i].who = "main" => i = Len(line) + 1
            /\ line'[i].who = "abort" => i \in DOMAIN line /\ line'[i] = line[i] /\ i < Len(line) + 1
      BY <2>1, <3>1, <3>2 DEF Mains
    <3>4. QED
      BY <2>1, <2>3, <3>2, <3>3 DEF LineAgrees, Mains, Aborts, Unsampled
  <2>4. QED
    BY <1>4, <2>2, <2>3 DEF AwaitMove
<1>5. QED
  BY <1>2, <1>3, <1>4 DEF Move

\* Tokens of other commands leave and join the line while the pass stays where it is.
LEMMA LeaveLine ==
  ASSUME LineAgrees, line # <<>>, line' = Tail(line), drive'.id = drive.id, drive'.pc = drive.pc
  PROVE  LineAgrees'
<1>1. line \in Seq(Token)
  BY DEF LineAgrees
<1>2. /\ line' \in Seq(Token)
      /\ \A i \in DOMAIN line' : i \in Nat /\ i + 1 \in DOMAIN line /\ i + 1 # 1 /\ line'[i] = line[i + 1]
  BY <1>1, TailLine
<1>3. /\ \A i \in Mains' : i \in Nat /\ i + 1 \in Mains
      /\ \A i \in Aborts' : i \in Nat /\ i + 1 \in Aborts /\ line'[i] = line[i + 1]
      /\ \A i \in Unsampled' : i \in Nat /\ i + 1 \in Unsampled
  BY <1>2 DEF Mains, Aborts, Unsampled
<1>4. \A i \in Aborts' : line'[i].sampled => line'[i].op = drive'.id
  BY <1>3 DEF LineAgrees
<1>5. \A i, j \in Mains' : i = j
  <2> SUFFICES ASSUME NEW i \in Mains', NEW j \in Mains' PROVE i = j
    OBVIOUS
  <2>1. i + 1 = j + 1
    BY <1>3 DEF LineAgrees
  <2>2. QED
    BY <1>3, <2>1
<1>6. \A i \in Unsampled', j \in Mains' : i < j
  <2> SUFFICES ASSUME NEW i \in Unsampled', NEW j \in Mains' PROVE i < j
    OBVIOUS
  <2>1. i + 1 < j + 1
    BY <1>3 DEF LineAgrees
  <2>2. QED
    BY <1>3, <2>1
<1>7. (Mains' # {} => drive'.pc \in MainPcs) /\ (Unsampled' # {} => drive'.pc \in EarlyPcs \cup MainPcs)
  BY <1>3 DEF LineAgrees
<1>8. QED
  BY <1>2, <1>4, <1>5, <1>6, <1>7 DEF LineAgrees

\* A command that is not of the pass joins the line.
LEMMA EnterLine ==
  ASSUME LineAgrees, NEW t \in Token, line' = Append(line, t), drive'.id = drive.id, drive'.pc = drive.pc,
         t.who # "main", t.who = "abort" => (t.sampled <=> t.op = drive.id)
  PROVE  LineAgrees'
<1>1. line \in Seq(Token)
  BY DEF LineAgrees
<1>2. /\ line' \in Seq(Token) /\ Len(line) + 1 \in DOMAIN line' /\ line'[Len(line) + 1] = t
      /\ \A i \in DOMAIN line' : /\ i \in Nat /\ i <= Len(line) + 1
                                 /\ i # Len(line) + 1 => i \in DOMAIN line /\ line'[i] = line[i]
      /\ Len(line) \in Nat
  BY <1>1, JoinLine
<1>3. /\ \A i \in Mains' : i \in Mains
      /\ \A i \in Unsampled' : i \in Unsampled
      /\ \A i \in Aborts' : line'[i].sampled => line'[i].op = drive'.id
  BY <1>2 DEF Mains, Aborts, Unsampled, LineAgrees
<1>4. QED
  BY <1>2, <1>3 DEF LineAgrees

\* A pass that ends takes its token and its signals with it.
LEMMA NoPassLine ==
  ASSUME LineAgrees, drive.pc \notin MainPcs, drive.id \in OpIds \cup {Null},
         drive' = NoDrive,
         line' = [i \in DOMAIN line |-> IF line[i].who = "abort" THEN AbortToken(line[i].op, FALSE) ELSE line[i]]
  PROVE  LineAgrees'
<1>1. line \in Seq(Token) /\ Mains = {}
  BY DEF LineAgrees
<1>2. \A i \in DOMAIN line : line[i] \in Token
  BY <1>1, ElementOfSeq, LenProperties
<1>3. \A i \in DOMAIN line : line[i].who = "abort" => line[i].op \in OpIds
  BY <1>2 DEF Token
<1>4. \A i \in DOMAIN line' : line'[i] \in Token /\ line'[i].who # "main"
  <2> SUFFICES ASSUME NEW i \in DOMAIN line' PROVE line'[i] \in Token /\ line'[i].who # "main"
    OBVIOUS
  <2>1. i \in DOMAIN line
    OBVIOUS
  <2>2. CASE line[i].who = "abort"
    <3>1. line'[i] = AbortToken(line[i].op, FALSE) /\ line[i].op \in OpIds
      BY <1>3, <2>1, <2>2
    <3>2. QED
      BY <3>1 DEF AbortToken, Token
  <2>3. CASE line[i].who # "abort"
    BY <1>1, <1>2, <2>1, <2>3 DEF Mains
  <2>4. QED
    BY <2>2, <2>3
<1>5. line' \in Seq(Token)
  <2>1. DOMAIN line' = 1..Len(line) /\ Len(line) \in Nat
    BY <1>1, LenProperties
  <2>2. line' \in [1..Len(line) -> Token]
    BY <1>4, <2>1
  <2>3. QED
    BY <2>1, <2>2, SeqDef
<1>6. \A i \in Aborts' : line'[i].op \in OpIds /\ line'[i].sampled = FALSE
  BY <1>3 DEF Aborts, AbortToken
<1>7. Mains' = {} /\ Unsampled' = {}
  <2>1. drive'.id = Null /\ Null \notin OpIds
    BY NullAssumption DEF NoDrive
  <2>2. Mains' = {}
    BY <1>4 DEF Mains
  <2>3. Unsampled' = {}
    BY <1>6, <2>1 DEF Unsampled
  <2>4. QED
    BY <2>2, <2>3
<1>8. QED
  BY <1>5, <1>6, <1>7 DEF LineAgrees

\* A pass that is installed finds no signal and no token of a pass.
LEMMA NewPassLine ==
  ASSUME LineAgrees, drive.id = Null, drive.pc \notin MainPcs, line # <<>>, line' = Tail(line),
         NEW op \in OpIds, NEW mode, drive' = newDrive(op, mode)
  PROVE  LineAgrees'
<1>1. line \in Seq(Token) /\ Mains = {}
  BY DEF LineAgrees
<1>2. \A i \in DOMAIN line : line[i].who = "abort" => line[i].op # Null
  <2>1. \A i \in DOMAIN line : line[i] \in Token
    BY <1>1, ElementOfSeq, LenProperties
  <2>2. QED
    BY <2>1, NullAssumption DEF Token
<1>3. \A i \in DOMAIN line : line[i].who = "abort" => ~line[i].sampled
  BY <1>2 DEF LineAgrees, Aborts
<1>4. /\ line' \in Seq(Token)
      /\ \A i \in DOMAIN line' : i \in Nat /\ i + 1 \in DOMAIN line /\ i + 1 # 1 /\ line'[i] = line[i + 1]
  BY <1>1, TailLine
<1>5. Mains' = {} /\ \A i \in Aborts' : ~line'[i].sampled
  BY <1>1, <1>3, <1>4 DEF Mains, Aborts
<1>6. drive'.pc \in EarlyPcs
  BY DEF newDrive, EarlyPcs
<1>7. QED
  BY <1>4, <1>5, <1>6 DEF LineAgrees

-----------------------------------------------------------------------------
(* What the pass and its tasks admit.                                      *)

\* The phase of the pass's operation is what the projection says of it.
LEMMA ControlIsPhase ==
  ASSUME IndInv, mem # Null, store.lane.cur = drive.id, drive.id \in OpIds
  PROVE  Phase = IF Cancelled THEN "cancelling" ELSE "running"
BY NullAssumption DEF IndInv, StoreInv, Coherent, restoreLaneState, Phase, PhaseOf, Cancelled

\* A step that keeps every phase keeps the phase of every operation.
LEMMA SamePhase ==
  ASSUME PhaseMap' = PhaseMap, NEW op \in OpIds
  PROVE  PhaseOf(store, op)' = PhaseOf(store, op)
BY DEF PhaseMap

Admitting == OpenPcs \cup EffectPcs

\* The pass reaches the await of an effect, or one from which it goes on to an effect,
\* only while its operation runs.
Admission == drive'.pc \in Admitting /\ drive'.pc # drive.pc => Phase = "running"

\* So do the tasks of tool calls.
JobAdmission ==
  /\ GateOpen /\ JobsOpen' => Phase = "running"
  /\ \A i \in DOMAIN jobs' :
       jobs'[i].pc \in EffectJobs /\ (i \notin DOMAIN jobs \/ jobs[i].pc # jobs'[i].pc) => Phase = "running"

\* The gate of a pass never opens, and nobody is released from it before the cancellation.
GateMove ==
  /\ drive'.id = drive.id
  /\ drive'.gate = "open" => drive.gate = "open"
  /\ drive'.released => drive.released \/ Phase = "cancelling"

\* A step of the pass or of a task that leaves every operation in its phase.
LEMMA GateStep ==
  ASSUME IndInv, GateInv, PhaseMap' = PhaseMap, drive.id \in OpIds, drive.pc \notin {"none", "done"},
         GateMove, Admission, JobAdmission
  PROVE  PassHasOperation' /\ ReleasedIsCancelling' /\ OpenIsRunning' /\ EffectsOnlyWhileRunningStep
<1>1. Phase' = Phase
  BY SamePhase DEF GateMove, Phase
<1>2. PassHasOperation'
  BY <1>1 DEF GateInv, PassHasOperation
<1>3. ReleasedIsCancelling'
  BY <1>1 DEF GateInv, ReleasedIsCancelling, GateMove
<1>4. OpenIsRunning'
  BY <1>1 DEF GateInv, OpenIsRunning, GateMove, Admission, Admitting, JobAdmission, GateOpen
<1>5. EffectsOnlyWhileRunningStep
  BY DEF EffectsOnlyWhileRunningStep, GateMove, Admission, Admitting, JobAdmission, Phase
<1>6. QED
  BY <1>2, <1>3, <1>4, <1>5

\* Steps in which neither the pass nor a task moves on, and operations may be accepted.
LEMMA StillStep ==
  ASSUME IndInv, GateInv, drive'.id = drive.id, drive'.pc = drive.pc, jobs' = jobs,
         drive'.gate = "open" => drive.gate = "open",
         drive'.released = drive.released,
         drive.pc \notin {"none", "done"} => Phase' = Phase
  PROVE  PassHasOperation' /\ ReleasedIsCancelling' /\ OpenIsRunning' /\ EffectsOnlyWhileRunningStep
<1>1. JobsOpen' = JobsOpen
  BY DEF JobsOpen
<1>2. drive.pc \in {"none", "done"} => ~JobsOpen
  BY DEF JobsOpen, OpenJobs, IndInv, PassOwnsOperation
<1>3. QED
  BY <1>1, <1>2 DEF GateInv, PassHasOperation, ReleasedIsCancelling, OpenIsRunning, GateOpen, OpenPcs,
     EffectsOnlyWhileRunningStep

\* What a step of the pass does to its place and to the line.
PassMove ==
  /\ drive.pc \notin {"none", "done"}
  /\ Move /\ Admission
  /\ drive' = drive \/ drive'.pc \notin BatchPcs

\* A pass that faults the harness stays where it is.
LEMMA FaultedMove ==
  ASSUME Faulted, drive.pc \notin {"none", "done"}
  PROVE  PassMove
BY DEF Faulted, PassMove, Move, Admission

\* A command of the pass that ends with its turn.
LEMMA TurnMoves ==
  ASSUME IsDrive(drive), NEW from, from \in MainPcs, MainTurn(from), line' = Tail(line),
         NEW pc, NEW arg, Goto(pc, arg), pc \notin BatchPcs, pc \in Admitting => Phase = "running"
  PROVE  PassMove
<1>1. SameGate /\ drive'.pc = pc
  BY DEF Goto, IsDrive, SameGate
<1>2. QED
  BY <1>1 DEF MainTurn, At, PassMove, Move, TurnMove, Admission, MainPcs

\* An await outside the line that goes on to another one.
LEMMA AwaitMoves ==
  ASSUME IsDrive(drive), NEW from, from \notin MainPcs \cup {"none", "done"}, At(from), line' = line,
         NEW pc, NEW arg, Goto(pc, arg), pc \notin BatchPcs, from \in EarlyPcs => pc \in EarlyPcs,
         pc \in Admitting => Phase = "running"
  PROVE  PassMove
<1>1. SameGate /\ drive'.pc = pc
  BY DEF Goto, IsDrive, SameGate
<1>2. QED
  BY <1>1 DEF At, PassMove, Move, AwaitMove, Admission

\* An await outside the line after which the pass queues a command.
LEMMA QueueMoves ==
  ASSUME IsDrive(drive), NEW from, from \notin MainPcs \cup {"none", "done"}, At(from),
         NEW pc, NEW arg, Queue(pc, arg), pc \in MainPcs \ BatchPcs
  PROVE  PassMove
<1>1. SameGate /\ drive'.pc = pc
  BY DEF Queue, Goto, IsDrive, SameGate
<1>2. pc \notin Admitting
  BY DEF MainPcs, Admitting, OpenPcs, EffectPcs
<1>3. QED
  BY <1>1, <1>2 DEF Queue, At, PassMove, Move, AwaitMove, Admission

\* A command of the pass that queues its next one.
LEMMA TurnQueues ==
  ASSUME IsDrive(drive), NEW from, from \in MainPcs, MainTurn(from), line' = Append(Tail(line), MainToken),
         SameGate, drive'.pc \in MainPcs \ BatchPcs
  PROVE  PassMove
<1>1. drive'.pc \notin Admitting
  BY DEF MainPcs, Admitting, OpenPcs, EffectPcs
<1>2. QED
  BY <1>1 DEF MainTurn, At, PassMove, Move, TurnMove, Admission, MainPcs

\* continueOperation's answer for a cancelled operation sends the pass back to the loop.
LEMMA CancelledMoves ==
  ASSUME IsDrive(drive), NEW from, from \in MainPcs, CancelledTurn(from)
  PROVE  PassMove
<1>1. MainTurn(from) /\ line' = Tail(line) /\ Goto("loop", Null)
  BY DEF CancelledTurn
<1>2. "loop" \notin BatchPcs \cup Admitting
  BY DEF BatchPcs, Admitting, OpenPcs, EffectPcs
<1>3. QED
  BY <1>1, <1>2, TurnMoves

\* Gate.admit after a read: the hook starts only while the operation runs.
LEMMA ReadMoves ==
  ASSUME IndInv, NEW from, from \in MainPcs, NEW broken, NEW hook, hook \notin BatchPcs,
         ReadThenHook(from, broken, hook)
  PROVE  PassMove
<1>1. MainTurn(from) /\ drive.pc = from /\ Driving
  BY DEF ReadThenHook, MainTurn, At
<1>2. IsDrive(drive) /\ drive.pc \notin {"none", "begin", "done"}
  BY <1>1 DEF IndInv, DriveShape, MainPcs
<1>3. Phase = IF Cancelled THEN "cancelling" ELSE "running"
  BY <1>1, <1>2, PassFacts, ControlIsPhase
<1>4. "loop" \notin BatchPcs \cup Admitting /\ "wait" \notin BatchPcs \cup Admitting
  BY DEF BatchPcs, Admitting, OpenPcs, EffectPcs
<1>5. CASE ~Cancelled /\ broken
  BY <1>2, <1>5, FaultedMove DEF ReadThenHook
<1>6. CASE ~(~Cancelled /\ broken)
  <2>1. /\ line' = Tail(line)
        /\ CASE Cancelled -> Goto("loop", Null)
             [] ~GateOpen -> Goto("wait", Null)
             [] OTHER     -> Goto(hook, drive.arg)
    BY <1>6 DEF ReadThenHook
  <2>2. \/ Cancelled /\ Goto("loop", Null)
        \/ Goto("wait", Null)
        \/ ~Cancelled /\ Goto(hook, drive.arg)
    BY <2>1
  <2>3. QED
    BY <1>1, <1>2, <1>3, <1>4, <2>1, <2>2, TurnMoves
<1>7. QED
  BY <1>5, <1>6

\* A hook that has returned: the pass queues its next command.
LEMMA HookMoves ==
  ASSUME IsDrive(drive), NEW from, from \notin MainPcs \cup {"none", "done"},
         NEW next, next \in MainPcs \ BatchPcs, NEW results, HookReturns(from, next, results)
  PROVE  PassMove
BY QueueMoves DEF HookReturns

\* What holds of a pass that waits for anything but its own claim.
LEMMA AtAwait ==
  ASSUME IndInv, NEW from, from \notin {"none", "begin", "done"}, At(from)
  PROVE  /\ IsDrive(drive) /\ drive.id \in OpIds /\ drive.pc = from
         /\ Phase = IF Cancelled THEN "cancelling" ELSE "running"
BY PassFacts, ControlIsPhase DEF At

\* The pass reads the state for the first time.
LEMMA BeginMoves ==
  ASSUME IndInv, beginDrive
  PROVE  PassMove
<1>1. At("begin") /\ drive.pc = "begin" /\ drive.id # Null /\ mem # Null
  BY DEF beginDrive, At, Driving, Open
<1>2. IsDrive(drive) /\ drive.id \in OpIds
  BY <1>1 DEF IndInv, DriveShape, PassOwnsOperation
<1>3. CASE ~Busy \/ mem.op.id # drive.id
  BY <1>1, <1>3, FaultedMove DEF beginDrive
<1>4. CASE Busy /\ mem.op.id = drive.id
  <2>1. store.lane.cur = drive.id
    BY <1>1, <1>4 DEF IndInv, StoreInv, Coherent, restoreLaneState, NoOperation, Busy
  <2>2. Phase = IF Cancelled THEN "cancelling" ELSE "running"
    BY <1>1, <1>2, <2>1, ControlIsPhase
  <2>3. line' = line /\ (Goto("loop", Null) \/ Goto("wait", Null) \/ (~Cancelled /\ Goto("before_drive", Null)))
    BY <1>4 DEF beginDrive
  <2>4. "begin" \notin MainPcs \cup {"none", "done"} /\ "begin" \in EarlyPcs
    BY DEF MainPcs, EarlyPcs
  <2>5. /\ "loop" \notin BatchPcs \cup Admitting /\ "wait" \notin BatchPcs \cup Admitting /\ "before_drive" \notin BatchPcs
        /\ "loop" \in EarlyPcs /\ "wait" \in EarlyPcs /\ "before_drive" \in EarlyPcs
    BY DEF BatchPcs, Admitting, OpenPcs, EffectPcs, EarlyPcs
  <2>6. QED
    BY <1>1, <1>2, <2>2, <2>3, <2>4, <2>5, AwaitMoves
<1>5. QED
  BY <1>3, <1>4

\* Admissions of the pass, retry timers, hooks and replies.
LEMMA AwaitRuns ==
  ASSUME IndInv, OpenIsRunning,
         \/ awaitCancellation \/ beforeDriveReturns \/ runRetryWait \/ retryTimer
         \/ beforeRunReturns \/ beforeRunEndReturns \/ beforeRequestReturns \/ afterResponseReturns \/ beforePollReturns
         \/ admitTransform \/ admitRequest \/ admitPoll \/ providerReplies \/ droppedResponse \/ cancelDeferredBestEffort
  PROVE  PassMove
<1> USE DEF MainPcs, EarlyPcs, BatchPcs, Admitting, OpenPcs, EffectPcs
<1>1. CASE awaitCancellation
  BY <1>1, AtAwait, AwaitMoves DEF awaitCancellation
<1>2. CASE beforeDriveReturns
  <2>1. Faulted \/ (Goto("loop", Null) /\ line' = line)
    BY <1>2 DEF beforeDriveReturns
  <2>2. At("before_drive") /\ drive.pc = "before_drive"
    BY <1>2 DEF beforeDriveReturns, At
  <2>3. QED
    BY <2>1, <2>2, AtAwait, AwaitMoves, FaultedMove
<1>3. CASE runRetryWait
  <2>1. At("loop") /\ ~Cancelled
    BY <1>3 DEF runRetryWait
  <2>2. IsDrive(drive) /\ drive.pc = "loop" /\ Phase = "running"
    BY <2>1, AtAwait
  <2>3. SameGate /\ \/ drive'.pc = "retry.commit" /\ line' = Append(line, MainToken)
                    \/ drive'.pc \in {"done", "timer", "wait"} /\ line' = line
    BY <1>3, <2>2 DEF runRetryWait, Goto, IsDrive, SameGate
  <2>4. QED
    BY <2>2, <2>3 DEF PassMove, Move, AwaitMove, Admission
<1>4. CASE retryTimer
  <2>1. At("timer") /\ (Queue("retry.commit", Null) \/ (Goto("wait", Null) /\ line' = line))
    BY <1>4 DEF retryTimer
  <2>2. QED
    BY <2>1, AtAwait, AwaitMoves, QueueMoves
<1>5. CASE beforeRunReturns
  <2>1. At("start.hook")
    BY <1>5 DEF beforeRunReturns, HookReturns
  <2>2. QED
    BY <1>5, <2>1, AtAwait, HookMoves DEF beforeRunReturns
<1>6. CASE beforeRunEndReturns
  <2>1. At("finish.hook")
    BY <1>6 DEF beforeRunEndReturns, HookReturns
  <2>2. QED
    BY <1>6, <2>1, AtAwait, HookMoves DEF beforeRunEndReturns
<1>7. CASE beforeRequestReturns
  <2>1. At("request.hook")
    BY <1>7 DEF beforeRequestReturns, HookReturns
  <2>2. QED
    BY <1>7, <2>1, AtAwait, HookMoves DEF beforeRequestReturns
<1>8. CASE afterResponseReturns
  <2>1. At("request.after")
    BY <1>8 DEF afterResponseReturns, HookReturns
  <2>2. QED
    BY <1>8, <2>1, AtAwait, HookMoves DEF afterResponseReturns
<1>9. CASE beforePollReturns
  <2>1. At("poll.hook")
    BY <1>9 DEF beforePollReturns, HookReturns
  <2>2. QED
    BY <1>9, <2>1, AtAwait, HookMoves DEF beforePollReturns
<1>10. CASE admitTransform
  <2>1. At("request.admit") /\ drive.pc = "request.admit" /\ line' = line
    BY <1>10 DEF admitTransform, At
  <2>2. GateOpen => Phase = "running"
    BY <2>1 DEF OpenIsRunning
  <2>3. (GateOpen /\ Goto("request.transform", Null)) \/ Goto("wait", Null)
    BY <1>10 DEF admitTransform
  <2>4. QED
    BY <2>1, <2>2, <2>3, AtAwait, AwaitMoves
<1>11. CASE admitRequest
  <2>1. At("request.transform") /\ drive.pc = "request.transform" /\ line' = line
    BY <1>11 DEF admitRequest, At
  <2>2. GateOpen => Phase = "running"
    BY <2>1 DEF OpenIsRunning
  <2>3. (GateOpen /\ Goto("request.effect", Null)) \/ Goto("wait", Null)
    BY <1>11 DEF admitRequest
  <2>4. QED
    BY <2>1, <2>2, <2>3, AtAwait, AwaitMoves
<1>12. CASE admitPoll
  <2>1. At("poll.admit") /\ drive.pc = "poll.admit" /\ line' = line
    BY <1>12 DEF admitPoll, At
  <2>2. GateOpen => Phase = "running"
    BY <2>1 DEF OpenIsRunning
  <2>3. (GateOpen /\ Goto("request.effect", Null)) \/ Goto("wait", Null)
    BY <1>12 DEF admitPoll
  <2>4. QED
    BY <2>1, <2>2, <2>3, AtAwait, AwaitMoves
<1>13. CASE providerReplies
  <2>1. At("request.effect") /\ line' = line /\ \E arg : Goto("request.after", arg) \/ Goto("request.drop", arg)
    BY <1>13 DEF providerReplies
  <2>2. QED
    BY <2>1, AtAwait, AwaitMoves
<1>14. CASE droppedResponse
  BY <1>14, AtAwait, QueueMoves DEF droppedResponse
<1>15. CASE cancelDeferredBestEffort
  <2>1. At("cancel.remote") /\ (Queue("cancel.finish", Null) \/ Queue("settle.read", Null))
    BY <1>15 DEF cancelDeferredBestEffort
  <2>2. QED
    BY <2>1, AtAwait, QueueMoves
<1>16. QED
  BY <1>1, <1>2, <1>3, <1>4, <1>5, <1>6, <1>7, <1>8, <1>9, <1>10, <1>11, <1>12, <1>13, <1>14, <1>15

\* Commands of the pass that run, and commit or read.
LEMMA CommandRuns ==
  ASSUME IndInv,
         \/ retryCommit \/ startRead \/ startCommit \/ runCheckpoint \/ finishRead \/ finishRunBoundary
         \/ requestRead \/ publishConfigurationFailure \/ publishGenerationIntent \/ publishResponse
         \/ recoverAssistantGeneration \/ recoverCancelledAssistantEffect
         \/ prepareDeferredPoll \/ publishPollIntent \/ readDeferredHandle \/ publishAbortedTerminal
  PROVE  PassMove
<1> USE DEF MainPcs, BatchPcs, Admitting, OpenPcs, EffectPcs
<1>0. ASSUME NEW from, from \in MainPcs, MainTurn(from)
      PROVE  IsDrive(drive) /\ drive.pc = from /\ Phase = IF Cancelled THEN "cancelling" ELSE "running"
  BY <1>0, AtAwait DEF MainTurn
<1>1. ASSUME NEW from, from \in MainPcs, MainTurn(from),
             \/ CancelledTurn(from) \/ Faulted
             \/ line' = Tail(line) /\ (Goto("loop", Null) \/ Goto("done", "settled"))
      PROVE  PassMove
  BY <1>0, <1>1, CancelledMoves, FaultedMove, TurnMoves
<1>2. CASE retryCommit
  BY <1>1, <1>2 DEF retryCommit, Committed, CancelledTurn
<1>3. CASE startRead
  BY <1>3, ReadMoves DEF startRead
<1>4. CASE startCommit
  BY <1>1, <1>4 DEF startCommit, Committed, CancelledTurn
<1>5. CASE runCheckpoint
  <2>1. MainTurn("checkpoint.commit")
    BY <1>5 DEF runCheckpoint, CancelledTurn
  <2>2. \/ CancelledTurn("checkpoint.commit") \/ Faulted \/ (line' = Tail(line) /\ Goto("loop", Null))
        \/ line' = Append(Tail(line), MainToken)
             /\ \E arg : drive' = [drive EXCEPT !.pc = "finish.read", !.arg = arg]
    BY <1>5 DEF runCheckpoint, Committed
  <2>3. CASE line' = Append(Tail(line), MainToken)
               /\ \E arg : drive' = [drive EXCEPT !.pc = "finish.read", !.arg = arg]
    <3>1. SameGate /\ drive'.pc = "finish.read" /\ IsDrive(drive)
      BY <1>0, <2>1, <2>3 DEF IsDrive, SameGate
    <3>2. QED
      BY <2>1, <2>3, <3>1, TurnQueues
  <2>4. QED
    BY <1>1, <2>1, <2>2, <2>3
<1>6. CASE finishRead
  BY <1>6, ReadMoves DEF finishRead
<1>7. CASE finishRunBoundary
  BY <1>1, <1>7 DEF finishRunBoundary, Committed, CancelledTurn
<1>8. CASE requestRead
  BY <1>8, ReadMoves DEF requestRead
<1>9. CASE publishConfigurationFailure
  BY <1>1, <1>9 DEF publishConfigurationFailure, Committed, CancelledTurn
<1>10. CASE publishGenerationIntent
  <2>1. \/ CancelledTurn("request.intent")
        \/ ~Cancelled /\ line' = Tail(line) /\ Goto("request.admit", Null)
    BY <1>10 DEF publishGenerationIntent, Committed
  <2>2. MainTurn("request.intent")
    BY <1>10 DEF publishGenerationIntent, CancelledTurn
  <2>3. QED
    BY <1>0, <2>1, <2>2, CancelledMoves, TurnMoves
<1>11. CASE publishResponse
  <2>1. MainTurn("publish") /\ (Faulted \/ (line' = Tail(line) /\ (Goto("loop", Null) \/ Goto("done", "settled"))))
    BY <1>11 DEF publishResponse, Committed
  <2>2. QED
    BY <1>1, <2>1
<1>12. CASE recoverAssistantGeneration
  <2>1. MainTurn("recover.read")
    BY <1>12 DEF recoverAssistantGeneration, CancelledTurn
  <2>2. CASE CancelledTurn("recover.read")
    BY <1>1, <2>1, <2>2
  <2>3. CASE ~CancelledTurn("recover.read")
    <3>1. line' = Append(Tail(line), MainToken) /\ \E arg : drive' = [drive EXCEPT !.pc = "publish", !.arg = arg]
      BY <1>12, <2>3 DEF recoverAssistantGeneration
    <3>2. SameGate /\ drive'.pc = "publish" /\ IsDrive(drive)
      BY <1>0, <2>1, <3>1 DEF IsDrive, SameGate
    <3>3. QED
      BY <2>1, <3>1, <3>2, TurnQueues
  <2>4. QED
    BY <2>2, <2>3
<1>13. CASE recoverCancelledAssistantEffect
  <2>1. /\ MainTurn("settle.read") /\ line' = Append(Tail(line), MainToken)
        /\ \E arg : drive' = [drive EXCEPT !.pc = "publish", !.arg = arg]
    BY <1>13 DEF recoverCancelledAssistantEffect
  <2>2. SameGate /\ drive'.pc = "publish" /\ IsDrive(drive)
    BY <1>0, <2>1 DEF IsDrive, SameGate
  <2>3. QED
    BY <2>1, <2>2, TurnQueues
<1>14. CASE prepareDeferredPoll
  <2>1. MainTurn("poll.read")
    BY <1>14 DEF prepareDeferredPoll, CancelledTurn
  <2>2. \/ CancelledTurn("poll.read") \/ Faulted
        \/ Goto("done", "deferred") /\ line' = Tail(line)
        \/ Goto("fail.commit", Null) /\ line' = Append(Tail(line), MainToken)
        \/ ~Cancelled /\ (Goto("poll.hook", Null) \/ Goto("wait", Null)) /\ line' = Tail(line)
    BY <1>14 DEF prepareDeferredPoll
  <2>3. IsDrive(drive) /\ drive.pc = "poll.read" /\ (~Cancelled => Phase = "running")
    BY <1>0, <2>1
  <2>4. CASE Goto("fail.commit", Null) /\ line' = Append(Tail(line), MainToken)
    <3>1. SameGate /\ drive'.pc = "fail.commit"
      BY <2>3, <2>4 DEF Goto, IsDrive, SameGate
    <3>2. QED
      BY <2>1, <2>3, <2>4, <3>1, TurnQueues
  <2>5. QED
    BY <1>1, <2>1, <2>2, <2>3, <2>4, TurnMoves
<1>15. CASE publishPollIntent
  <2>1. MainTurn("poll.intent")
    BY <1>15 DEF publishPollIntent, CancelledTurn
  <2>2. CASE CancelledTurn("poll.intent")
    BY <1>1, <2>1, <2>2
  <2>3. CASE ~CancelledTurn("poll.intent")
    <3>1. ~Cancelled /\ line' = Tail(line) /\ drive' = [drive EXCEPT !.pc = "poll.admit", !.permits = @ - 1]
      BY <1>15, <2>3 DEF publishPollIntent
    <3>2. IsDrive(drive) /\ drive.pc = "poll.intent" /\ Phase = "running"
      BY <1>0, <2>1, <3>1
    <3>3. SameGate /\ drive'.pc = "poll.admit"
      BY <3>1, <3>2 DEF IsDrive, SameGate
    <3>4. QED
      BY <2>1, <3>1, <3>2, <3>3 DEF MainTurn, PassMove, Move, TurnMove, Admission
  <2>4. QED
    BY <2>2, <2>3
<1>16. CASE readDeferredHandle
  <2>1. MainTurn("cancel.handle") /\ (Faulted \/ (line' = Tail(line) /\ Goto("cancel.remote", Null)))
    BY <1>16 DEF readDeferredHandle
  <2>2. QED
    BY <1>0, <1>1, <2>1, TurnMoves
<1>17. CASE publishAbortedTerminal
  <2>1. MainTurn("cancel.finish") /\ (Faulted \/ (line' = Tail(line) /\ Goto("done", "settled")))
    BY <1>17 DEF publishAbortedTerminal, Committed
  <2>2. QED
    BY <1>1, <2>1
<1>18. QED
  BY <1>2, <1>3, <1>4, <1>5, <1>6, <1>7, <1>8, <1>9, <1>10, <1>11, <1>12, <1>13, <1>14, <1>15, <1>16, <1>17

-----------------------------------------------------------------------------
(* Every step keeps the invariant, and admits nothing cancelled.           *)

Kept == GateInv' /\ EffectsOnlyWhileRunningStep

\* Tasks that do not move admit nothing.
LEMMA IdleJobs ==
  ASSUME OpenIsRunning, jobs' = jobs
  PROVE  JobAdmission
BY DEF JobAdmission, OpenIsRunning, JobsOpen

\* An ending pass leaves no task behind, so nothing is open.
LEMMA EndStep ==
  ASSUME IndInv', PassMove, drive'.pc = "done", jobs' = jobs, LineAgrees, TasksAreJobs
  PROVE  Kept
<1>1. ~JobsOpen'
  BY DEF JobsOpen, OpenJobs, IndInv, PassOwnsOperation
<1>2. PassHasOperation' /\ ReleasedIsCancelling' /\ OpenIsRunning' /\ PlacementReturns'
  BY <1>1 DEF PassHasOperation, ReleasedIsCancelling, OpenIsRunning, OpenPcs, PlacementReturns, BatchPcs
<1>3. LineAgrees'
  BY MoveLine DEF PassMove
<1>4. EffectsOnlyWhileRunningStep
  BY DEF EffectsOnlyWhileRunningStep, EffectPcs
<1>5. QED
  BY <1>2, <1>3, <1>4 DEF Kept, GateInv, TasksAreJobs

\* A step of the pass over a run operation.
LEMMA PassStep ==
  ASSUME IndInv, IndInv', GateInv, PassMove, jobs' = jobs,
         (PhaseMap' = PhaseMap /\ drive.id \in OpIds) \/ drive'.pc = "done"
  PROVE  Kept
<1>1. CASE drive'.pc = "done"
  BY <1>1, EndStep DEF GateInv
<1>2. CASE PhaseMap' = PhaseMap /\ drive.id \in OpIds
  <2>1. LineAgrees'
    BY MoveLine DEF PassMove, GateInv
  <2>2. GateMove
    BY DEF PassMove, Move, TurnMove, AwaitMove, SameGate, GateMove
  <2>3. JobAdmission
    BY IdleJobs DEF GateInv
  <2>4. PassHasOperation' /\ ReleasedIsCancelling' /\ OpenIsRunning' /\ EffectsOnlyWhileRunningStep
    BY <1>2, <2>2, <2>3, GateStep DEF PassMove
  <2>5. PlacementReturns'
    BY DEF PassMove, GateInv, PlacementReturns
  <2>6. QED
    BY <2>1, <2>4, <2>5 DEF Kept, GateInv, TasksAreJobs
<1>3. QED
  BY <1>1, <1>2

\* Dispatch (reconcile.ts reconcileOperation): reconciling a recorded cancellation
\* releases and signals the gate.
LEMMA DispatchStep ==
  ASSUME IndInv, GateInv, Dispatch, jobs' = jobs
  PROVE  Kept
<1>1. At("loop") /\ drive.pc = "loop"
  BY DEF Dispatch, At
<1>2. IsDrive(drive) /\ drive.id \in OpIds /\ Phase = IF Cancelled THEN "cancelling" ELSE "running"
  BY <1>1, AtAwait
<1>3. IndInv' /\ PhaseMap' = PhaseMap
  BY QuietRun, QuietMoveStep DEF QuietRunStep
<1>4. CASE Faulted
  <2>1. PassMove
    BY <1>1, <1>4, FaultedMove
  <2>2. QED
    BY <1>2, <1>3, <2>1, PassStep
<1>5. CASE ~Faulted /\ ~Cancelled
  <2>1. line' = Append(line, MainToken) /\ drive' = [drive EXCEPT !.pc = Procedure(Leaf.at), !.seen = mem.op.st]
    BY <1>5 DEF Dispatch
  <2>2. Procedure(Leaf.at) \in MainPcs \ BatchPcs /\ Procedure(Leaf.at) \notin Admitting
    BY DEF Procedure, MainPcs, BatchPcs, Admitting, OpenPcs, EffectPcs
  <2>3. SameGate /\ drive'.pc = Procedure(Leaf.at)
    BY <1>2, <2>1 DEF IsDrive, SameGate
  <2>4. PassMove
    BY <1>1, <2>1, <2>2, <2>3 DEF PassMove, Move, AwaitMove, Admission, MainPcs
  <2>5. QED
    BY <1>2, <1>3, <2>4, PassStep
<1>6. CASE ~Faulted /\ Cancelled
  <2>1. /\ line' = Append(line, MainToken)
        /\ drive' = [drive EXCEPT !.pc = Reconciliation(Leaf.at), !.seen = mem.op.st,
                       !.released = @ \/ GateOpen, !.gate = "signalled"]
    BY <1>6 DEF Dispatch
  <2>2. Reconciliation(Leaf.at) \in MainPcs \ BatchPcs /\ Reconciliation(Leaf.at) \notin Admitting
    BY DEF Reconciliation, MainPcs, BatchPcs, Admitting, OpenPcs, EffectPcs
  <2>3. drive'.id = drive.id /\ drive'.gate = "signalled" /\ drive'.pc = Reconciliation(Leaf.at)
    BY <1>2, <2>1 DEF IsDrive
  <2>4. GateMove
    BY <1>2, <1>6, <2>3 DEF GateMove
  <2>5. JobAdmission /\ Admission
    BY <2>2, <2>3, IdleJobs DEF GateInv, Admission
  <2>6. PassHasOperation' /\ ReleasedIsCancelling' /\ OpenIsRunning' /\ EffectsOnlyWhileRunningStep
    BY <1>1, <1>2, <1>3, <2>4, <2>5, GateStep
  <2>7. LineAgrees'
    <3>1. line \in Seq(Token) /\ Mains = {}
      BY <1>1 DEF GateInv, LineAgrees, MainPcs
    <3>2. MainToken \in Token /\ MainToken.who = "main"
      BY DEF MainToken, Token
    <3>3. /\ line' \in Seq(Token) /\ Len(line) + 1 \in DOMAIN line' /\ line'[Len(line) + 1] = MainToken
          /\ \A i \in DOMAIN line' : /\ i \in Nat /\ i <= Len(line) + 1
                                     /\ i # Len(line) + 1 => i \in DOMAIN line /\ line'[i] = line[i]
          /\ Len(line) \in Nat
      BY <2>1, <3>1, <3>2, JoinLine
    <3>4. \A i \in DOMAIN line' :
            /\ line'[i].who = "main" => i = Len(line) + 1
            /\ line'[i].who = "abort" => i \in DOMAIN line /\ line'[i] = line[i] /\ i < Len(line) + 1
      BY <3>1, <3>2, <3>3 DEF Mains
    <3>5. QED
      BY <2>2, <2>3, <3>3, <3>4 DEF GateInv, LineAgrees, Mains, Aborts, Unsampled
  <2>8. PlacementReturns'
    BY <2>2, <2>3 DEF PlacementReturns
  <2>9. QED
    BY <2>6, <2>7, <2>8 DEF Kept, GateInv, TasksAreJobs
<1>7. QED
  BY <1>4, <1>5, <1>6

\* A recorded cancellation of an open operation is not withdrawn.
LEMMA CancellingStays ==
  ASSUME Lifecycle!Next, NEW op \in OpIds, PhaseOf(store, op) = "cancelling",
         PhaseOf(store, op)' \in {"running", "cancelling"}
  PROVE  PhaseOf(store, op)' = "cancelling"
<1>1. PhaseMap[op] = "cancelling" /\ PhaseMap'[op] \in {"running", "cancelling"} /\ PhaseMap'[op] = PhaseOf(store, op)'
  BY DEF PhaseMap
<1> DEFINE Sets(o, status) ==
             /\ \/ PhaseMap[o] \in {"absent", "running"}
                \/ PhaseMap[o] = "cancelling" /\ status = "aborted"
             /\ PhaseMap' = [PhaseMap EXCEPT ![o] = status]
<1>2. \E o \in OpIds : \E status : Sets(o, status)
  BY DEF Lifecycle!Next, Lifecycle!Accept, Lifecycle!Cancel, Lifecycle!Settle, PhaseMap
<1>2a. PICK o \in OpIds : \E status : Sets(o, status)
  BY <1>2
<1>3. PICK status : Sets(o, status)
  BY <1>2a
<1>4. CASE o = op
  <2>1. status = "aborted" /\ PhaseMap'[op] = status
    BY <1>1, <1>3, <1>4 DEF PhaseMap
  <2>2. QED
    BY <1>1, <2>1
<1>5. CASE o # op
  <2>1. PhaseMap'[op] = PhaseMap[op]
    BY <1>3, <1>5
  <2>2. QED
    BY <1>1, <2>1
<1>6. QED
  BY <1>4, <1>5

\* A command of the pass that may have settled the operation opens nothing.
LEMMA SettledStep ==
  ASSUME IndInv, IndInv', GateInv, PassMove, jobs' = jobs, drive.id \in OpIds, Lifecycle!Next,
         drive.pc \in MainPcs, drive'.pc \in {"loop"} \cup MainPcs
  PROVE  Kept
<1>1. drive'.id = drive.id /\ drive'.released = drive.released
  BY DEF PassMove, Move, TurnMove, AwaitMove, SameGate
<1>2. ~JobsOpen' /\ drive'.pc \notin Admitting
  BY DEF JobsOpen, OpenJobs, IndInv, PassOwnsOperation, MainPcs, Admitting, OpenPcs, EffectPcs
<1>3. store'.lane.cur = drive.id
  BY <1>1 DEF IndInv, PassOwnsOperation, MainPcs
<1>5. PICK op \in OpIds : op = drive.id
  OBVIOUS
<1>6. Phase = "cancelling" => Phase' = "cancelling"
  <2>1. PhaseOf(store, op)' = Phase' /\ PhaseOf(store, op) = Phase
    BY <1>1, <1>5 DEF Phase
  <2>2. Phase' \in {"running", "cancelling"}
    BY <1>1, <1>3 DEF Phase, PhaseOf
  <2>3. QED
    BY <2>1, <2>2, CancellingStays
<1>7. PassHasOperation' /\ ReleasedIsCancelling' /\ OpenIsRunning' /\ EffectsOnlyWhileRunningStep
  <2>1. PassHasOperation'
    BY <1>1, <1>3 DEF PassHasOperation, Phase, PhaseOf
  <2>2. ReleasedIsCancelling'
    BY <1>1, <1>6 DEF ReleasedIsCancelling, GateInv, MainPcs
  <2>3. OpenIsRunning'
    BY <1>2 DEF OpenIsRunning, Admitting
  <2>4. EffectsOnlyWhileRunningStep
    BY <1>2 DEF EffectsOnlyWhileRunningStep, Admitting
  <2>5. QED
    BY <2>1, <2>2, <2>3, <2>4
<1>8. LineAgrees' /\ PlacementReturns'
  BY MoveLine DEF PassMove, GateInv, PlacementReturns
<1>9. QED
  BY <1>7, <1>8 DEF Kept, GateInv, TasksAreJobs

\* completeDrive: an outcome that is reported ends the pass.
LEMMA CompleteStep ==
  ASSUME IndInv, GateInv, completeDrive, jobs' = jobs
  PROVE  Kept
<1>1. drive.pc = "done" /\ drive.id \in OpIds \cup {Null} /\ drive' = NoDrive
  BY DEF completeDrive, At, IndInv, PassOwnsOperation
<1>2. LineAgrees'
  BY <1>1, NoPassLine DEF completeDrive, GateInv, MainPcs
<1>3. ~JobsOpen' /\ drive'.pc = "none" /\ drive'.released = FALSE
  BY <1>1 DEF JobsOpen, OpenJobs, IndInv, PassOwnsOperation, NoDrive
<1>4. QED
  BY <1>2, <1>3 DEF Kept, GateInv, TasksAreJobs, PassHasOperation, ReleasedIsCancelling, OpenIsRunning, OpenPcs, PlacementReturns,
     BatchPcs, EffectsOnlyWhileRunningStep, EffectPcs

\* The pass over a run operation.
LEMMA RunKept ==
  ASSUME IndInv, GateInv, RunStep, jobs' = jobs
  PROVE  Kept
<1>1. CASE completeDrive
  BY <1>1, CompleteStep
<1>2. CASE Dispatch
  BY <1>2, DispatchStep
<1>3. CASE QuietRunStep /\ ~Dispatch
  <2>1. IndInv' /\ PhaseMap' = PhaseMap
    BY <1>3, QuietRun, QuietMoveStep
  <2>2. PassMove
    BY <1>3, BeginMoves, AwaitRuns, CommandRuns DEF QuietRunStep, GateInv
  <2>3. drive.id \in OpIds
    BY <2>2 DEF IndInv, DriveShape, PassOwnsOperation, PassMove
  <2>4. QED
    BY <2>1, <2>2, <2>3, PassStep
<1>4. CASE retryCommit \/ startCommit \/ runCheckpoint \/ publishGenerationIntent \/ publishPollIntent
  <2>1. IndInv' /\ PhaseMap' = PhaseMap
    BY <1>4, retryCommitStep, startCommitStep, runCheckpointStep, publishGenerationIntentStep, publishPollIntentStep
  <2>2. PassMove
    BY <1>4, CommandRuns
  <2>3. drive.id \in OpIds
    BY <2>2 DEF IndInv, DriveShape, PassOwnsOperation, PassMove
  <2>4. QED
    BY <2>1, <2>2, <2>3, PassStep
<1>5. CASE publishConfigurationFailure \/ publishAbortedTerminal \/ finishRunBoundary \/ publishResponse
  <2>1. IndInv' /\ (PhaseMap' = PhaseMap \/ Lifecycle!Next)
    BY <1>5, publishConfigurationFailureStep, publishAbortedTerminalStep, finishRunBoundaryStep, publishResponseStep
  <2>2. PassMove
    BY <1>5, CommandRuns
  <2>3. drive.id \in OpIds
    BY <2>2 DEF IndInv, DriveShape, PassOwnsOperation, PassMove
  <2>4. drive.pc \in {"fail.commit", "cancel.finish", "finish.commit", "publish"}
    BY <1>5 DEF publishConfigurationFailure, publishAbortedTerminal, finishRunBoundary, publishResponse, CancelledTurn,
                MainTurn, At
  <2>5. IsDrive(drive)
    BY DEF IndInv, DriveShape
  <2>6. Faulted \/ Goto("loop", Null) \/ Goto("done", "settled")
    BY <1>5 DEF publishConfigurationFailure, publishAbortedTerminal, finishRunBoundary, publishResponse, CancelledTurn,
                Committed
  <2>7. drive'.pc \in {"loop", "done", drive.pc}
    BY <2>5, <2>6, GotoStep DEF Faulted
  <2>8. drive.pc \in MainPcs
    BY <2>4 DEF MainPcs
  <2>9. QED
    BY <2>1, <2>2, <2>3, <2>7, <2>8, PassStep, SettledStep
<1>6. QED
  BY <1>1, <1>2, <1>3, <1>4, <1>5 DEF RunStep, QuietRunStep

-----------------------------------------------------------------------------
(* Tool batches and their tasks.                                           *)

\* A task of the pass moves on; the pass and the line stay.
JobMove ==
  /\ drive' = drive /\ line' = line
  /\ JobAdmission /\ TasksAreJobs'

\* A step of the pass over its batch.
BatchMove ==
  /\ drive.pc \notin {"none", "done"}
  /\ Move /\ Admission /\ PlacementReturns'
  /\ JobAdmission /\ TasksAreJobs'

\* Either keeps the invariant when it leaves every operation in its phase.
LEMMA BatchKept ==
  ASSUME IndInv, IndInv', GateInv, PhaseMap' = PhaseMap, drive.id \in OpIds,
         BatchMove \/ (JobMove /\ drive.pc \notin {"none", "done"})
  PROVE  Kept
<1>1. Move /\ Admission /\ JobAdmission /\ PlacementReturns' /\ TasksAreJobs' /\ drive.pc \notin {"none", "done"}
  BY DEF BatchMove, JobMove, Move, Admission, PlacementReturns, GateInv
<1>2. GateMove
  BY <1>1 DEF Move, TurnMove, AwaitMove, SameGate, GateMove
<1>3. PassHasOperation' /\ ReleasedIsCancelling' /\ OpenIsRunning' /\ EffectsOnlyWhileRunningStep
  BY <1>1, <1>2, GateStep
<1>4. LineAgrees'
  BY <1>1, MoveLine DEF GateInv
<1>5. QED
  BY <1>1, <1>3, <1>4 DEF Kept, GateInv

\* setJob changes one task.
LEMMA JobSet ==
  ASSUME TasksAreJobs, NEW i \in DOMAIN jobs, NEW pc, NEW out, SetJob(i, pc, out)
  PROVE  /\ DOMAIN jobs' = DOMAIN jobs /\ jobs'[i].pc = pc /\ TasksAreJobs'
         /\ \A j \in DOMAIN jobs : j # i => jobs'[j] = jobs[j]
<1>1. jobs[i] = [pc |-> jobs[i].pc, out |-> jobs[i].out, ran |-> jobs[i].ran]
  BY DEF TasksAreJobs, IsJob
<1>2. /\ DOMAIN jobs' = DOMAIN jobs
      /\ jobs'[i] = [[jobs[i] EXCEPT !.pc = pc] EXCEPT !.out = out]
      /\ \A j \in DOMAIN jobs : j # i => jobs'[j] = jobs[j]
  BY DEF SetJob
<1>3. jobs'[i] = [pc |-> pc, out |-> out, ran |-> jobs[i].ran]
  BY <1>1, <1>2
<1>4. IsJob(jobs'[i]) /\ jobs'[i].pc = pc
  BY <1>3 DEF IsJob
<1>5. QED
  BY <1>2, <1>4 DEF TasksAreJobs

\* One task moves: nothing new is open unless that task is, nothing runs but it.
LEMMA JobMoves ==
  ASSUME OpenIsRunning, NEW i \in DOMAIN jobs, DOMAIN jobs' = DOMAIN jobs,
         \A j \in DOMAIN jobs : j # i => jobs'[j] = jobs[j],
         GateOpen /\ jobs'[i].pc \in OpenJobs => Phase = "running",
         jobs'[i].pc \in EffectJobs => Phase = "running"
  PROVE  JobAdmission
<1>1. ASSUME GateOpen, JobsOpen' PROVE Phase = "running"
  <2>1. PICK j \in DOMAIN jobs : jobs'[j].pc \in OpenJobs
    BY <1>1 DEF JobsOpen
  <2>2. CASE j = i
    BY <1>1, <2>1, <2>2
  <2>3. CASE j # i
    BY <1>1, <2>1, <2>3 DEF OpenIsRunning, JobsOpen
  <2>4. QED
    BY <2>2, <2>3
<1>2. QED
  BY <1>1 DEF JobAdmission

\* Tasks start when the gate admits them, and go on to what they were started for.
LEMMA JobStepKept ==
  ASSUME IndInv, GateInv, NEW i, JobStep(i)
  PROVE  Kept
<1>1. PICK pc \in {"before", "refused", "intent", "clear", "checkpoint", "admit", "execute", "after", "outcome", "place",
                   "placing"} : JobAt(i, pc)
  BY DEF JobStep, beforeToolReturns, refusedTool, publishToolIntent, clearReplayCheckpoint, readCheckpoint, admitTool,
         toolReturns, afterToolReturns, publishToolOutcome, jobReadsPlacement, jobCommitsPlacement
<1>2. i \in DOMAIN jobs /\ drive.id \in OpIds /\ drive.pc \notin {"none", "done"}
  BY <1>1, TaskFacts DEF JobAt, JoinPcs
<1>3. IndInv' /\ PhaseMap' = PhaseMap
  BY JobStepStep
<1>4. OpenIsRunning /\ TasksAreJobs
  BY DEF GateInv
<1>5. drive' = drive /\ line' = line
  BY DEF JobStep, beforeToolReturns, refusedTool, publishToolIntent, clearReplayCheckpoint, readCheckpoint, admitTool,
         toolReturns, afterToolReturns, publishToolOutcome, jobReadsPlacement, jobCommitsPlacement, jobUnchanged, Faulted
<1>6. ASSUME NEW next, NEW out, SetJob(i, next, out), next \notin EffectJobs,
             next \in OpenJobs => jobs[i].pc \in OpenJobs
      PROVE  JobMove
  <2>1. /\ DOMAIN jobs' = DOMAIN jobs /\ jobs'[i].pc = next /\ TasksAreJobs'
        /\ \A j \in DOMAIN jobs : j # i => jobs'[j] = jobs[j]
    BY <1>2, <1>4, <1>6, JobSet
  <2>2. GateOpen /\ next \in OpenJobs => Phase = "running"
    BY <1>2, <1>4, <1>6 DEF OpenIsRunning, JobsOpen
  <2>3. JobAdmission
    BY <1>2, <1>4, <1>6, <2>1, <2>2, JobMoves
  <2>4. QED
    BY <1>5, <2>1, <2>3 DEF JobMove
<1>7. ASSUME jobs' = jobs PROVE JobMove
  BY <1>4, <1>5, <1>7, IdleJobs DEF JobMove, TasksAreJobs
<1> USE DEF OpenJobs, EffectJobs
<1>8. CASE beforeToolReturns(i)
  <2>1. jobs[i].pc = "before" /\ (SetJob(i, "intent", Null) \/ SetJob(i, "outcome", Synthetic))
    BY <1>8 DEF beforeToolReturns, JobAt
  <2>2. JobMove
    BY <1>6, <2>1
  <2>3. QED
    BY <1>2, <1>3, <2>2, BatchKept
<1>9. CASE publishToolIntent(i)
  <2>1. jobs[i].pc = "intent" /\ (SetJob(i, "admit", Null) \/ SetJob(i, "outcome", Synthetic))
    BY <1>9 DEF publishToolIntent, JobAt
  <2>2. JobMove
    BY <1>6, <2>1
  <2>3. QED
    BY <1>2, <1>3, <2>2, BatchKept
<1>10. CASE clearReplayCheckpoint(i)
  <2>1. jobs[i].pc = "clear" /\ (SetJob(i, "admit", Null) \/ jobs' = jobs)
    BY <1>10 DEF clearReplayCheckpoint, JobAt
  <2>2. JobMove
    BY <1>6, <1>7, <2>1
  <2>3. QED
    BY <1>2, <1>3, <2>2, BatchKept
<1>11. CASE refusedTool(i) \/ readCheckpoint(i) \/ afterToolReturns(i)
  <2>1. \E out : SetJob(i, "outcome", out)
    BY <1>11 DEF refusedTool, readCheckpoint, afterToolReturns
  <2>2. JobMove
    BY <1>6, <2>1
  <2>3. QED
    BY <1>2, <1>3, <2>2, BatchKept
<1>12. CASE toolReturns(i)
  <2>1. \E out : SetJob(i, "outcome", out) \/ SetJob(i, "after", out)
    BY <1>12 DEF toolReturns
  <2>2. JobMove
    BY <1>6, <2>1
  <2>3. QED
    BY <1>2, <1>3, <2>2, BatchKept
<1>13. CASE publishToolOutcome(i)
  <2>1. SetJob(i, "place", Null) \/ SetJob(i, "done", Null)
    BY <1>13 DEF publishToolOutcome
  <2>2. JobMove
    BY <1>6, <2>1
  <2>3. QED
    BY <1>2, <1>3, <2>2, BatchKept
<1>14. CASE jobReadsPlacement(i) \/ jobCommitsPlacement(i)
  <2>1. jobs' = jobs \/ \E out : SetJob(i, "placing", out) \/ SetJob(i, "done", out)
    BY <1>14 DEF jobReadsPlacement, jobCommitsPlacement
  <2>2. JobMove
    BY <1>6, <1>7, <2>1
  <2>3. QED
    BY <1>2, <1>3, <2>2, BatchKept
<1>15. CASE admitTool(i)
  <2>1. CASE ~GateOpen
    <3>1. SetJob(i, "refused", Null)
      BY <1>15, <2>1 DEF admitTool
    <3>2. JobMove
      BY <1>6, <3>1
    <3>3. QED
      BY <1>2, <1>3, <3>2, BatchKept
  <2>2. CASE GateOpen
    <3>1. Phase = "running"
      BY <1>2, <1>4, <1>15, <2>2 DEF OpenIsRunning, JobsOpen, admitTool, JobAt
    <3>2. jobs' = [jobs EXCEPT ![i].pc = "execute", ![i].ran = TRUE]
      BY <1>15, <2>2 DEF admitTool
    <3>3. jobs[i] = [pc |-> jobs[i].pc, out |-> jobs[i].out, ran |-> jobs[i].ran]
      BY <1>2, <1>4 DEF TasksAreJobs, IsJob
    <3>4. /\ DOMAIN jobs' = DOMAIN jobs
          /\ jobs'[i] = [[jobs[i] EXCEPT !.pc = "execute"] EXCEPT !.ran = TRUE]
          /\ \A j \in DOMAIN jobs : j # i => jobs'[j] = jobs[j]
      BY <1>2, <3>2
    <3>5. jobs'[i] = [pc |-> "execute", out |-> jobs[i].out, ran |-> TRUE]
      BY <3>3, <3>4
    <3>6. TasksAreJobs'
      BY <1>4, <3>4, <3>5 DEF TasksAreJobs, IsJob
    <3>7. JobAdmission
      BY <3>1 DEF JobAdmission
    <3>8. JobMove
      BY <1>5, <3>6, <3>7 DEF JobMove
    <3>9. QED
      BY <1>2, <1>3, <3>8, BatchKept
  <2>3. QED
    BY <2>1, <2>2
<1>16. QED
  BY <1>8, <1>9, <1>10, <1>11, <1>12, <1>13, <1>14, <1>15 DEF JobStep

\* Fresh tasks admit nothing.
LEMMA NoJobs ==
  ASSUME NEW S, jobs' = [i \in S |-> NoJob]
  PROVE  JobAdmission /\ TasksAreJobs'
BY DEF JobAdmission, JobsOpen, OpenJobs, EffectJobs, NoJob, Job, TasksAreJobs, IsJob

\* A task that starts does so behind the gate, or for a call that needs no effect.
LEMMA FirstMoves ==
  ASSUME OpenIsRunning, TasksAreJobs, NEW k, NEW cancelled,
         jobs' = [jobs EXCEPT ![k] = FirstStep(k, cancelled)],
         ~cancelled /\ GateOpen => Phase = "running"
  PROVE  JobAdmission /\ TasksAreJobs'
<1>1. PICK e : e = FirstStep(k, cancelled)
  OBVIOUS
<1>2. IsJob(e)
  BY <1>1 DEF FirstStep, Job, IsJob
<1>3. (e.pc \in OpenJobs /\ GateOpen) \/ e.pc \in EffectJobs => Phase = "running"
  BY <1>1 DEF FirstStep, Job, OpenJobs, EffectJobs
<1>4. /\ DOMAIN jobs' = DOMAIN jobs
      /\ \A j \in DOMAIN jobs : IF j = k THEN jobs'[j] = e ELSE jobs'[j] = jobs[j]
  BY <1>1
<1>5. TasksAreJobs'
  BY <1>2, <1>4 DEF TasksAreJobs
<1>6. CASE k \in DOMAIN jobs
  <2>1. JobAdmission
    BY <1>3, <1>4, <1>6, JobMoves
  <2>2. QED
    BY <1>5, <2>1
<1>7. CASE k \notin DOMAIN jobs
  BY <1>4, <1>5, <1>7 DEF JobAdmission, JobsOpen, OpenIsRunning
<1>8. QED
  BY <1>6, <1>7

\* The steps of a batch, one by one.
LEMMA BatchStepKept ==
  ASSUME IndInv, GateInv, BatchStep
  PROVE  Kept
<1> USE DEF MainPcs, EarlyPcs, BatchPcs, Admitting, OpenPcs, EffectPcs, Returns
<1>1. IndInv' /\ PhaseMap' = PhaseMap
  BY BatchStepStep
<1>2. OpenIsRunning /\ TasksAreJobs /\ PlacementReturns
  BY DEF GateInv
<1>3. ASSUME NEW from, from \notin {"none", "begin", "done"}, At(from)
      PROVE  /\ IsDrive(drive) /\ drive.id \in OpIds /\ drive.pc = from
             /\ Phase = IF Cancelled THEN "cancelling" ELSE "running"
  BY <1>3, AtAwait
<1>4. ASSUME NEW from, from \notin {"none", "begin", "done"}, At(from), BatchMove
      PROVE  Kept
  BY <1>1, <1>3, <1>4, BatchKept
<1>5. ASSUME NEW from, from \notin {"none", "begin", "done"}, At(from), Faulted, jobs' = jobs
      PROVE  Kept
  <2>1. JobMove /\ drive.id \in OpIds /\ drive.pc \notin {"none", "done"}
    BY <1>2, <1>3, <1>5, IdleJobs DEF JobMove, TasksAreJobs, Faulted
  <2>2. QED
    BY <1>1, <2>1, BatchKept
<1>6. ASSUME jobs' = jobs PROVE JobAdmission /\ TasksAreJobs'
  BY <1>2, <1>6, IdleJobs DEF TasksAreJobs
<1>7. CASE readToolBatchSource
  <2>1. MainTurn("tools.source") /\ At("tools.source")
    BY <1>7 DEF readToolBatchSource, MainTurn
  <2>2. CASE Faulted /\ UNCHANGED toolVars
    BY <1>5, <2>1, <2>2 DEF toolVars
  <2>3. CASE ~(Faulted /\ UNCHANGED toolVars)
    <3>1. /\ drive' = [drive EXCEPT !.pc = "place.read", !.arg = BatchArg("tools.begin")]
          /\ line' = Append(Tail(line), MainToken)
          /\ \E S : jobs' = [i \in S |-> NoJob]
      BY <1>7, <2>3 DEF readToolBatchSource
    <3>2. SameGate /\ drive'.pc = "place.read" /\ drive'.arg = BatchArg("tools.begin") /\ drive.pc = "tools.source"
      BY <1>3, <2>1, <3>1 DEF IsDrive, SameGate
    <3>3. IsBatchArg(BatchArg("tools.begin"))
      BY DEF BatchArg, IsBatchArg
    <3>4. BatchMove
      BY <2>1, <3>1, <3>2, <3>3, NoJobs DEF BatchMove, Move, TurnMove, MainTurn, Admission, PlacementReturns
    <3>5. QED
      BY <1>4, <2>1, <3>4
  <2>4. QED
    BY <2>2, <2>3
<1>8. CASE readPlacement
  <2>1. MainTurn("place.read") /\ At("place.read") /\ jobs' = jobs
    BY <1>8 DEF readPlacement, MainTurn, toolVars
  <2>2. CASE Faulted
    BY <1>5, <2>1, <2>2
  <2>3. IsDrive(drive) /\ drive.pc = "place.read" /\ IsBatchArg(drive.arg)
    BY <1>2, <1>3, <2>1 DEF PlacementReturns
  <2>4. CASE drive' = [drive EXCEPT !.pc = drive.arg.after] /\ line' = Tail(line)
    <3>1. SameGate /\ drive'.pc = drive.arg.after /\ drive'.arg = drive.arg
      BY <2>3, <2>4 DEF IsDrive, SameGate
    <3>2. drive'.pc \notin Admitting
      BY <2>3, <3>1 DEF IsBatchArg
    <3>3. BatchMove
      BY <1>6, <2>1, <2>3, <2>4, <3>1, <3>2 DEF BatchMove, Move, TurnMove, MainTurn, Admission, PlacementReturns
    <3>4. QED
      BY <1>4, <2>1, <3>3
  <2>5. CASE drive' = [drive EXCEPT !.pc = "place.commit", !.arg.items = PlacementReads] /\ line' = Append(Tail(line), MainToken)
    <3>1. SameGate /\ drive'.pc = "place.commit" /\ drive'.arg = [drive.arg EXCEPT !.items = PlacementReads]
      BY <2>3, <2>5 DEF IsDrive, SameGate
    <3>2. IsBatchArg(drive'.arg)
      BY <2>3, <3>1 DEF IsBatchArg
    <3>3. BatchMove
      BY <1>6, <2>1, <2>3, <2>5, <3>1, <3>2 DEF BatchMove, Move, TurnMove, MainTurn, Admission, PlacementReturns
    <3>4. QED
      BY <1>4, <2>1, <3>3
  <2>6. QED
    BY <1>8, <2>2, <2>4, <2>5 DEF readPlacement
<1>9. CASE commitPlacement
  <2>1. MainTurn("place.commit") /\ At("place.commit") /\ jobs' = jobs /\ line' = Tail(line)
        /\ drive' = [drive EXCEPT !.pc = drive.arg.after, !.arg.items = {}]
    BY <1>9 DEF commitPlacement, MainTurn, toolVars
  <2>2. IsDrive(drive) /\ drive.pc = "place.commit" /\ IsBatchArg(drive.arg)
    BY <1>2, <1>3, <2>1 DEF PlacementReturns
  <2>3. SameGate /\ drive'.pc = drive.arg.after /\ drive'.arg = [drive.arg EXCEPT !.items = {}]
    BY <2>1, <2>2 DEF IsDrive, SameGate
  <2>4. IsBatchArg(drive'.arg) /\ drive'.pc \notin Admitting
    BY <2>2, <2>3 DEF IsBatchArg
  <2>5. BatchMove
    BY <1>6, <2>1, <2>2, <2>3, <2>4 DEF BatchMove, Move, TurnMove, MainTurn, Admission, PlacementReturns
  <2>6. QED
    BY <1>4, <2>1, <2>5
<1>10. CASE runTools
  <2>1. At("tools.begin") /\ jobs' = jobs
    BY <1>10 DEF runTools, toolVars
  <2>2. IsDrive(drive) /\ drive.pc = "tools.begin" /\ IsBatchArg(drive.arg)
    BY <1>2, <1>3, <2>1 DEF PlacementReturns
  <2>3. CASE Goto("loop", Null) /\ line' = line
    <3>1. SameGate /\ drive'.pc = "loop"
      BY <2>2, <2>3 DEF Goto, IsDrive, SameGate
    <3>2. BatchMove
      BY <1>6, <2>1, <2>2, <2>3, <3>1 DEF BatchMove, Move, AwaitMove, Admission, PlacementReturns
    <3>3. QED
      BY <1>4, <2>1, <3>2
  <2>4. CASE /\ \E mode : drive' = [drive EXCEPT !.pc = "place.read", !.arg.after = "sequential", !.arg.mode = mode]
             /\ line' = Append(line, MainToken)
    <3>1. PICK mode : drive' = [drive EXCEPT !.pc = "place.read", !.arg.after = "sequential", !.arg.mode = mode]
      BY <2>4
    <3>2. SameGate /\ drive'.pc = "place.read" /\ drive'.arg = [[drive.arg EXCEPT !.after = "sequential"] EXCEPT !.mode = mode]
      BY <2>2, <3>1 DEF IsDrive, SameGate
    <3>3. IsBatchArg(drive'.arg)
      BY <2>2, <3>2 DEF IsBatchArg
    <3>4. BatchMove
      BY <1>6, <2>1, <2>2, <2>4, <3>2, <3>3 DEF BatchMove, Move, AwaitMove, Admission, PlacementReturns
    <3>5. QED
      BY <1>4, <2>1, <3>4
  <2>5. CASE ~Cancelled /\ drive' = [drive EXCEPT !.pc = "parallel", !.arg.mode = "parallel"] /\ line' = line
    <3>1. SameGate /\ drive'.pc = "parallel" /\ drive'.arg = [drive.arg EXCEPT !.mode = "parallel"]
      BY <2>2, <2>5 DEF IsDrive, SameGate
    <3>2. IsBatchArg(drive'.arg) /\ Phase = "running"
      BY <1>3, <2>1, <2>2, <2>5, <3>1 DEF IsBatchArg
    <3>3. BatchMove
      BY <1>6, <2>1, <2>2, <2>5, <3>1, <3>2 DEF BatchMove, Move, AwaitMove, Admission, PlacementReturns
    <3>4. QED
      BY <1>4, <2>1, <3>3
  <2>6. QED
    BY <1>10, <2>3, <2>4, <2>5 DEF runTools
<1>11. CASE runSequential
  <2>1. At("sequential")
    BY <1>11 DEF runSequential
  <2>2. IsDrive(drive) /\ drive.pc = "sequential" /\ IsBatchArg(drive.arg) /\ (~Cancelled => Phase = "running")
    BY <1>2, <1>3, <2>1 DEF PlacementReturns
  <2>3. CASE Goto("loop", Null) /\ line' = line /\ jobs' = jobs
    <3>1. SameGate /\ drive'.pc = "loop"
      BY <2>2, <2>3 DEF Goto, IsDrive, SameGate
    <3>2. BatchMove
      BY <1>6, <2>1, <2>2, <2>3, <3>1 DEF BatchMove, Move, AwaitMove, Admission, PlacementReturns
    <3>3. QED
      BY <1>4, <2>1, <3>2
  <2>4. CASE Faulted /\ jobs' = jobs
    BY <1>5, <2>1, <2>4
  <2>5. CASE /\ jobs' = [jobs EXCEPT ![NextOpen] = FirstStep(NextOpen, Cancelled)] /\ line' = line
             /\ drive' = [drive EXCEPT !.pc = "sequential.join", !.arg.turns = @ + 1]
    <3>1. SameGate /\ drive'.pc = "sequential.join" /\ drive'.arg = [drive.arg EXCEPT !.turns = @ + 1]
      BY <2>2, <2>5 DEF IsDrive, SameGate
    <3>2. IsBatchArg(drive'.arg)
      BY <2>2, <3>1 DEF IsBatchArg
    <3>3. JobAdmission /\ TasksAreJobs'
      BY <1>2, <2>2, <2>5, FirstMoves
    <3>4. BatchMove
      BY <2>1, <2>2, <2>5, <3>1, <3>2, <3>3 DEF BatchMove, Move, AwaitMove, Admission, PlacementReturns
    <3>5. QED
      BY <1>4, <2>1, <3>4
  <2>6. QED
    BY <1>11, <2>3, <2>4, <2>5 DEF runSequential
<1>12. CASE joinSequential
  <2>1. At("sequential.join") /\ Queue("place.read", drive.arg) /\ jobs' = [i \in DOMAIN jobs |-> NoJob]
    BY <1>12 DEF joinSequential
  <2>2. IsDrive(drive) /\ drive.pc = "sequential.join" /\ IsBatchArg(drive.arg)
    BY <1>2, <1>3, <2>1 DEF PlacementReturns
  <2>3. SameGate /\ drive'.pc = "place.read" /\ drive'.arg = drive.arg /\ line' = Append(line, MainToken)
    BY <2>1, <2>2 DEF Queue, Goto, IsDrive, SameGate
  <2>4. BatchMove
    BY <2>1, <2>2, <2>3, NoJobs DEF BatchMove, Move, AwaitMove, Admission, PlacementReturns
  <2>5. QED
    BY <1>4, <2>1, <2>4
<1>13. CASE startParallel
  <2>1. At("parallel") /\ drive' = drive /\ line' = line
        /\ \E i : jobs' = [jobs EXCEPT ![i] = FirstStep(i, Cancelled /\ Call(i).status = "effect_pending")]
    BY <1>13 DEF startParallel
  <2>2. drive.id \in OpIds /\ drive.pc = "parallel"
    BY <1>3, <2>1
  <2>3. GateOpen => Phase = "running"
    BY <1>2, <2>2 DEF OpenIsRunning
  <2>4. JobAdmission /\ TasksAreJobs'
    BY <1>2, <2>1, <2>3, FirstMoves
  <2>5. QED
    BY <1>1, <2>1, <2>2, <2>4, BatchKept DEF JobMove
<1>14. CASE joinParallel
  <2>1. At("parallel") /\ line' = Append(line, MainToken) /\ jobs' = [i \in DOMAIN jobs |-> NoJob]
        /\ drive' = [drive EXCEPT !.pc = "place.read", !.arg.after = "loop"]
    BY <1>14 DEF joinParallel
  <2>2. IsDrive(drive) /\ drive.pc = "parallel" /\ IsBatchArg(drive.arg)
    BY <1>2, <1>3, <2>1 DEF PlacementReturns
  <2>3. SameGate /\ drive'.pc = "place.read" /\ drive'.arg = [drive.arg EXCEPT !.after = "loop"]
    BY <2>1, <2>2 DEF IsDrive, SameGate
  <2>4. IsBatchArg(drive'.arg)
    BY <2>2, <2>3 DEF IsBatchArg
  <2>5. BatchMove
    BY <2>1, <2>2, <2>3, <2>4, NoJobs DEF BatchMove, Move, AwaitMove, Admission, PlacementReturns
  <2>6. QED
    BY <1>4, <2>1, <2>5
<1>15. QED
  BY <1>7, <1>8, <1>9, <1>10, <1>11, <1>12, <1>13, <1>14 DEF BatchStep

-----------------------------------------------------------------------------
(* Hosts, the mutation line, losing and restoring the process.             *)

\* Steps that leave the pass and its tasks alone.
LEMMA StillKept ==
  ASSUME IndInv, GateInv, LineAgrees', drive'.id = drive.id, drive'.pc = drive.pc, drive'.arg = drive.arg, jobs' = jobs,
         drive'.gate = "open" => drive.gate = "open",
         drive'.released = drive.released,
         drive.pc \notin {"none", "done"} => Phase' = Phase
  PROVE  Kept
<1>1. PassHasOperation' /\ ReleasedIsCancelling' /\ OpenIsRunning' /\ EffectsOnlyWhileRunningStep
  BY StillStep
<1>2. PlacementReturns' /\ TasksAreJobs'
  BY DEF GateInv, PlacementReturns, TasksAreJobs
<1>3. QED
  BY <1>1, <1>2 DEF Kept, GateInv

\* The same for a step that leaves every operation in its phase.
LEMMA SteadyKept ==
  ASSUME IndInv, GateInv, LineAgrees', drive' = drive, jobs' = jobs, PhaseMap' = PhaseMap
  PROVE  Kept
<1>1. drive.pc \notin {"none", "done"} => drive.id \in OpIds
  BY DEF IndInv, DriveShape, PassOwnsOperation
<1>2. drive.pc \notin {"none", "done"} => Phase' = Phase
  BY <1>1, SamePhase DEF Phase
<1>3. QED
  BY <1>2, StillKept

\* Neither the pass nor the line moves.
LEMMA SameLine ==
  ASSUME LineAgrees, drive' = drive, line' = line
  PROVE  LineAgrees'
BY DEF LineAgrees, Mains, Aborts, Unsampled

\* acceptRun waits for a lane without an operation, and so without a working pass.
LEMMA AcceptKept ==
  ASSUME IndInv, GateInv, NEW op \in OpIds, NEW prompt, NEW settings, acceptRun(op, prompt, settings), jobs' = jobs
  PROVE  Kept
<1>1. drive' = drive /\ line' = line /\ Open /\ ~Busy
  BY DEF acceptRun, Ready, Faulted
<1>2. LineAgrees'
  BY <1>1, SameLine DEF GateInv
<1>3. store.lane.cur = Null
  BY <1>1, OpenFacts DEF Busy
<1>4. drive.pc \in {"none", "done"}
  <2>1. SUFFICES ASSUME drive.pc \notin {"none", "done"} PROVE FALSE
    OBVIOUS
  <2>2. drive.id \in OpIds /\ drive.id # Null
    BY <2>1, NullAssumption DEF IndInv, DriveShape, PassOwnsOperation
  <2>3. Phase \notin {"running", "cancelling"}
    BY <1>3, <2>2 DEF Phase, PhaseOf, IndInv, StoreInv, IsStore
  <2>4. QED
    BY <2>1, <2>3 DEF GateInv, PassHasOperation
<1>5. QED
  BY <1>1, <1>2, <1>4, StillKept

\* requestOperationAbort closes the gate it samples and queues the cancellation.
LEMMA RequestAbortKept ==
  ASSUME IndInv, GateInv, NEW op \in OpIds, requestOperationAbort(op), jobs' = jobs
  PROVE  Kept
<1>1. IndInv' /\ PhaseMap' = PhaseMap
  BY requestOperationAbortStep
<1>2. IsDrive(drive)
  BY DEF IndInv, DriveShape
<1>3. /\ line' = Append(line, AbortToken(op, drive.id = op))
      /\ drive' = drive \/ drive' = [drive EXCEPT !.gate = "aborting"]
  BY DEF requestOperationAbort
<1>4. /\ drive'.id = drive.id /\ drive'.pc = drive.pc /\ drive'.arg = drive.arg /\ drive'.released = drive.released
      /\ drive'.gate = "open" => drive.gate = "open"
  BY <1>2, <1>3 DEF IsDrive
<1>5. LineAgrees'
  <2>1. PICK t : t = AbortToken(op, drive.id = op)
    OBVIOUS
  <2>2. t \in Token /\ t.who = "abort" /\ (t.sampled <=> t.op = drive.id)
    BY <2>1 DEF AbortToken, Token
  <2>3. QED
    BY <1>3, <1>4, <2>1, <2>2, EnterLine DEF GateInv
<1>6. drive.pc \notin {"none", "done"} => drive.id \in OpIds
  BY DEF IndInv, DriveShape, PassOwnsOperation
<1>7. drive.pc \notin {"none", "done"} => Phase' = Phase
  BY <1>1, <1>4, <1>6, SamePhase DEF Phase
<1>8. QED
  BY <1>4, <1>5, <1>7, StillKept

\* Commands of hosts.
LEMMA HostKept ==
  ASSUME IndInv, GateInv, HostStep, jobs' = jobs
  PROVE  Kept
<1>1. CASE \E op \in OpIds, prompt \in Prompts, settings \in RunSettings : acceptRun(op, prompt, settings)
  BY <1>1, AcceptKept
<1>2. CASE \E op \in OpIds : requestOperationAbort(op)
  BY <1>2, RequestAbortKept
<1>3. CASE \/ \E kind, m : enqueue(kind, m)
           \/ \E m : append(m) \/ cancelQueued(m)
           \/ \E c : setConfiguration(c)
  <2>1. PhaseMap' = PhaseMap
    BY <1>3, enqueueStep, appendStep, cancelQueuedStep, setConfigurationStep
  <2>2. drive' = drive /\ line' = line
    BY <1>3 DEF enqueue, append, cancelQueued, setConfiguration, Faulted
  <2>3. QED
    BY <2>1, <2>2, SameLine, SteadyKept DEF GateInv
<1>4. CASE claimIdle \/ releaseIdle
  <2>1. store' = store /\ drive' = drive /\ line' = line
    BY <1>4 DEF claimIdle, releaseIdle
  <2>2. PhaseMap' = PhaseMap
    BY <2>1 DEF PhaseMap, PhaseOf
  <2>3. QED
    BY <2>1, <2>2, SameLine, SteadyKept DEF GateInv
<1>5. QED
  BY <1>1, <1>2, <1>3, <1>4 DEF HostStep

\* drive() joins the line.
LEMMA DriveCallKept ==
  ASSUME IndInv, GateInv, DriveCallStep, jobs' = jobs
  PROVE  Kept
<1>1. PICK op \in OpIds, mode \in DriveModes : requestDrive(op, mode)
  BY DEF DriveCallStep
<1>2. line' = Append(line, DriveToken(op, mode)) /\ drive' = drive /\ store' = store
  BY <1>1 DEF requestDrive
<1>3. PICK t : t = DriveToken(op, mode)
  OBVIOUS
<1>4. t \in Token /\ t.who = "drive"
  BY <1>3 DEF DriveToken, Token
<1>5. LineAgrees'
  BY <1>2, <1>3, <1>4, EnterLine DEF GateInv
<1>6. PhaseMap' = PhaseMap
  BY <1>2 DEF PhaseMap, PhaseOf
<1>7. QED
  BY <1>2, <1>5, <1>6, SteadyKept

\* A claim installs a pass of an open operation, and finds no task.
LEMMA InstallKept ==
  ASSUME IndInv, GateInv, installDrive, jobs' = jobs
  PROVE  Kept
<1> DEFINE t == Head(line)
<1>1. IndInv' /\ PhaseMap' = PhaseMap
  BY installDriveStep
<1>2. line # <<>> /\ line' = Tail(line) /\ Open
  BY DEF installDrive, HeadIs, Ready
<1>3. \/ drive' = drive
      \/ drive.id # Null /\ \E resumed : drive' = [drive EXCEPT !.resumed = resumed]
      \/ drive.id = Null /\ Busy /\ mem.op.id = t.op /\ drive' = newDrive(t.op, t.mode)
  BY DEF installDrive
<1>4. CASE drive' = drive
  <2>1. LineAgrees'
    BY <1>2, <1>4, LeaveLine DEF GateInv
  <2>2. QED
    BY <1>1, <1>4, <2>1, SteadyKept
<1>5. CASE drive.id # Null /\ \E resumed : drive' = [drive EXCEPT !.resumed = resumed]
  <2>1. /\ drive'.id = drive.id /\ drive'.pc = drive.pc /\ drive'.arg = drive.arg
        /\ drive'.released = drive.released /\ drive'.gate = drive.gate
    BY <1>5 DEF IndInv, DriveShape, IsDrive
  <2>2. LineAgrees'
    BY <1>2, <2>1, LeaveLine DEF GateInv
  <2>3. drive.id \in OpIds
    BY <1>5 DEF IndInv, PassOwnsOperation
  <2>4. Phase' = Phase
    BY <1>1, <2>1, <2>3, SamePhase DEF Phase
  <2>5. QED
    BY <2>1, <2>2, <2>4, StillKept
<1>6. CASE drive.id = Null /\ Busy /\ mem.op.id = t.op /\ drive' = newDrive(t.op, t.mode)
  <2>1. t.op \in OpIds /\ store.lane.cur = t.op /\ store' = store /\ drive.pc = "none"
    <3>1. mem.op.id = store.lane.cur /\ IsStore(store)
      BY <1>2, OpenFacts
    <3>2. QED
      BY <1>6, <3>1 DEF IsStore, Busy, installDrive, IndInv, DriveShape
  <2>2. LineAgrees'
    BY <1>2, <1>6, <2>1, NewPassLine DEF GateInv, MainPcs
  <2> HIDE DEF t
  <2>3. drive'.id = t.op /\ drive'.pc = "begin" /\ drive'.released = FALSE
    BY <1>6 DEF newDrive
  <2>4. Phase' \in {"running", "cancelling"}
    BY <2>1, <2>3 DEF Phase, PhaseOf
  <2>5. ~JobsOpen'
    BY <2>1 DEF JobsOpen, OpenJobs, IndInv, PassOwnsOperation
  <2>6. PassHasOperation' /\ ReleasedIsCancelling' /\ OpenIsRunning' /\ PlacementReturns' /\ TasksAreJobs'
    BY <2>3, <2>4, <2>5
    DEF PassHasOperation, ReleasedIsCancelling, OpenIsRunning, OpenPcs, PlacementReturns, BatchPcs, TasksAreJobs, GateInv
  <2>7. EffectsOnlyWhileRunningStep
    BY <2>3 DEF EffectsOnlyWhileRunningStep, EffectPcs
  <2>8. QED
    BY <2>2, <2>6, <2>7 DEF Kept, GateInv
<1>7. QED
  BY <1>3, <1>4, <1>5, <1>6

\* The cancellation becomes durable: it signals the gate of the pass it sampled, and a
\* pass it did not sample has not run a command yet.
LEMMA AbortKept ==
  ASSUME IndInv, GateInv, commitAbort, jobs' = jobs
  PROVE  Kept
<1> DEFINE t == Head(line)
           matches == Busy /\ mem.op.id = t.op
<1>1. IndInv' /\ Open /\ line # <<>> /\ t.who = "abort"
  BY commitAbortStep DEF commitAbort, Ready, HeadIs
<1>2. CASE Faulted
  <2>1. IndInv' /\ PhaseMap' = PhaseMap
    BY <1>2, FaultedStep, QuietMoveStep
  <2>2. QED
    BY <1>2, <2>1, SameLine, SteadyKept DEF Faulted, GateInv
<1>3. CASE ~Faulted
  <2>1. /\ line' = Tail(line)
        /\ drive' = IF ~t.sampled THEN drive
                    ELSE [drive EXCEPT !.released = TRUE, !.gate = IF matches THEN "signalled" ELSE @]
        /\ ~matches => store' = store
    BY <1>3 DEF commitAbort
  <2>2. mem.op.id = store.lane.cur /\ IsStore(store) /\ IsDrive(drive) /\ drive.id \in OpIds \cup {Null}
    BY <1>1, OpenFacts DEF IndInv, DriveShape, PassOwnsOperation
  <2>3. /\ drive'.id = drive.id /\ drive'.pc = drive.pc /\ drive'.arg = drive.arg
        /\ t.sampled => drive'.released = TRUE /\ drive'.gate = IF matches THEN "signalled" ELSE drive.gate
        /\ ~t.sampled => drive' = drive
    BY <2>1, <2>2 DEF IsDrive
  <2>4. LineAgrees'
    BY <1>1, <2>1, <2>3, LeaveLine DEF GateInv
  <2>5. 1 \in Aborts /\ line[1] = t
    <3>1. line \in Seq(Token)
      BY DEF GateInv, LineAgrees
    <3>2. 1 \in DOMAIN line /\ line[1] = t
      BY <1>1, <3>1, HeadTailProperties, EmptySeq
    <3>3. QED
      BY <1>1, <3>2 DEF Aborts
  <2>6. t.sampled => t.op = drive.id
    BY <2>5 DEF GateInv, LineAgrees
  <2>7. ~t.sampled /\ t.op = drive.id => drive.pc \in EarlyPcs \cup MainPcs
    BY <2>5 DEF GateInv, LineAgrees, Unsampled
  <2>8. drive.pc \notin {"none", "done"} => drive.id # Null /\ store.lane.cur = drive.id /\ Phase \in {"running", "cancelling"}
    <3>1. SUFFICES ASSUME drive.pc \notin {"none", "done"}
                   PROVE  drive.id # Null /\ store.lane.cur = drive.id /\ Phase \in {"running", "cancelling"}
      OBVIOUS
    <3>2. Phase \in {"running", "cancelling"} /\ drive.id \in OpIds /\ drive.id # Null
      BY <2>2, <3>1 DEF GateInv, PassHasOperation, IndInv, DriveShape
    <3>3. QED
      BY <2>2, <3>2 DEF Phase, PhaseOf, IsStore
  <2>9. matches => PhaseOf(store', t.op) = "cancelling"
    <3>1. SUFFICES ASSUME matches PROVE PhaseOf(store', t.op) = "cancelling"
      OBVIOUS
    <3>2. /\ t.op = store.lane.cur /\ t.op \in OpIds /\ t.op # Null
          /\ mem.op.st = store.opState[t.op] /\ IsState(mem.op.st)
      BY <1>1, <2>2, <3>1, OpenFacts DEF Busy, IsStore, IndInv, StoreInv, CurrentIsOpen
    <3>3. CASE Cancelled
      BY <1>3, <3>1, <3>2, <3>3 DEF commitAbort, Cancelled, PhaseOf
    <3>4. CASE ~Cancelled
      <4> DEFINE removed == inboxItems(mem.inbox, {"steer", "followUp"})
                 inbox   == withoutInboxItems(mem.inbox, inboxIds(removed))
                 st      == [mem.op.st EXCEPT !.ctl = "cancel_requested"]
                 vals    == store.vals \ PendingOf(removed)
                 lane    == durableLaneState(t.op, inbox, mem.last)
      <4>1. store' = [store EXCEPT !.vals = vals, !.opState = [store.opState EXCEPT ![t.op] = st], !.lane = lane]
        BY <1>3, <2>2, <3>1, <3>4 DEF commitAbort, IsStore
      <4>2. st.ctl = "cancel_requested"
        BY <3>2 DEF IsState
      <4>3. lane.cur = t.op
        BY DEF durableLaneState
      <4> HIDE DEF t, st, vals, lane
      <4>4. store'.lane.cur = t.op /\ store'.opState[t.op] = st
        BY <2>2, <3>2, <4>1, <4>3 DEF IsStore
      <4>5. QED
        BY <4>2, <4>4 DEF PhaseOf
    <3>5. QED
      BY <3>3, <3>4
  <2> HIDE DEF t, matches
  <2>10. Phase' = PhaseOf(store', drive.id) /\ (~matches => Phase' = Phase)
    BY <2>1, <2>3 DEF Phase, PhaseOf
  <2>11. CASE matches /\ t.op = drive.id
    <3>1. Phase' = "cancelling"
      BY <2>9, <2>10, <2>11
    <3>2. ~t.sampled => ~JobsOpen' /\ drive'.pc \notin OpenPcs
      BY <2>3, <2>7, <2>11 DEF JobsOpen, OpenJobs, IndInv, PassOwnsOperation, EarlyPcs, MainPcs, OpenPcs
    <3>3. PassHasOperation' /\ ReleasedIsCancelling'
      BY <3>1 DEF PassHasOperation, ReleasedIsCancelling
    <3>4. OpenIsRunning'
      BY <2>3, <2>11, <3>2 DEF OpenIsRunning, GateOpen
    <3>5. PlacementReturns' /\ TasksAreJobs' /\ EffectsOnlyWhileRunningStep
      BY <2>3 DEF GateInv, PlacementReturns, TasksAreJobs, EffectsOnlyWhileRunningStep
    <3>6. QED
      BY <2>4, <3>3, <3>4, <3>5 DEF Kept, GateInv
  <2>12. CASE t.op # drive.id
    <3>1. drive' = drive
      BY <2>3, <2>6, <2>12
    <3>2. drive.pc \notin {"none", "done"} => Phase' = Phase
      BY <2>2, <2>8, <2>10, <2>12 DEF matches
    <3>3. QED
      BY <2>4, <3>1, <3>2, StillKept
  <2>13. CASE ~matches /\ t.op = drive.id
    <3>1. drive.pc \in {"none", "done"}
      BY <2>2, <2>8, <2>13 DEF matches, Busy
    <3>2. ~JobsOpen' /\ drive'.pc \in {"none", "done"}
      BY <2>3, <3>1 DEF JobsOpen, OpenJobs, IndInv, PassOwnsOperation
    <3>3. PassHasOperation' /\ ReleasedIsCancelling' /\ OpenIsRunning'
      BY <3>2 DEF PassHasOperation, ReleasedIsCancelling, OpenIsRunning, OpenPcs
    <3>4. PlacementReturns' /\ TasksAreJobs' /\ EffectsOnlyWhileRunningStep
      BY <2>3 DEF GateInv, PlacementReturns, TasksAreJobs, EffectsOnlyWhileRunningStep
    <3>5. QED
      BY <2>4, <3>3, <3>4 DEF Kept, GateInv
  <2>14. QED
    BY <2>11, <2>12, <2>13
<1>4. QED
  BY <1>2, <1>3

\* Recovery data, and restoring the process.
LEMMA AsideKept ==
  ASSUME IndInv, GateInv, ProgressStep \/ RestoreStep
  PROVE  Kept
<1>1. PhaseMap' = PhaseMap
  BY ProgressStepStep, RestoreStepStep
<1>2. drive' = drive /\ line' = line /\ jobs' = jobs
  BY DEF ProgressStep, appendFrame, writeToolOutput, setMemo, RestoreStep, restoreSession, Faulted, toolVars
<1>3. QED
  BY <1>1, <1>2, SameLine, SteadyKept DEF GateInv

\* Losing the process loses the pass, its tasks and the line.
LEMMA StopKept ==
  ASSUME StopStep
  PROVE  Kept
<1>1. drive' = NoDrive /\ line' = <<>> /\ jobs' = <<>>
  BY DEF StopStep, stopProcess
<1>2. line' \in Seq(Token) /\ DOMAIN line' = {} /\ DOMAIN jobs' = {}
  BY <1>1
<1>3. Mains' = {} /\ Aborts' = {} /\ Unsampled' = {}
  BY <1>2 DEF Mains, Aborts, Unsampled
<1>4. LineAgrees'
  BY <1>2, <1>3 DEF LineAgrees
<1>5. drive'.pc = "none" /\ ~JobsOpen'
  BY <1>1, <1>2 DEF NoDrive, JobsOpen
<1>6. QED
  BY <1>2, <1>4, <1>5 DEF Kept, GateInv, PassHasOperation, ReleasedIsCancelling, OpenIsRunning, OpenPcs, PlacementReturns,
     BatchPcs, TasksAreJobs, EffectsOnlyWhileRunningStep, EffectPcs

-----------------------------------------------------------------------------
(* The theorems.                                                           *)

\* A harness starts without a pass, tasks or commands.
LEMMA InitGateInv == Init => GateInv
<1> SUFFICES ASSUME Init PROVE GateInv
  OBVIOUS
<1>1. drive = NoDrive /\ line = <<>> /\ jobs = <<>>
  BY DEF Init, LaneInit, ToolInit
<1>2. line \in Seq(Token) /\ DOMAIN line = {} /\ DOMAIN jobs = {}
  BY <1>1
<1>3. Mains = {} /\ Aborts = {} /\ Unsampled = {}
  BY <1>2 DEF Mains, Aborts, Unsampled
<1>4. drive.pc = "none" /\ ~JobsOpen
  BY <1>1, <1>2 DEF NoDrive, JobsOpen
<1>5. QED
  BY <1>2, <1>3, <1>4 DEF GateInv, LineAgrees, PassHasOperation, ReleasedIsCancelling, OpenIsRunning, OpenPcs,
     PlacementReturns, BatchPcs, TasksAreJobs

\* Every step keeps the invariant and admits nothing after a cancellation.
LEMMA NextKept ==
  ASSUME IndInv, GateInv, [Next]_vars
  PROVE  GateInv' /\ [EffectsOnlyWhileRunningStep]_vars
<1>1. CASE UNCHANGED vars
  <2>1. store' = store /\ drive' = drive /\ line' = line /\ jobs' = jobs
    BY <1>1 DEF vars, laneVars, toolVars
  <2>2. PhaseMap' = PhaseMap
    BY <2>1 DEF PhaseMap, PhaseOf
  <2>3. QED
    BY <1>1, <2>1, <2>2, SameLine, SteadyKept DEF GateInv, Kept
<1>2. CASE (HostStep \/ DriveCallStep \/ LineStep \/ RunStep) /\ UNCHANGED <<toolVars, stops>>
  <2>1. jobs' = jobs
    BY <1>2 DEF toolVars
  <2>2. QED
    BY <1>2, <2>1, HostKept, DriveCallKept, InstallKept, AbortKept, RunKept DEF LineStep, Kept
<1>3. CASE BatchStep \/ (\E i \in DOMAIN jobs : JobStep(i)) \/ ProgressStep \/ RestoreStep
  BY <1>3, BatchStepKept, JobStepKept, AsideKept DEF Kept
<1>4. CASE StopStep
  BY <1>4, StopKept DEF Kept
<1>5. QED
  BY <1>1, <1>2, <1>3, <1>4 DEF Next, Rest

\* GateInv is an invariant of the harness.
THEOREM GateInvariant == Spec => []GateInv
<1>1. IndInv /\ GateInv /\ [Next]_vars => GateInv'
  BY NextKept
<1>2. QED
  BY <1>1, InitGateInv, Invariance, PTL DEF Spec

\* A cancellation on disk admits no hook, request, timer or tool, even when the
\* abort sampled the lane before the pass was installed (effect-gate.ts admit,
\* lane.ts requestOperationAbort, drive.ts driveOperation).
THEOREM CancellationAdmitsNothing == Spec => EffectsOnlyWhileRunning
<1>1. IndInv /\ GateInv /\ [Next]_vars => [EffectsOnlyWhileRunningStep]_vars
  BY NextKept
<1>2. QED
  BY <1>1, GateInvariant, Invariance, PTL DEF Spec, EffectsOnlyWhileRunning

\* A pass that is released from its wait finds the cancellation recorded
\* (effect-gate.ts AbortRequested, lane.ts requestOperationAbort).
THEOREM ReleaseFollowsCancellation == Spec => []ReleasedMeansCancelled
<1>1. IndInv /\ GateInv => ReleasedMeansCancelled
  <2> SUFFICES ASSUME IndInv, GateInv, Driving, drive.released, drive.pc \in {"wait", "request.drop"}
               PROVE  Busy /\ mem.op.id = drive.id /\ Cancelled
    BY DEF ReleasedMeansCancelled
  <2>1. /\ drive.id \in OpIds /\ drive.id # Null /\ mem # Null /\ store.lane.cur = drive.id
        /\ Phase = IF Cancelled THEN "cancelling" ELSE "running"
    BY PassFacts, ControlIsPhase
  <2>2. Phase = "cancelling"
    BY DEF GateInv, ReleasedIsCancelling
  <2>3. mem.op.id = drive.id
    BY <2>1, OpenFacts DEF Driving
  <2>4. QED
    BY <2>1, <2>2, <2>3 DEF Busy
<1>2. QED
  BY <1>1, GateInvariant, Invariance, PTL

=============================================================================
