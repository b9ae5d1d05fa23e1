------------------------------- MODULE Harness ------------------------------
(***************************************************************************)
(* The durable harness of one lane: hosts issue commands, a drive pass      *)
(* advances the current operation, hosts abort it, and the process may be   *)
(* lost and restored at any step.                                          *)
(***************************************************************************)
EXTENDS ToolBatch

CONSTANTS
  HostActions,      \* kinds of host command this instance exercises
  MaxPrompt,        \* bound: messages of one prompt
  DriveModes,       \* who drives: records [wait, poll, resumed]
  MaxPendingAborts, \* bound: abort requests queued at a time
  MaxStops          \* bound: process losses

ASSUME HostAssumption ==
  /\ HostActions \subseteq {"steer", "followUp", "nextRun", "append", "cancelQueued", "configure", "idle", "abort", "join"}
  /\ DriveModes \subseteq [wait : BOOLEAN, poll : BOOLEAN, resumed : BOOLEAN]
  /\ MaxPrompt \in Nat /\ MaxPendingAborts \in Nat /\ MaxStops \in Nat

VARIABLES
  stops    \* process losses so far

vars == <<laneVars, toolVars, stops>>

Init == LaneInit /\ ToolInit /\ stops = 0

Prompts == UNION {[1..n -> Msgs] : n \in 0..MaxPrompt}

HostStep ==
  \/ \E op \in OpIds, prompt \in Prompts, settings \in RunSettings : acceptRun(op, prompt, settings)
  \/ \E kind \in HostActions \cap {"steer", "followUp", "nextRun"}, m \in Msgs : enqueue(kind, m)
  \/ "append" \in HostActions /\ \E m \in Msgs \cup Notes : append(m)
  \/ "cancelQueued" \in HostActions /\ \E m \in Msgs \cup Notes : cancelQueued(m)
  \/ "configure" \in HostActions /\ \E c \in HostConfigs : setConfiguration(c)
  \/ "idle" \in HostActions /\ claimIdle
  \/ releaseIdle
  \/ /\ "abort" \in HostActions /\ Cardinality(Queued("abort")) < MaxPendingAborts
     /\ \E op \in OpIds : (store.opMeta[op] # NoMeta) /\ requestOperationAbort(op)

\* Hosts drive the open operation, one call at a time; "join" hosts also call
\* while a pass is there.
DriveCallStep ==
  /\ Queued("drive") = {} /\ (drive.id # Null => "join" \in HostActions)
  /\ \E op \in OpIds, mode \in DriveModes : (store.opMeta[op] # NoMeta) /\ requestDrive(op, mode)

LineStep == installDrive \/ commitAbort

\* The drive's own steps over a run operation.
RunStep ==
  \/ completeDrive \/ awaitCancellation \/ beginDrive \/ beforeDriveReturns \/ Dispatch
  \/ runRetryWait \/ retryTimer \/ retryCommit
  \/ startRead \/ beforeRunReturns \/ startCommit
  \/ runCheckpoint \/ finishRead \/ beforeRunEndReturns \/ finishRunBoundary
  \/ requestRead \/ beforeRequestReturns \/ publishConfigurationFailure \/ publishGenerationIntent
  \/ admitTransform \/ admitRequest \/ providerReplies \/ afterResponseReturns \/ droppedResponse
  \/ publishResponse \/ recoverAssistantGeneration \/ recoverCancelledAssistantEffect
  \/ prepareDeferredPoll \/ beforePollReturns \/ publishPollIntent \/ admitPoll
  \/ readDeferredHandle \/ cancelDeferredBestEffort \/ publishAbortedTerminal

\* The drive's steps over a tool batch.
BatchStep ==
  \/ readToolBatchSource \/ readPlacement \/ commitPlacement \/ runTools
  \/ runSequential \/ joinSequential \/ startParallel \/ joinParallel

JobStep(i) ==
  \/ beforeToolReturns(i) \/ refusedTool(i) \/ publishToolIntent(i)
  \/ clearReplayCheckpoint(i) \/ readCheckpoint(i) \/ admitTool(i)
  \/ toolReturns(i) \/ afterToolReturns(i) \/ publishToolOutcome(i)
  \/ jobReadsPlacement(i) \/ jobCommitsPlacement(i)

\* Recovery data written while an effect runs.
ProgressStep ==
  \/ appendFrame /\ UNCHANGED toolVars
  \/ \E i \in DOMAIN jobs : writeToolOutput(i) \/ setMemo(i)

StopStep ==
  /\ stops < MaxStops /\ stops' = stops + 1
  /\ stopProcess /\ jobs' = <<>> /\ UNCHANGED <<executed, reexecuted>>

RestoreStep == restoreSession /\ UNCHANGED toolVars

\* Hosts may leave a lane without an open operation alone.
Rest == store.lane.cur = Null /\ UNCHANGED vars

Next ==
  \/ (HostStep \/ DriveCallStep \/ LineStep \/ RunStep) /\ UNCHANGED <<toolVars, stops>>
  \/ (BatchStep \/ (\E i \in DOMAIN jobs : JobStep(i)) \/ ProgressStep \/ RestoreStep) /\ UNCHANGED stops
  \/ StopStep
  \/ Rest

Spec == Init /\ [][Next]_vars

\* Promises settle: the drive's steps, admitted effects and hooks, the queued
\* aborts; hosts reopen a lost session and keep driving the open operation.
Fairness ==
  /\ WF_vars(DriveCallStep /\ UNCHANGED <<toolVars, stops>>)
  /\ WF_vars(LineStep /\ UNCHANGED <<toolVars, stops>>)
  /\ WF_vars(RunStep /\ UNCHANGED <<toolVars, stops>>)
  /\ WF_vars(BatchStep /\ UNCHANGED stops)
  /\ WF_vars((\E i \in DOMAIN jobs : JobStep(i)) /\ UNCHANGED stops)
  /\ WF_vars(RestoreStep /\ UNCHANGED stops)
  /\ WF_vars(releaseIdle /\ UNCHANGED <<toolVars, stops>>)

FairSpec == Spec /\ Fairness

-----------------------------------------------------------------------------
(* Types.                                                                  *)

Ids == Nat \cup Msgs \cup Notes
Config == [model : Models, tools : SUBSET ToolNames]
InboxItem == [id : Msgs \cup Notes, kind : InboxKinds]
OpState(st) ==
  /\ DOMAIN st = {"ctl", "settings", "latest", "leaf"}
  /\ st.ctl \in {"running", "cancel_requested"}
  /\ st.settings \in RunSettings
  /\ st.latest \in Ids \cup {Null}
  /\ st.leaf.at \in {"starting", "checkpoint", "assistant.ready", "assistant.effect_pending",
                     "assistant.retry_wait", "tools", "deferred.suspended", "deferred.effect_pending"}
Result == [kind : {"run"}, status : {"completed", "failed", "aborted"},
           from : Ids \cup {Null}, tip : Ids \cup {Null}]

\* Types of the durable store, the projection and the drive pass.
TypeOK ==
  /\ store.tip \in Ids \cup {Null}
  /\ store.cfg \in Config
  /\ store.lane.cur \in OpIds \cup {Null} /\ store.lane.last \in OpIds \cup {Null}
  /\ store.lane.inbox \in Seq(InboxItem)
  /\ \A op \in OpIds : /\ store.opState[op] = NoState \/ OpState(store.opState[op])
                       /\ store.results[op] = NoResult \/ store.results[op] \in Result
  /\ mem # Null => mem.tip \in Ids \cup {Null} /\ mem.cfg \in Config /\ (mem.op = NoOperation \/ OpState(mem.op.st))
  /\ drive.id # Null => /\ drive.id \in OpIds /\ drive.permits \in 0..1
                     /\ drive.gate \in {"open", "aborting", "signalled"}
  /\ \A i \in DOMAIN line : line[i].who \in {"main", "abort", "drive"}
  /\ ids \in Nat /\ sent \subseteq Msgs \cup Notes /\ idle \in BOOLEAN /\ fault \in BOOLEAN

-----------------------------------------------------------------------------
(* Safety.                                                                 *)

\* The in-memory projection always equals what a restart would restore from
\* storage: every command publishes exactly what it committed (lane.ts command,
\* settleOperation; restore.ts restoreLaneState).
Coherent == mem # Null => mem = restoreLaneState(store)

\* From its first look at the state to its outcome a pass owns the lane's current
\* operation: no settlement, acceptance or abort takes it away between two of its
\* awaits, so `state.operation!' in its commands is safe (lane.ts settleOperation);
\* and tasks of tool calls live only while the pass waits for them (tools.ts
\* runSequential, runParallel).
PassOwnsOperation ==
  /\ drive.id \in OpIds \cup {Null}
  /\ drive.pc \notin {"none", "begin", "done"} => store.lane.cur = drive.id
  /\ (\E i \in DOMAIN jobs : jobs[i].pc \notin {"none", "done"}) =>
       drive.pc \in {"sequential.join", "parallel"}

\* No interleaving of commands, hooks, effects, aborts and restarts reaches one
\* of the SessionInvariantErrors that close the harness.
NoInvariantFault == ~fault

Current == store.lane.cur
CurrentLeaf == store.opState[Current].leaf
CurrentCalls(status) ==
  IF Current = Null \/ CurrentLeaf.at # "tools" THEN {}
  ELSE {i \in DOMAIN CurrentLeaf.calls : CurrentLeaf.calls[i].status \in status}
ResultIds(status) == {CurrentLeaf.calls[i].result : i \in CurrentCalls(status)}
ValuesOf(kind) == {v \in store.vals : v[1] = kind}

\* Durable auxiliary values belong to live owners only, and no owner lacks its
\* value: queued items and staged outcomes have exactly one payload each, frames
\* exist only for the request in flight, arguments only for started calls of the
\* open batch, tool output and memos only for calls in flight, and operation
\* records only for the current operation (terminal.ts operationCleanupWrites).
OwnedValuesExact ==
  /\ ValuesOf("pending") = {PendingEntry(id) : id \in inboxIds(store.lane.inbox) \cup ResultIds({"outcome_ready"})}
  /\ ValuesOf("frames") \subseteq (IF Current = Null THEN {} ELSE FramesOf(Current, CurrentLeaf))
  /\ {<<"args", Current, CurrentLeaf.assistant, i>> : i \in CurrentCalls({"effect_pending"})} \subseteq ValuesOf("args")
  /\ ValuesOf("args") \subseteq
       {<<"args", Current, CurrentLeaf.assistant, i>> :
          i \in CurrentCalls({"effect_pending", "outcome_ready", "completed"})}
  /\ ValuesOf("output") \cup ValuesOf("memo") \subseteq
       {<<kind, Current, id>> : kind \in {"output", "memo"}, id \in ResultIds({"effect_pending"})}
  /\ \A op \in OpIds : (store.opMeta[op] # NoMeta) = (op = Current) /\ (store.opState[op] # NoState) = (op = Current)

Log == store.log
Places(id) == {i \in DOMAIN Log : Log[i].id = id}

\* The branch is one chain: every entry is inserted once, on the tip of that
\* moment, and the tip is the newest entry.  No queued message, response or
\* result is placed twice by a retry, a recovery or a repeated boundary plan, and
\* no commit chains on a tip read before another one moved it (session/commit.ts
\* validateCommittedWrites, lane.ts acceptRun, append).
LogWellFormed ==
  /\ \A i \in DOMAIN Log : Places(Log[i].id) = {i}
  /\ \A i \in DOMAIN Log : Log[i].parent = IF i = 1 THEN Null ELSE Log[i - 1].id
  /\ store.tip = IF Log = <<>> THEN Null ELSE Last(Log).id

\* Every assistant response has exactly one usage row, every placed tool result
\* at most one (response.ts, tool-placement.ts).
UsageOnce ==
  \A i \in DOMAIN Log :
    LET rows == Cardinality({k \in DOMAIN store.usage : store.usage[k] = Log[i].id})
    IN rows <= 1 /\ (Log[i].body.type = "assistant" => rows = 1)

\* Positions of the results of the assistant entry at position i.
ResultsOf(i) ==
  {j \in DOMAIN Log : Log[j].body.type = "result" /\ Log[j].body.assistant = Log[i].id}

\* The results of a tool-calling response follow it directly on its branch, in
\* source order and without gaps; all of them are there unless its batch is the
\* one being run.  Crashes, cancellation and parallel completion do not change
\* this (tool-placement.ts readPlacement, commitPlacement).
ToolCallsAnswered ==
  \A i \in DOMAIN Log :
    (Log[i].body.type = "assistant" /\ Log[i].body.stop \notin {"aborted", "error"}) =>
      LET n == Cardinality(ResultsOf(i))
      IN /\ ResultsOf(i) = (i + 1)..(i + n)
         /\ \A k \in 1..n : Log[i + k].body.index = k /\ Log[i + k].parent = Log[i + k - 1].id
         /\ \/ n = Len(Log[i].body.calls)
            \/ Current # Null /\ CurrentLeaf.at = "tools" /\ CurrentLeaf.assistant = Log[i].id

\* A tool not declared safe to replay is started at most once per call, whatever
\* crashes happen after its intent (tools.ts recoverToolInvocation).
UnsafeToolsRunOnce == \A e \in reexecuted : e.tool \in SafeTools

\* While a durable cancellation is in force, the pass that waits for it to be
\* recorded finds it recorded (effect-gate.ts AbortRequested, drive.ts).
ReleasedMeansCancelled ==
  (Driving /\ drive.released /\ drive.pc \in {"wait", "request.drop"}) => Busy /\ mem.op.id = drive.id /\ Cancelled

\* A retry timer does not outlive a durable cancellation: the abort that records
\* it signals the pass that waits (docs/harness.md 4.5, lane.ts
\* requestOperationAbort).
CancellationWakesRetryTimer ==
  At("timer") => ~Cancelled \/ drive.gate = "signalled"

-----------------------------------------------------------------------------
(* What a step may never do.                                               *)

\* The phase of an operation, as its durable records show it.
PhaseOf(s, op) ==
  IF s.lane.cur = op
  THEN IF s.opState[op].ctl = "cancel_requested" THEN "cancelling" ELSE "running"
  ELSE IF s.results[op] = NoResult THEN "absent" ELSE s.results[op].status

EffectPcs == {"before_drive", "timer", "start.hook", "finish.hook", "request.hook",
              "request.transform", "request.effect", "poll.hook"}
EffectJobs == {"before", "execute"}

\* New hooks, requests, timers and tools are admitted only while the operation is
\* durably running: a cancellation that is on disk admits nothing, even when the
\* abort sampled the lane before the pass was installed.
EffectsOnlyWhileRunningStep ==
  \/ drive'.pc \in EffectPcs /\ drive.pc # drive'.pc
  \/ \E i \in DOMAIN jobs' : /\ jobs'[i].pc \in EffectJobs
                             /\ i \notin DOMAIN jobs \/ jobs[i].pc # jobs'[i].pc
  => PhaseOf(store, drive'.id) = "running"
EffectsOnlyWhileRunning == [][EffectsOnlyWhileRunningStep]_vars

Lifecycle == INSTANCE OperationLifecycle WITH Ops <- OpIds, phase <- [op \in OpIds |-> PhaseOf(store, op)]

\* The harness implements the operation lifecycle: every durable step of every
\* command, crash and recovery is one lifecycle step of one operation or none
\* (lane.ts settleOperation, acceptRun, requestOperationAbort).
ImplementsLifecycle == Lifecycle!Spec

InLog(s, id) == \E e \in ToSet(s.log) : e.id = id

\* Queued input of one kind is placed in the order it was queued: no item is
\* placed while an earlier one of its kind stays behind (selectAcceptedInbox,
\* planBoundaryInbox).
NoOvertakingStep ==
  LET q == store.lane.inbox
  IN \A i, j \in DOMAIN q :
       (i < j /\ q[i].kind = q[j].kind /\ InLog(store', q[j].id)) =>
         q[i].id \notin inboxIds(store'.lane.inbox)
NoOvertaking == [][NoOvertakingStep]_vars

Answered(log, i) ==
  \E j \in (i + 1)..Len(log) : log[j].body.type = "assistant" /\ log[j].body.stop \notin {"error", "aborted"}

\* A run that completes has answered every user message on the branch: a message
\* queued while before_run_end runs renews the run instead of being buried by it
\* (boundary.ts finishRunBoundary).
CompletedRunsAnswerEverythingStep ==
  \A op \in OpIds :
    (store.results[op] = NoResult /\ store'.results[op].status = "completed") =>
      \A i \in DOMAIN store'.log : store'.log[i].body.type = "user" => Answered(store'.log, i)
CompletedRunsAnswerEverything == [][CompletedRunsAnswerEverythingStep]_vars

\* Placing tool results keeps the model and the tools hosts configured meanwhile:
\* only the names the results add are new (tool-placement.ts commitPlacement).
PlacementKeepsConfigStep ==
  store'.log # store.log => store'.cfg.model = store.cfg.model /\ store.cfg.tools \subseteq store'.cfg.tools

-----------------------------------------------------------------------------
(* Liveness, under Fairness.                                               *)

Settled(op) ==
  \/ store.results[op] # NoResult
  \/ store.opState[op] # NoState /\ store.opState[op].leaf.at = "deferred.suspended"

\* An accepted operation is never stranded: it ends, or it is suspended until a
\* host polls its deferred response (drive.ts driveOperation).
OperationsSettle == \A op \in OpIds : PhaseOf(store, op) = "running" ~> Settled(op)
=============================================================================
