----------------------------- MODULE Structural -----------------------------
(***************************************************************************)
(* Structural operations of a lane: compaction of a branch, asked for by a  *)
(* host, by the threshold of a checkpoint or by a reply that overflows the  *)
(* context window, and navigation to another entry of the session tree      *)
(* (runtime/drive/structural.ts, lane.ts acceptCompaction, acceptNavigation, *)
(* and the branches of checkpoint.ts and response.ts that lead there).      *)
(*                                                                         *)
(* The module adds the summary and navigation leaves to the lane and the    *)
(* run procedures of Harness; replies call no tools here.  A preparation is *)
(* abstracted to the entries it covers: what the summary and the retained   *)
(* tail made from it stand for.                                            *)
(***************************************************************************)
EXTENDS Harness, FiniteSetsExt

CONSTANTS
  Enabled,         \* settings.compaction.enabled of the harness configuration
  Overflows,       \* replies isContextOverflow or isRecoverableLength recognizes
  SummaryReplies,  \* how a summary request ends: subset of {"stop", "retryable", "fatal"}
  Decisions,       \* before_compaction / before_navigation: subset of {"decline", "hook", "metered", "generate"}
  Labels,          \* whether navigations label their target: subset of BOOLEAN
  StructuralKinds  \* what hosts ask for: subset of {"compaction", "navigation", "summarized"}

ASSUME StructuralAssumption ==
  /\ Enabled \in BOOLEAN /\ Labels \subseteq BOOLEAN
  /\ SummaryReplies \subseteq {"stop", "retryable", "fatal"}
  /\ Decisions \subseteq {"decline", "hook", "metered", "generate"}
  /\ StructuralKinds \subseteq {"compaction", "navigation", "summarized"}

VARIABLE
  nav      \* the navigation request between its preparation and its command, or Null

svars == <<vars, nav>>

-----------------------------------------------------------------------------
(* Branches of the session tree.  Parents are inserted before children, so  *)
(* a branch is a set of positions of the log.                              *)

Position(s, id) == CHOOSE i \in DOMAIN s.log : s.log[i].id = id

PathOf(s, id) ==
  LET up[i \in DOMAIN s.log] ==
        {i} \cup (IF s.log[i].parent = Null THEN {} ELSE up[Position(s, s.log[i].parent)])
  IN IF id = Null THEN {} ELSE up[Position(s, id)]

NewestCompaction(s, path) == Max({i \in path : s.log[i].body.type = "compaction"} \cup {0})

\* scanBranch with stopAtType "compaction": the newest compaction and what follows it.
BoundedPath(s, id) ==
  LET path == PathOf(s, id) IN {i \in path : i >= NewestCompaction(s, path)}

\* Entries a preparation stands for: every entry with a message, and what the
\* previous compaction already stands for.
Covered(s, path) ==
  {s.log[i].id : i \in {j \in path : s.log[j].body.type \notin {"custom", "compaction"}}}
    \cup UNION {s.log[i].body.covers : i \in {j \in path : s.log[j].body.type = "compaction"}}

NothingToCompact(s, path) == path = {} \/ s.log[Max(path)].body.type = "compaction"

prepareCompaction(s, id) == Covered(s, BoundedPath(s, id))

\* The abandoned part of the branch of `source' and its entries with a message.
prepareBranchEntries(s, source, target) ==
  {s.log[i].id : i \in {j \in PathOf(s, source) \ PathOf(s, target) :
                          s.log[j].body.type \notin {"custom", "result"}}}

-----------------------------------------------------------------------------
(* Acceptance (lane.ts).                                                   *)

Preparation(op, task, kind, covers) == <<"preparation", op, task, kind, covers>>

\* Records, leaf and preparation of an accepted structural operation.
Accept(op, kind, settings, leaf, prepared) ==
  LET meta == [kind |-> kind, source |-> mem.tip, prompt |-> <<>>]
      st   == [ctl |-> "running", settings |-> settings, latest |-> Null, leaf |-> leaf]
  IN /\ store' = [store EXCEPT !.vals = @ \cup prepared,
                               !.opMeta[op] = meta, !.opState[op] = st,
                               !.lane = durableLaneState(op, mem.inbox, mem.last)]
     /\ mem' = [mem EXCEPT !.op = [id |-> op, meta |-> meta, st |-> st]]

Deciding(task, reason, boundary, continuation, trigger, target, label) ==
  [at |-> "summary.deciding", continuation |-> continuation, trigger |-> trigger,
   task |-> [id |-> task, reason |-> reason, boundary |-> boundary, target |-> target, label |-> label]]

acceptCompaction(op, settings) ==
  LET task == Fresh(1)
  IN /\ Ready /\ ~Busy
     /\ store.opMeta[op] = NoMeta /\ store.results[op] = NoResult
     /\ ~NothingToCompact(store, BoundedPath(store, mem.tip))
     /\ Accept(op, "compaction", settings,
               Deciding(task, "manual", "finish", Null, Null, Null, FALSE),
               {Preparation(op, task, "compaction", prepareCompaction(store, mem.tip))})
     /\ ids' = ids + 1
     /\ UNCHANGED <<drive, line, idle, sent, fault, nav>>

\* What acceptNavigation reads before its command: the tip, and the abandoned
\* entries when a summary is asked for and the target exists.
Observed(req) ==
  [req EXCEPT !.tip = mem.tip,
              !.covers = IF req.summarize /\ mem.tip # Null /\ req.target # Null /\ HasEntry(store, req.target)
                         THEN prepareBranchEntries(store, mem.tip, req.target) ELSE {}]

requestNavigation(op, target, summarize, label) ==
  /\ Open /\ nav = Null
  /\ store.opMeta[op] = NoMeta /\ store.results[op] = NoResult
  /\ nav' = Observed([op |-> op, target |-> target, summarize |-> summarize, label |-> label,
                      tip |-> Null, covers |-> {}])
  /\ UNCHANGED laneVars

InvalidNavigation(req) ==
  \/ req.target = mem.tip
  \/ req.target = Null /\ req.label
  \/ req.summarize /\ (mem.tip = Null \/ req.target = Null)
  \/ req.target # Null /\ ~HasEntry(store, req.target)

\* Mutant: the command does not look at the tip again.
TipMoved_ignored(req) == FALSE
TipMoved(req) == mem.tip # req.tip

\* The command: a moved tip starts over, a refusal answers the host.
acceptNavigation(settings) ==
  /\ Ready /\ nav # Null
  /\ IF ~Busy /\ TipMoved(nav)
     THEN nav' = Observed(nav) /\ UNCHANGED <<store, mem, ids>>
     ELSE /\ nav' = Null
          /\ IF Busy \/ InvalidNavigation(nav) \/ store.opMeta[nav.op] # NoMeta \/ store.results[nav.op] # NoResult
             THEN UNCHANGED <<store, mem, ids>>
             ELSE /\ IF nav.summarize
                     THEN Accept(nav.op, "navigation", settings,
                            Deciding(Fresh(1), Null, "commit_navigation", Null, Null, nav.target, nav.label),
                            {Preparation(nav.op, Fresh(1), "branch_summary", nav.covers)})
                     ELSE Accept(nav.op, "navigation", settings,
                            [at |-> "navigation.ready_to_commit", target |-> nav.target, label |-> nav.label], {})
                  /\ ids' = ids + 1
  /\ UNCHANGED <<drive, line, idle, sent, fault>>

-----------------------------------------------------------------------------
(* Preparing an in-run compaction (checkpoint.ts, response.ts,             *)
(* structural.ts prepareCompactionThreshold, prepareOverflowCompaction).   *)

\* The trigger is covered by the newest compaction of the branch already.
GuardedByCompaction(path) ==
  LET newest == NewestCompaction(store, path)
  IN newest # 0 /\ \A i \in path : store.log[i].id = Leaf.trigger => newest >= i

TriggerMissing(path) == \A i \in path : store.log[i].id # Leaf.trigger

\* The read before the boundary is planned; shouldCompact depends on token counts.
prepareCompactionThreshold ==
  \/ CancelledTurn("threshold.read")
  \/ LET path == BoundedPath(store, mem.tip)
     IN /\ MainTurn("threshold.read") /\ ~Cancelled
        /\ IF mem.tip = Null \/ (~GuardedByCompaction(path) /\ TriggerMissing(path)) THEN Faulted
           ELSE /\ \E over \in IF CanGrow /\ ~GuardedByCompaction(path) /\ ~NothingToCompact(store, path)
                               THEN BOOLEAN ELSE {FALSE} :
                     /\ Goto("checkpoint.commit",
                             IF over THEN [task |-> Fresh(1), covers |-> prepareCompaction(store, mem.tip)] ELSE Null)
                     /\ ids' = IF over THEN ids + 1 ELSE ids
                /\ line' = Append(Tail(line), MainToken)
                /\ UNCHANGED <<store, mem, idle, sent, fault>>

\* Mutant: input that reaches the model is placed and the old preparation kept.
Supersedes_never(plan) == FALSE
\* Input that reaches the model goes first; the threshold is looked at again later.
Supersedes(plan) == plan.trigger # Null

\* runCheckpoint with a prepared threshold compaction.
checkpointOverThreshold ==
  LET plan  == planBoundaryInbox(FALSE)
      leaf  == Deciding(drive.arg.task, "threshold", "resume_checkpoint", Leaf.continuation, Leaf.trigger, Null, FALSE)
      value == Preparation(mem.op.id, drive.arg.task, "compaction", drive.arg.covers)
  IN /\ MainTurn("checkpoint.commit") /\ drive.arg # Null /\ ~Cancelled
     /\ IF plan.items # <<>> /\ ~PayloadsPresent(mem.inbox) THEN Faulted
        ELSE /\ IF Supersedes(plan)
                THEN SettleCommit(PlacedStore(plan), PlacedMem(plan),
                       WithLeaf(assistantReadyAtBoundary(plan.trigger, FALSE)), TRUE)
                ELSE SettleCommit([PlacedStore(plan) EXCEPT !.vals = @ \cup {value}], PlacedMem(plan),
                       WithLeaf(leaf), TRUE)
             /\ Committed("loop", Null, 0)

checkpointBelowThreshold ==
  At("checkpoint.commit") /\ (drive.arg = Null \/ Cancelled) /\ runCheckpoint

\* The reply in drive.arg overflows the context of an assistant request.
Overflowed == Leaf.at = "assistant.effect_pending" /\ drive.arg.reply \in Overflows

prepareOverflowCompaction ==
  LET path == BoundedPath(store, mem.tip)
      prep == IF Cancelled \/ NothingToCompact(store, path) THEN Null
              ELSE [task |-> Fresh(1), covers |-> prepareCompaction(store, mem.tip)]
  IN /\ MainTurn("publish") /\ Overflowed /\ ~Leaf.gen.overflowUsed
     /\ Goto("publish.overflow", [reply |-> drive.arg.reply, prep |-> prep])
     /\ line' = Append(Tail(line), MainToken)
     /\ ids' = IF prep = Null THEN ids ELSE ids + 1
     /\ UNCHANGED <<store, mem, idle, sent, fault>>

AfterOverflow == NeedAssistant(TRUE)

\* publishResponse of an overflowing reply: the entry and its usage row, then a
\* compaction, or the failure of the run when there is none to make.
publishOverflow(pc, prep) ==
  LET rid  == Leaf.response
      stop == IF Cancelled THEN "aborted" ELSE "error"
      s    == WithUsage(InsertEntries(store,
                << <<rid, [type |-> "assistant", stop |-> stop, calls |-> <<>>]>> >>), rid)
      m    == [mem EXCEPT !.tip = rid]
      done == [s EXCEPT !.vals = @ \ FramesOf(mem.op.id, Leaf)]
      st(leaf) == [mem.op.st EXCEPT !.latest = rid, !.leaf = leaf]
  IN /\ MainTurn(pc)
     /\ IF Cancelled
        THEN /\ SettleCommit(done, m, st(Checkpoint(MayFinish(TRUE), rid)), FALSE)
             /\ Committed("loop", Null, 0)
        ELSE IF prep = Null
        THEN /\ SettleFinish(operationCleanupWrites(s), m, operationResultRecord("failed", rid))
             /\ Committed("done", "settled", 0)
        ELSE /\ SettleCommit([done EXCEPT !.vals = @ \cup {Preparation(mem.op.id, prep.task, "compaction", prep.covers)}],
                  m, st(Deciding(prep.task, "overflow", "resume_checkpoint", AfterOverflow, Leaf.gen.trigger, Null, FALSE)),
                  FALSE)
             /\ Committed("loop", Null, 0)

publishReply ==
  \/ At("publish") /\ ~Overflowed /\ publishResponse
  \/ At("publish") /\ Overflowed /\ Leaf.gen.overflowUsed /\ publishOverflow("publish", Null)
  \/ At("publish.overflow") /\ publishOverflow("publish.overflow", drive.arg.prep)

-----------------------------------------------------------------------------
(* publishStructuralOutcome.                                               *)

Task == Leaf.task
SummaryKind == IF Task.boundary = "commit_navigation" THEN "branch_summary" ELSE "compaction"
Prepared == {v \in store.vals : v[1] = "preparation" /\ v[2] = mem.op.id /\ v[3] = Task.id /\ v[4] = SummaryKind}
Covers == (CHOOSE v \in Prepared : TRUE)[5]

Body == [type |-> SummaryKind, reason |-> Task.reason, covers |-> Covers, from |-> mem.op.meta.source]

\* Ids a hook's own summary takes: its entry and, when it is metered, its row.
HookIds(outcome, rows) == IF Leaf.at = "summary.deciding" /\ outcome = "summary" THEN 1 + Len(rows) ELSE 0

\* A branch summary hangs on the navigation's target, a compaction on the tip.
SummaryParent(s) == IF SummaryKind = "branch_summary" THEN Task.target ELSE s.tip

WithSummary(s, rid) ==
  LET moved    == InsertEntries([s EXCEPT !.tip = SummaryParent(s)], << <<rid, Body>> >>)
      labelled == Task.label /\ Task.target # Null
  IN IF labelled THEN [moved EXCEPT !.vals = @ \cup {<<"label", Task.target>>}] ELSE moved

OutcomeTip(outcome, rid) == IF outcome = "summary" THEN rid ELSE mem.tip

\* Mutant: what a hook declines is recorded as aborted.
FinishStatus_aborts(outcome) == CASE outcome = "summary" -> "completed" [] outcome = "declined" -> "aborted" [] OTHER -> "failed"
FinishStatus(outcome) == CASE outcome = "summary" -> "completed" [] outcome = "declined" -> "declined" [] OTHER -> "failed"

\* The run goes on after its compaction, or after a declined threshold.
resumeCheckpoint(outcome, s, rid, rows) ==
  LET declined  == outcome = "declined"
      mayFinish == Leaf.continuation.kind = "may_finish"
      plan      == planBoundaryInbox(declined /\ mayFinish)
      items     == pendingEntryWrite(plan.items)
      placed    == [InsertEntries(s, items) EXCEPT !.vals = @ \ PendingOf(plan.items)]
      m         == [mem EXCEPT !.tip = TipAfter(OutcomeTip(outcome, rid), items), !.inbox = plan.inbox]
      leaf      == IF plan.trigger # Null THEN assistantReadyAtBoundary(plan.trigger, FALSE)
                   ELSE IF ~mayFinish THEN assistantReadyAtBoundary(Leaf.trigger, Leaf.continuation.flag)
                   ELSE Checkpoint(Leaf.continuation, Leaf.trigger)
  IN IF plan.items # <<>> /\ ~PayloadsPresent(mem.inbox) THEN Faulted
     ELSE IF declined /\ plan.trigger = Null /\ mayFinish
     THEN /\ drive' = [drive EXCEPT !.pc = "finish.read", !.arg = PlannedIds(plan)]
          /\ line' = Append(Tail(line), MainToken)
          /\ UNCHANGED <<store, mem, idle, ids, sent, fault>>
     ELSE /\ SettleCommit(placed, m, WithLeaf(leaf), TRUE)
          /\ Committed("loop", Null, HookIds(outcome, rows))

\* outcome: "summary", "declined" or "failed"; rid: the entry of a summary;
\* rows: the usage row of a hook's own summary.
publishStructuralOutcome(pc, outcome, rid, rows) ==
  LET s0 == [store EXCEPT !.usage = @ \o rows]
      s  == IF outcome = "summary" THEN WithSummary(s0, rid) ELSE s0
      m  == [mem EXCEPT !.tip = OutcomeTip(outcome, rid)]
      resumes == outcome = "summary" \/ (outcome = "declined" /\ Task.reason = "threshold")
      tip     == OutcomeTip(outcome, rid)
  IN /\ MainTurn(pc) /\ ~Cancelled
     /\ IF Task.boundary = "resume_checkpoint" /\ resumes
        THEN resumeCheckpoint(outcome, s, rid, rows)
        ELSE IF tip = Null THEN Faulted
        ELSE /\ SettleFinish(operationCleanupWrites(s), m,
                  operationResultRecord(IF Task.boundary = "resume_checkpoint" THEN "failed" ELSE FinishStatus(outcome), tip))
             /\ Committed("done", "settled", HookIds(outcome, rows))

-----------------------------------------------------------------------------
(* The decision and one generation attempt.                                *)

\* What a structural procedure carries along: how the last hook or request ended
\* and the requests the attempt still makes.
Summary(reply, left) == [reply |-> reply, left |-> left]

TargetMissing == Task.boundary = "commit_navigation" /\ ~HasEntry(store, Task.target)

decisionRead == ReadThenHook("decide.read", Prepared = {} \/ TargetMissing, "decide.hook")
decisionHook ==
  HookReturns("decide.hook", "decide.commit", {Summary(d, 0) : d \in IF CanGrow THEN Decisions ELSE {"decline"}})

runStructuralDecision ==
  \/ CancelledTurn("decide.commit")
  \/ At("decide.commit") /\ drive.arg.reply = "decline" /\ publishStructuralOutcome("decide.commit", "declined", Null, <<>>)
  \/ At("decide.commit") /\ drive.arg.reply = "hook" /\ publishStructuralOutcome("decide.commit", "summary", Fresh(1), <<>>)
  \/ At("decide.commit") /\ drive.arg.reply = "metered" /\ publishStructuralOutcome("decide.commit", "summary", Fresh(1), <<Fresh(2)>>)
  \/ /\ MainTurn("decide.commit") /\ ~Cancelled /\ drive.arg.reply = "generate"
     /\ SettleCommit(store, mem,
          WithLeaf([Leaf EXCEPT !.at = "summary.ready"] @@ [result |-> Fresh(1), cfg |-> mem.cfg, attempt |-> 1]), FALSE)
     /\ Committed("loop", Null, 1)

readAttemptPreparation ==
  \/ CancelledTurn("attempt.read")
  \/ /\ MainTurn("attempt.read") /\ ~Cancelled
     /\ IF Prepared = {} THEN Faulted
        ELSE /\ Goto(IF Leaf.cfg.model \in DownModels THEN "attempt.publish" ELSE "attempt.intent", Summary("fatal", 0))
             /\ line' = Append(Tail(line), MainToken)
             /\ UNCHANGED <<store, mem, idle, ids, sent, fault>>

\* Requests one attempt makes: a split turn takes two, an abandoned branch
\* without messages none.
NestedRequests == IF SummaryKind = "compaction" THEN {1, 2} ELSE IF Covers = {} THEN {0} ELSE {1}

publishAttemptIntent ==
  \/ CancelledTurn("attempt.intent")
  \/ /\ MainTurn("attempt.intent") /\ ~Cancelled
     /\ SettleCommit(store, mem,
          WithLeaf([Leaf EXCEPT !.at = "summary.effect_pending"] @@ [usage |-> <<>>, request |-> Null]), FALSE)
     /\ \E n \in NestedRequests :
          IF n = 0 THEN /\ Goto("attempt.publish", Summary("stop", 0)) /\ line' = Append(Tail(line), MainToken)
          ELSE Goto("nested.admit", Summary("stop", n)) /\ line' = Tail(line)
     /\ UNCHANGED <<idle, ids, sent, fault>>

\* before_request of a summary request is gated.
admitNestedHook ==
  /\ At("nested.admit")
  /\ Goto(IF GateOpen THEN "nested.hook" ELSE "wait", drive.arg)
  /\ UNCHANGED <<store, mem, line, idle, ids, sent, fault>>

nestedHookReturns == HookReturns("nested.hook", "nested.intent", {drive.arg})

publishNestedRequestIntent ==
  \/ CancelledTurn("nested.intent")
  \/ /\ MainTurn("nested.intent") /\ ~Cancelled
     /\ SettleCommit(store, mem, WithLeaf([Leaf EXCEPT !.request = Fresh(1)]), FALSE)
     /\ Committed("nested.gate", drive.arg, 1)

admitNestedRequest ==
  /\ At("nested.gate")
  /\ Goto(IF GateOpen THEN "nested.effect" ELSE "wait", drive.arg)
  /\ UNCHANGED <<store, mem, line, idle, ids, sent, fault>>

nestedReplies ==
  /\ At("nested.effect")
  /\ \E r \in (IF CanGrow THEN SummaryReplies ELSE {"fatal"}) \cup (IF drive.gate = "signalled" THEN {"aborted"} ELSE {}) :
       Queue("nested.settle", Summary(r, drive.arg.left))
  /\ UNCHANGED <<store, mem, idle, ids, sent, fault>>

\* The request is metered even when the operation was cancelled meanwhile.
publishNestedRequestOutcome ==
  LET r    == drive.arg.reply
      more == r = "stop" /\ drive.arg.left > 1
  IN /\ MainTurn("nested.settle")
     /\ IF r = "aborted" /\ ~Cancelled THEN Faulted
        ELSE /\ SettleCommit([store EXCEPT !.usage = Append(@, Leaf.request)], mem,
                  WithLeaf([Leaf EXCEPT !.usage = Append(@, Leaf.request), !.request = Null]), FALSE)
             /\ IF more THEN Goto("nested.admit", Summary(r, drive.arg.left - 1)) /\ line' = Tail(line)
                ELSE Goto("attempt.publish", drive.arg) /\ line' = Append(Tail(line), MainToken)
             /\ UNCHANGED <<idle, ids, sent, fault>>

retryWaitFromEffect ==
  /\ SettleCommit(store, mem,
       WithLeaf([at |-> "summary.retry_wait", continuation |-> Leaf.continuation, trigger |-> Leaf.trigger,
                 task |-> Leaf.task, result |-> Leaf.result, cfg |-> Leaf.cfg, attempt |-> Leaf.attempt + 1]), FALSE)
  /\ Committed("loop", Null, 0)

publishAttemptResult ==
  \/ CancelledTurn("attempt.publish")
  \/ At("attempt.publish") /\ drive.arg.reply = "stop" /\ publishStructuralOutcome("attempt.publish", "summary", Leaf.result, <<>>)
  \/ /\ MainTurn("attempt.publish") /\ ~Cancelled
     /\ drive.arg.reply = "retryable" /\ Leaf.attempt < MaxAttempts
     /\ retryWaitFromEffect
  \/ /\ At("attempt.publish") /\ drive.arg.reply \in {"fatal", "retryable"}
     /\ drive.arg.reply = "retryable" => Leaf.attempt >= MaxAttempts
     /\ publishStructuralOutcome("attempt.publish", "failed", Null, <<>>)

\* An attempt orphaned by a restart.
recoverStructuralGeneration ==
  \/ CancelledTurn("orphan.commit")
  \/ MainTurn("orphan.commit") /\ ~Cancelled /\ Leaf.attempt < MaxAttempts /\ retryWaitFromEffect
  \/ /\ At("orphan.commit") /\ Leaf.attempt >= MaxAttempts
     /\ publishStructuralOutcome("orphan.commit", "failed", Null, <<>>)

structuralRetryCommit ==
  \/ CancelledTurn("summary.retry")
  \/ /\ MainTurn("summary.retry") /\ ~Cancelled
     /\ SettleCommit(store, mem, WithLeaf([Leaf EXCEPT !.at = "summary.ready"]), FALSE)
     /\ Committed("loop", Null, 0)

\* The unsummarized move and the result, in one commit.
commitNavigation ==
  \/ CancelledTurn("navigate.commit")
  \/ LET labels == IF Leaf.label /\ Leaf.target # Null THEN {<<"label", Leaf.target>>} ELSE {}
     IN /\ MainTurn("navigate.commit") /\ ~Cancelled
        /\ IF \/ Leaf.target # Null /\ ~HasEntry(store, Leaf.target)
              \/ Leaf.target = mem.op.meta.source
              \/ Leaf.target = Null /\ Leaf.label
           THEN Faulted
           ELSE /\ SettleFinish(operationCleanupWrites([store EXCEPT !.tip = Leaf.target, !.vals = @ \cup labels]),
                     [mem EXCEPT !.tip = Leaf.target], operationResultRecord("completed", Leaf.target))
                /\ Committed("done", "settled", 0)

-----------------------------------------------------------------------------
(* The drive's dispatch with the structural leaves (drive.ts).             *)

StructuralLeaves == {"summary.deciding", "summary.ready", "summary.effect_pending", "summary.retry_wait",
                     "navigation.ready_to_commit"}

StructuralProcedure ==
  CASE Leaf.at = "checkpoint" ->
         IF ~Enabled \/ mem.cfg.model \in DownModels THEN "checkpoint.commit" ELSE "threshold.read"
    [] Leaf.at = "summary.deciding"           -> "decide.read"
    [] Leaf.at = "summary.ready"              -> "attempt.read"
    [] Leaf.at = "summary.effect_pending"     -> "orphan.commit"
    [] Leaf.at = "navigation.ready_to_commit" -> "navigate.commit"

structuralDispatch ==
  IF At("loop") /\ (DriveBroken \/ Cancelled \/ Leaf.at \notin StructuralLeaves \cup {"checkpoint"})
  THEN Dispatch
  ELSE /\ At("loop") /\ Leaf.at # "summary.retry_wait"
       /\ drive' = [drive EXCEPT !.pc = StructuralProcedure, !.seen = mem.op.st]
       /\ line' = Append(line, MainToken)
       /\ UNCHANGED <<store, mem, idle, ids, sent, fault>>

runStructuralRetryWait ==
  /\ At("loop") /\ ~DriveBroken /\ ~Cancelled
  /\ Leaf.at = "summary.retry_wait"
  /\ \/ /\ drive' = [drive EXCEPT !.pc = "summary.retry", !.seen = mem.op.st]
        /\ line' = Append(line, MainToken)
     \/ /\ ~drive.waitForRetry
        /\ Goto("done", "retry") /\ UNCHANGED line
     \/ /\ drive.waitForRetry
        /\ drive' = [drive EXCEPT !.pc = IF GateOpen THEN "summary.timer" ELSE "wait", !.seen = mem.op.st]
        /\ UNCHANGED line
  /\ UNCHANGED <<store, mem, idle, ids, sent, fault>>

structuralTimer ==
  /\ At("summary.timer")
  /\ \/ Queue("summary.retry", Null)
     \/ drive.gate = "signalled" /\ Goto("wait", Null) /\ UNCHANGED line
  /\ UNCHANGED <<store, mem, idle, ids, sent, fault>>

-----------------------------------------------------------------------------
(* The lane with structural operations.                                    *)

StructuralInit == Init /\ nav = Null

Targets == {e.id : e \in ToSet(store.log)} \cup {Null} \cup Msgs

StructuralHostStep ==
  \/ HostStep /\ UNCHANGED nav
  \/ "compaction" \in StructuralKinds /\ CanGrow /\ \E op \in OpIds, settings \in RunSettings : acceptCompaction(op, settings)
  \/ \E settings \in RunSettings : acceptNavigation(settings)
  \/ \E op \in OpIds, target \in Targets, label \in Labels :
       \/ "navigation" \in StructuralKinds /\ requestNavigation(op, target, FALSE, label)
       \/ "summarized" \in StructuralKinds /\ requestNavigation(op, target, TRUE, label)

\* The steps of a run that calls no tools and defers no response.
PlainRunStep ==
  \/ completeDrive \/ awaitCancellation \/ beginDrive \/ beforeDriveReturns \/ structuralDispatch
  \/ runRetryWait \/ retryTimer \/ retryCommit
  \/ startRead \/ beforeRunReturns \/ startCommit
  \/ prepareCompactionThreshold \/ checkpointOverThreshold \/ checkpointBelowThreshold
  \/ finishRead \/ beforeRunEndReturns \/ finishRunBoundary
  \/ requestRead \/ beforeRequestReturns \/ publishConfigurationFailure \/ publishGenerationIntent
  \/ admitTransform \/ admitRequest \/ providerReplies \/ afterResponseReturns \/ droppedResponse
  \/ prepareOverflowCompaction \/ publishReply \/ recoverAssistantGeneration \/ recoverCancelledAssistantEffect
  \/ publishAbortedTerminal

SummaryStep ==
  \/ decisionRead \/ decisionHook \/ runStructuralDecision
  \/ readAttemptPreparation \/ publishAttemptIntent \/ admitNestedHook \/ nestedHookReturns
  \/ publishNestedRequestIntent \/ admitNestedRequest \/ nestedReplies \/ publishNestedRequestOutcome
  \/ publishAttemptResult \/ recoverStructuralGeneration
  \/ runStructuralRetryWait \/ structuralTimer \/ structuralRetryCommit
  \/ commitNavigation

StructuralDriveStep == (PlainRunStep \/ SummaryStep) /\ UNCHANGED <<toolVars, stops, nav>>

StructuralNext ==
  \/ StructuralHostStep /\ UNCHANGED <<toolVars, stops>>
  \/ (DriveCallStep \/ LineStep) /\ UNCHANGED <<toolVars, stops, nav>>
  \/ StructuralDriveStep
  \/ RestoreStep /\ UNCHANGED <<stops, nav>>
  \/ StopStep /\ nav' = Null
  \/ Rest /\ UNCHANGED nav

StructuralSpec == StructuralInit /\ [][StructuralNext]_svars

\* As Harness!Fairness: promises settle, hosts reopen and keep driving.
StructuralFairSpec ==
  /\ StructuralSpec
  /\ WF_svars(DriveCallStep /\ UNCHANGED <<toolVars, stops, nav>>)
  /\ WF_svars(LineStep /\ UNCHANGED <<toolVars, stops, nav>>)
  /\ WF_svars(StructuralDriveStep)
  /\ WF_svars(RestoreStep /\ UNCHANGED <<stops, nav>>)

-----------------------------------------------------------------------------
(* Properties.                                                             *)

Spoken(i) == \/ Log[i].body.type \in {"user", "branch_summary"}
             \/ Log[i].body.type = "assistant" /\ Log[i].body.stop \notin {"error", "aborted"}

\* A compaction entry hides the branch below it from the model, and it stands for
\* all of it: no message, answer or branch summary below it was left out of the
\* preparation, although the preparation is read before the boundary or the
\* settlement that stores it (checkpoint.ts runCheckpoint, response.ts
\* publishResponse, structural.ts publishStructuralOutcome).
CompactionCoversBranch ==
  \A c \in DOMAIN Log : Log[c].body.type = "compaction" =>
    \A i \in PathOf(store, Log[c].parent) : Spoken(i) => Log[i].id \in Log[c].body.covers

\* A branch summary stands for every message of the branch the lane left, which is
\* the branch at the moment it was accepted, not the one its reader saw first
\* (lane.ts acceptNavigation).
SummaryCoversAbandoned ==
  \A e \in ToSet(Log) : e.body.type = "branch_summary" =>
    \A i \in PathOf(store, e.body.from) \ PathOf(store, e.parent) : Spoken(i) => Log[i].id \in e.body.covers

\* Automatic compaction cannot feed on itself: a threshold compaction follows every
\* earlier compaction of its branch, and an overflow compaction every earlier
\* overflow compaction, with something new for the model in between, so neither a
\* branch that stays over its threshold nor a model that keeps overflowing makes the
\* run compact for ever (structural.ts prepareCompactionThreshold, response.ts).
CompactionsMakeProgress ==
  \A c \in DOMAIN Log :
    (Log[c].body.type = "compaction" /\ Log[c].body.reason # "manual") =>
      LET path    == PathOf(store, Log[c].parent)
          earlier == {i \in path : /\ Log[i].body.type = "compaction"
                                   /\ Log[c].body.reason = "overflow" => Log[i].body.reason = "overflow"}
      IN earlier # {} => \E i \in path : i > Max(earlier) /\ Spoken(i)

\* A structural operation moves the branch exactly when it completes: compaction to
\* its entry on the old tip, navigation to its target or to the summary on it; one
\* that is declined, fails or is aborted, at whatever leaf, leaves the tip where it
\* was accepted (structural.ts publishStructuralOutcome, reconcile.ts).
StructuralResultsExact ==
  \A op \in OpIds :
    LET r == store.results[op]
    IN (r # NoResult /\ r.kind \in {"compaction", "navigation"}) =>
         IF r.status # "completed" THEN r.tip = r.from
         ELSE IF r.kind = "compaction"
         THEN Entry(store, r.tip).body.type = "compaction" /\ Entry(store, r.tip).parent = r.from
         ELSE r.tip # r.from /\ r.tip \in Targets

\* Preparations outlive nothing: they belong to the current operation, and every
\* summary leaf still has the preparation it needs, across restarts and repeated
\* compactions of one run (terminal.ts operationCleanupWrites).
PreparationsOwned ==
  /\ \A v \in ValuesOf("preparation") : v[2] = Current
  /\ (Current # Null /\ CurrentLeaf.at \in StructuralLeaves \ {"navigation.ready_to_commit"}) =>
       Cardinality({v \in ValuesOf("preparation") : v[3] = CurrentLeaf.task.id}) = 1
=============================================================================
