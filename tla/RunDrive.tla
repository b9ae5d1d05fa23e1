------------------------------ MODULE RunDrive ------------------------------
(***************************************************************************)
(* The procedures one drive pass runs over a run operation                 *)
(* (runtime/drive.ts and runtime/drive/*.ts): start, checkpoint and finish  *)
(* boundary, assistant generation, response settlement, retry wait,        *)
(* recovery of an orphaned request, deferred polling and reconciliation    *)
(* of a cancelled operation.  Tool batches are in ToolBatch.               *)
(*                                                                         *)
(* A procedure alternates between commands on the mutation line and awaits *)
(* outside it.  `drive.pc' names the await the pass is at: while it waits  *)
(* for a command its token is in `line', otherwise it waits for a hook, a   *)
(* provider, a timer or the release of a cancellation.                     *)
(*                                                                         *)
(* Branches here stay below their compaction threshold and replies never   *)
(* overflow the context window: the summary leaves those lead to are in    *)
(* Structural.                                                             *)
(***************************************************************************)
EXTENDS Lane

CONSTANTS
  Replies,      \* provider answers while the session may still grow
  LastReplies,  \* provider answers once MaxIds ids are minted
  BeforeDrive,  \* how before_drive hooks end: subset of {"ok", "fail"}
  DownModels,   \* models the registry does not have
  ToolRegistry, \* tools the application registers
  MaxAttempts   \* normalized retry policy: requests per assistant step

ASSUME AttemptsAssumption == MaxAttempts \in Nat \ {0}

ASSUME RepliesAssumption ==
  \A r \in Replies \cup LastReplies :
    /\ r.stop \in {"stop", "length", "toolUse", "error", "deferred"}
    /\ r.retryable \in BOOLEAN /\ r.validHandle \in BOOLEAN
    /\ r.calls \in Seq(ToolNames)

Leaf == mem.op.st.leaf
CanGrow == ids < MaxIds

\* The next id of the session's id generator, `n' after the current one.
Fresh(n) == ids + n

WithLeaf(leaf) == [mem.op.st EXCEPT !.leaf = leaf]

Checkpoint(continuation, trigger) ==
  [at |-> "checkpoint", continuation |-> continuation, trigger |-> trigger]
NeedAssistant(overflowUsed) == [kind |-> "need_assistant", flag |-> overflowUsed]
MayFinish(includeFinal) == [kind |-> "may_finish", flag |-> includeFinal]

-----------------------------------------------------------------------------
(* Steps every procedure is made of.                                       *)

\* A read-only continueOperation command and the gated hook after it: a
\* cancelled operation goes back to the loop, a read that finds its data
\* `broken' throws, a closed gate waits for the cancellation to become durable,
\* otherwise the hook is admitted.
ReadThenHook(from, broken, hook) ==
  /\ MainTurn(from)
  /\ IF ~Cancelled /\ broken THEN Faulted
     ELSE /\ line' = Tail(line)
          /\ CASE Cancelled -> Goto("loop", Null)
               [] ~GateOpen -> Goto("wait", Null)
               [] OTHER     -> Goto(hook, drive.arg)
          /\ UNCHANGED <<store, mem, idle, ids, sent, fault>>

\* A hook settles; the procedure queues its next command.
HookReturns(hook, next, results) ==
  /\ At(hook)
  /\ \E r \in results : Queue(next, r)
  /\ UNCHANGED <<store, mem, idle, ids, sent, fault>>

\* continueOperation answers cancel_requested without running the planner.
CancelledTurn(pc) ==
  /\ MainTurn(pc) /\ Cancelled
  /\ line' = Tail(line)
  /\ Goto("loop", Null)
  /\ UNCHANGED <<store, mem, idle, ids, sent, fault>>

\* Bookkeeping of a command of the drive that committed.
Committed(pc, arg, minted) ==
  /\ line' = Tail(line)
  /\ Goto(pc, arg)
  /\ ids' = ids + minted
  /\ UNCHANGED <<idle, sent, fault>>

\* AbortRequested: await the cancellation, then look at the state again.
awaitCancellation ==
  /\ At("wait") /\ drive.released
  /\ Goto("loop", Null)
  /\ UNCHANGED <<store, mem, line, idle, ids, sent, fault>>

-----------------------------------------------------------------------------
(* driveOperation.                                                         *)

\* before_drive runs once per pass unless the operation is already cancelled.
beginDrive ==
  /\ At("begin")
  /\ IF ~Busy \/ mem.op.id # drive.id THEN Faulted
     ELSE /\ CASE Cancelled           -> Goto("loop", Null)
               [] ~GateOpen -> Goto("wait", Null)
               [] OTHER               -> Goto("before_drive", Null)
          /\ UNCHANGED <<store, mem, line, idle, ids, sent, fault>>

\* A before_drive failure rejects the pass, and Lane.drive faults the harness for
\* every rejected pass; other hooks report their errors and go on.
beforeDriveReturns ==
  /\ At("before_drive")
  /\ \E r \in BeforeDrive :
       IF r = "fail" THEN Faulted
       ELSE Goto("loop", Null) /\ UNCHANGED <<store, mem, line, idle, ids, sent, fault>>

\* The registry lacks the captured model or one of the captured tools.
Unconfigured(cfg) ==
  cfg.model \in DownModels \/ ~(cfg.tools \subseteq ToolRegistry)

\* The procedure of a running leaf, and what it first awaits.
Procedure(at) ==
  CASE at = "starting"                 -> "start.read"
    [] at = "checkpoint"               -> "checkpoint.commit"
    [] at = "assistant.ready"          -> IF Unconfigured(Leaf.gen.cfg) THEN "fail.commit" ELSE "request.read"
    [] at = "assistant.effect_pending" -> "recover.read"
    [] at = "tools"                    -> "tools.source"
    [] OTHER                           -> "poll.read" \* deferred.suspended, deferred.effect_pending

\* The reconciliation of a cancelled leaf.
Reconciliation(at) ==
  CASE at = "assistant.effect_pending" -> "settle.read"
    [] at = "tools"                    -> "tools.source"
    [] at \in {"deferred.suspended", "deferred.effect_pending"} -> "cancel.handle"
    [] OTHER                           -> "cancel.finish"

\* The pass has lost its operation, or its last procedure changed nothing.
DriveBroken ==
  \/ ~Busy \/ mem.op.id # drive.id
  \/ drive.seen = mem.op.st /\ ~Cancelled

Dispatch ==
  /\ At("loop")
  /\ IF DriveBroken THEN Faulted
     ELSE /\ IF Cancelled
             THEN drive' = [drive EXCEPT
                    !.pc = Reconciliation(Leaf.at), !.seen = mem.op.st,
                    !.released = @ \/ GateOpen,
                    !.gate = "signalled"]
             ELSE /\ Leaf.at # "assistant.retry_wait"
                  /\ drive' = [drive EXCEPT !.pc = Procedure(Leaf.at), !.seen = mem.op.st]
          /\ line' = Append(line, MainToken)
          /\ UNCHANGED <<store, mem, idle, ids, sent, fault>>

\* runRetryWait: the delay may have elapsed already; a pass that does not wait
\* reports the wait; a pass that waits admits the timer through its gate.
runRetryWait ==
  /\ At("loop") /\ ~DriveBroken /\ ~Cancelled
  /\ Leaf.at = "assistant.retry_wait"
  /\ \/ /\ drive' = [drive EXCEPT !.pc = "retry.commit", !.seen = mem.op.st]
        /\ line' = Append(line, MainToken)
     \/ /\ ~drive.waitForRetry
        /\ Goto("done", "retry") /\ UNCHANGED line
     \/ /\ drive.waitForRetry
        /\ drive' = [drive EXCEPT !.pc = IF GateOpen THEN "timer" ELSE "wait", !.seen = mem.op.st]
        /\ UNCHANGED line
  /\ UNCHANGED <<store, mem, idle, ids, sent, fault>>

\* Mutant: only an abort ends the wait.
retryTimer_neverFires ==
  /\ At("timer")
  /\ drive.gate = "signalled" /\ Goto("wait", Null)
  /\ UNCHANGED <<store, mem, line, idle, ids, sent, fault>>

\* The timer fires, or the gate's signal rejects it with AbortRequested.
retryTimer ==
  /\ At("timer")
  /\ \/ Queue("retry.commit", Null)
     \/ drive.gate = "signalled" /\ Goto("wait", Null) /\ UNCHANGED line
  /\ UNCHANGED <<store, mem, idle, ids, sent, fault>>

retryCommit ==
  \/ CancelledTurn("retry.commit")
  \/ /\ MainTurn("retry.commit") /\ ~Cancelled
     /\ SettleCommit(store, mem,
          WithLeaf([at |-> "assistant.ready", gen |-> Leaf.gen, attempt |-> Leaf.attempt]), FALSE)
     /\ Committed("loop", Null, 0)

-----------------------------------------------------------------------------
(* checkpoint.ts startRun.                                                 *)

\* The prompt's entries must be on record.
startRead ==
  ReadThenHook("start.read", \E id \in ToSet(mem.op.meta.prompt) : ~HasEntry(store, id), "start.hook")

\* before_run may inject messages.
beforeRunReturns == HookReturns("start.hook", "start.commit", IF CanGrow THEN {0, 1} ELSE {0})

startCommit ==
  \/ CancelledTurn("start.commit")
  \/ LET items   == [i \in 1..drive.arg |-> <<Fresh(i), [type |-> "user"]>>]
         trigger == TipAfter(mem.tip, items)
     IN /\ MainTurn("start.commit") /\ ~Cancelled
        /\ IF trigger = Null THEN Faulted
           ELSE /\ SettleCommit(InsertEntries(store, items), [mem EXCEPT !.tip = trigger],
                     WithLeaf(Checkpoint(NeedAssistant(FALSE), trigger)), FALSE)
                /\ Committed("loop", Null, drive.arg)

-----------------------------------------------------------------------------
(* boundary.ts.                                                            *)

assistantReadyAtBoundary(trigger, overflowUsed) ==
  [at |-> "assistant.ready", attempt |-> 1,
   gen |-> [trigger |-> trigger, cfg |-> mem.cfg, overflowUsed |-> overflowUsed]]

Projects(id) == id \notin Notes

\* Mutant: a follow-up does not count as something to answer.
Triggers_withoutFollowUps(items) ==
  ItemsAt(items, {i \in DOMAIN items : items[i].kind # "followUp" /\ Projects(items[i].id)})
\* The placed items that ask for an answer.
Triggers(items) == ItemsAt(items, {i \in DOMAIN items : Projects(items[i].id)})

\* Items a boundary places: all writes and the steers of the mode; when none of
\* them reaches the model and the boundary may finish, the follow-ups too.
planBoundaryInbox(followUpAllowed) ==
  LET settings == mem.op.st.settings
      base     == inboxIds(inboxItems(mem.inbox, {"write"}))
                    \cup inboxIds(firstOrAll(settings.steering, inboxItems(mem.inbox, {"steer"})))
      taken    == IF followUpAllowed /\ \A id \in base : ~Projects(id)
                  THEN base \cup inboxIds(firstOrAll(settings.followUp, inboxItems(mem.inbox, {"followUp"})))
                  ELSE base
      items    == itemsOf(mem.inbox, taken)
      triggers == Triggers(items)
  IN [items   |-> items,
      inbox   |-> withoutInboxItems(mem.inbox, taken),
      trigger |-> IF triggers = <<>> THEN Null ELSE Last(triggers).id]

\* Store and projection after a boundary's placement.
PlacedStore(plan) ==
  [InsertEntries(store, pendingEntryWrite(plan.items)) EXCEPT !.vals = @ \ PendingOf(plan.items)]
PlacedMem(plan) ==
  [mem EXCEPT !.tip = TipAfter(@, pendingEntryWrite(plan.items)), !.inbox = plan.inbox]

PlannedIds(plan) == [i \in DOMAIN plan.items |-> plan.items[i].id]

runCheckpoint ==
  \/ CancelledTurn("checkpoint.commit")
  \/ LET mayFinish == Leaf.continuation.kind = "may_finish"
         plan      == planBoundaryInbox(mayFinish)
         ready     == IF plan.trigger # Null
                      THEN assistantReadyAtBoundary(plan.trigger, FALSE)
                      ELSE assistantReadyAtBoundary(Leaf.trigger, Leaf.continuation.flag)
     IN /\ MainTurn("checkpoint.commit") /\ ~Cancelled
        /\ IF plan.items # <<>> /\ ~PayloadsPresent(mem.inbox) THEN Faulted
           ELSE IF plan.trigger # Null \/ ~mayFinish
           THEN /\ SettleCommit(PlacedStore(plan), PlacedMem(plan), WithLeaf(ready), TRUE)
                /\ Committed("loop", Null, 0)
           ELSE \* finish_pending: nothing is written, finishRunBoundary goes on
                /\ drive' = [drive EXCEPT !.pc = "finish.read", !.arg = PlannedIds(plan)]
                /\ line' = Append(Tail(line), MainToken)
                /\ UNCHANGED <<store, mem, idle, ids, sent, fault>>

finishRead == ReadThenHook("finish.read", mem.tip = Null, "finish.hook")

\* before_run_end may ask for one more user message.
beforeRunEndReturns ==
  HookReturns("finish.hook", "finish.commit",
    {[planned |-> drive.arg, followUp |-> f] : f \in IF CanGrow THEN BOOLEAN ELSE {FALSE}})

\* Values the terminal transaction deletes (terminal.ts operationCleanupWrites).
OwnedByPrefix(op) == {v \in store.vals : v[1] \in {"args", "memo", "output", "preparation"} /\ v[2] = op}
StagedOutcomes(leaf) ==
  IF leaf.at # "tools" THEN {}
  ELSE {PendingEntry(leaf.calls[i].result) : i \in {j \in DOMAIN leaf.calls : leaf.calls[j].status = "outcome_ready"}}
FramesOf(op, leaf) ==
  IF leaf.at \in {"assistant.effect_pending", "deferred.effect_pending"}
  THEN {PendingFrames(op, leaf.response)} ELSE {}

operationCleanupWrites(s) ==
  LET op == mem.op.id
  IN [s EXCEPT !.opMeta[op] = NoMeta, !.opState[op] = NoState,
               !.vals = @ \ (OwnedByPrefix(op) \cup FramesOf(op, Leaf) \cup StagedOutcomes(Leaf))]

\* Replan after before_run_end: renewed work, the hook's message if the plan is
\* still the one the hook saw, or the completed result.
finishRunBoundary ==
  \/ CancelledTurn("finish.commit")
  \/ LET plan    == planBoundaryInbox(TRUE)
         s       == PlacedStore(plan)
         m       == PlacedMem(plan)
         current == PlannedIds(plan) = drive.arg.planned
         item    == <<Fresh(1), [type |-> "user"]>>
     IN /\ MainTurn("finish.commit") /\ ~Cancelled
        /\ IF plan.items # <<>> /\ ~PayloadsPresent(mem.inbox) THEN Faulted
           ELSE IF plan.trigger # Null
           THEN /\ SettleCommit(s, m, WithLeaf(assistantReadyAtBoundary(plan.trigger, FALSE)), TRUE)
                /\ Committed("loop", Null, 0)
           ELSE IF current /\ drive.arg.followUp
           THEN /\ SettleCommit(InsertEntries(s, <<item>>), [m EXCEPT !.tip = Fresh(1)],
                     WithLeaf(assistantReadyAtBoundary(Fresh(1), FALSE)), TRUE)
                /\ Committed("loop", Null, 1)
           ELSE IF m.tip = Null \/ (Leaf.continuation.flag /\ mem.op.st.latest = Null) THEN Faulted
           ELSE /\ SettleFinish(operationCleanupWrites(s), m, operationResultRecord("completed", m.tip))
                /\ Committed("done", "settled", 0)

-----------------------------------------------------------------------------
(* generation.ts and deferred.ts: one provider request.                    *)

requestRead == ReadThenHook("request.read", mem.tip = Null, "request.hook")
beforeRequestReturns == HookReturns("request.hook", "request.intent", {Null})

publishConfigurationFailure ==
  \/ CancelledTurn("fail.commit")
  \/ /\ MainTurn("fail.commit") /\ ~Cancelled
     /\ IF mem.tip = Null THEN Faulted
        ELSE /\ SettleFinish(operationCleanupWrites(store), mem, operationResultRecord("failed", mem.tip))
             /\ Committed("done", "settled", 0)

\* The intent is durable before the provider is called; it reserves the ids of
\* the response and of its usage row.
publishGenerationIntent ==
  \/ CancelledTurn("request.intent")
  \/ /\ MainTurn("request.intent") /\ ~Cancelled
     /\ SettleCommit(store, mem,
          WithLeaf([at |-> "assistant.effect_pending", gen |-> Leaf.gen,
                    attempt |-> Leaf.attempt, response |-> Fresh(1)]), FALSE)
     /\ Committed("request.admit", Null, 1)

\* transform_context is gated, and so is the request itself after it.
admitTransform ==
  /\ At("request.admit")
  /\ Goto(IF GateOpen THEN "request.transform" ELSE "wait", Null)
  /\ UNCHANGED <<store, mem, line, idle, ids, sent, fault>>

admitRequest ==
  /\ At("request.transform")
  /\ Goto(IF GateOpen THEN "request.effect" ELSE "wait", Null)
  /\ UNCHANGED <<store, mem, line, idle, ids, sent, fault>>

\* Streamed partials, fenced by the response id of the durable intent.
appendFrame ==
  /\ At("request.effect") /\ ~idle
  /\ Leaf.at \in {"assistant.effect_pending", "deferred.effect_pending"}
  /\ store' = [store EXCEPT !.vals = @ \cup {PendingFrames(drive.id, Leaf.response)}]
  /\ UNCHANGED <<mem, drive, line, idle, ids, sent, fault>>

AbortedReply == [stop |-> "aborted", calls |-> <<>>, retryable |-> FALSE, validHandle |-> FALSE]

\* The stream ends.  after_response is gated: refused, the answer waits for the
\* cancellation to become durable before it is published.
providerReplies ==
  /\ At("request.effect")
  /\ \E r \in (IF CanGrow THEN Replies ELSE LastReplies)
               \cup (IF drive.gate = "signalled" THEN {AbortedReply} ELSE {}) :
       Goto(IF GateOpen THEN "request.after" ELSE "request.drop", [reply |-> r, recovery |-> FALSE])
  /\ UNCHANGED <<store, mem, line, idle, ids, sent, fault>>

afterResponseReturns == HookReturns("request.after", "publish", {drive.arg})

droppedResponse ==
  /\ At("request.drop") /\ drive.released
  /\ Queue("publish", drive.arg)
  /\ UNCHANGED <<store, mem, idle, ids, sent, fault>>

-----------------------------------------------------------------------------
(* response.ts publishResponse: the answer becomes an entry, its usage a row, *)
(* and the operation moves on, in one commit; it settles cancelled           *)
(* operations too.                                                         *)

Suspended(source, poll, cfg) == [at |-> "deferred.suspended", source |-> source, poll |-> poll, cfg |-> cfg]

PlannedCalls(calls) ==
  [i \in DOMAIN calls |-> [status |-> "planned", result |-> Fresh(i), replay |-> "never",
                           terminate |-> FALSE, outcome |-> Null]]

FailedRun == [at |-> "failed"]

\* Next leaf, or FailedRun, and the stop reason of the entry.
Disposition(r, recovery) ==
  LET rid       == Leaf.response
      assistant == Leaf.at = "assistant.effect_pending"
      cfg       == IF assistant THEN Leaf.gen.cfg ELSE Leaf.cfg
      retries   == assistant /\ (recovery \/ r.retryable) /\ Leaf.attempt < MaxAttempts
      Is(stop, leaf) == [stop |-> stop, leaf |-> leaf]
  IN CASE Cancelled -> Is("aborted", Checkpoint(MayFinish(TRUE), rid))
       [] ~Cancelled /\ r.stop = "deferred" ->
            IF ~assistant THEN Is("deferred", Suspended(rid, Leaf.poll, cfg))
            ELSE IF r.validHandle THEN Is("deferred", Suspended(rid, 0, cfg))
            ELSE Is("error", FailedRun)
       [] ~Cancelled /\ r.stop = "error" ->
            Is("error", IF retries THEN [at |-> "assistant.retry_wait", gen |-> Leaf.gen, attempt |-> Leaf.attempt + 1]
                        ELSE FailedRun)
       [] ~Cancelled /\ r.stop \notin {"deferred", "error"} /\ r.calls # <<>> ->
            Is(r.stop, [at |-> "tools", assistant |-> rid, cfg |-> cfg, calls |-> PlannedCalls(r.calls)])
       [] ~Cancelled /\ r.stop = "toolUse" /\ r.calls = <<>> -> Is("error", FailedRun)
       [] OTHER -> Is(r.stop, Checkpoint(MayFinish(TRUE), rid))

WithUsage(s, id) == [s EXCEPT !.usage = Append(@, id)]

publishResponse ==
  LET r    == drive.arg.reply
      d    == Disposition(r, drive.arg.recovery)
      rid  == Leaf.response
      body == [type |-> "assistant", stop |-> d.stop, calls |-> r.calls]
      s    == WithUsage(InsertEntries(store, << <<rid, body>> >>), rid)
      m    == [mem EXCEPT !.tip = rid]
  IN /\ MainTurn("publish")
     /\ IF ~Cancelled /\ r.stop = "aborted" THEN Faulted
        ELSE IF d.leaf = FailedRun
        THEN /\ SettleFinish(operationCleanupWrites(s), m, operationResultRecord("failed", rid))
             /\ Committed("done", "settled", 0)
        ELSE /\ SettleCommit([s EXCEPT !.vals = @ \ FramesOf(mem.op.id, Leaf)], m,
                  [mem.op.st EXCEPT !.latest = rid, !.leaf = d.leaf], FALSE)
             /\ Committed("loop", Null, IF d.leaf.at = "tools" THEN Len(r.calls) ELSE 0)

-----------------------------------------------------------------------------
(* recovery.ts: an orphaned request is settled from its frames, without     *)
(* another provider call.                                                  *)

InterruptedReply == [stop |-> "error", calls |-> <<>>, retryable |-> FALSE, validHandle |-> FALSE]

recoverAssistantGeneration ==
  \/ CancelledTurn("recover.read")
  \/ /\ MainTurn("recover.read") /\ ~Cancelled
     /\ drive' = [drive EXCEPT !.pc = "publish", !.arg = [reply |-> InterruptedReply, recovery |-> TRUE]]
     /\ line' = Append(Tail(line), MainToken)
     /\ UNCHANGED <<store, mem, idle, ids, sent, fault>>

recoverCancelledAssistantEffect ==
  /\ MainTurn("settle.read")
  /\ drive' = [drive EXCEPT !.pc = "publish", !.arg = [reply |-> InterruptedReply, recovery |-> TRUE]]
  /\ line' = Append(Tail(line), MainToken)
  /\ UNCHANGED <<store, mem, idle, ids, sent, fault>>

-----------------------------------------------------------------------------
(* deferred.ts: polling a suspended response.                              *)

\* The source entry must still carry the handle.
DeferredHandleMissing ==
  ~ /\ HasEntry(store, Leaf.source)
    /\ Entry(store, Leaf.source).body.type = "assistant"
    /\ Entry(store, Leaf.source).body.stop = "deferred"

prepareDeferredPoll ==
  \/ CancelledTurn("poll.read")
  \/ /\ MainTurn("poll.read") /\ ~Cancelled
     /\ IF DeferredHandleMissing THEN Faulted
        ELSE /\ CASE drive.permits = 0             -> Goto("done", "deferred") /\ line' = Tail(line)
                  [] drive.permits > 0 /\ Leaf.cfg.model \in DownModels
                                                    -> /\ Goto("fail.commit", Null)
                                                       /\ line' = Append(Tail(line), MainToken)
                  [] OTHER                          -> /\ Goto(IF GateOpen THEN "poll.hook" ELSE "wait", Null)
                                                       /\ line' = Tail(line)
             /\ UNCHANGED <<store, mem, idle, ids, sent, fault>>

beforePollReturns == HookReturns("poll.hook", "poll.intent", {Null})

\* A fresh poll counts up; replacing an orphaned poll keeps its number and drops
\* its frames.  Either way the permit is spent and the ids are new.
publishPollIntent ==
  \/ CancelledTurn("poll.intent")
  \/ /\ MainTurn("poll.intent") /\ ~Cancelled
     /\ SettleCommit([store EXCEPT !.vals = @ \ FramesOf(mem.op.id, Leaf)], mem,
          WithLeaf([at |-> "deferred.effect_pending", source |-> Leaf.source,
                    poll |-> IF Leaf.at = "deferred.suspended" THEN Leaf.poll + 1 ELSE Leaf.poll,
                    cfg |-> Leaf.cfg, response |-> Fresh(1)]), FALSE)
     /\ line' = Tail(line)
     /\ drive' = [drive EXCEPT !.pc = "poll.admit", !.permits = @ - 1]
     /\ ids' = ids + 1
     /\ UNCHANGED <<idle, sent, fault>>

admitPoll ==
  /\ At("poll.admit")
  /\ Goto(IF GateOpen THEN "request.effect" ELSE "wait", Null)
  /\ UNCHANGED <<store, mem, line, idle, ids, sent, fault>>

-----------------------------------------------------------------------------
(* reconcile.ts: a cancelled operation reaches its terminal result.        *)

readDeferredHandle ==
  /\ MainTurn("cancel.handle")
  /\ IF DeferredHandleMissing THEN Faulted
     ELSE /\ Goto("cancel.remote", Null)
          /\ line' = Tail(line)
          /\ UNCHANGED <<store, mem, idle, ids, sent, fault>>

\* Remote cancellation is best effort: its failure is ignored.
cancelDeferredBestEffort ==
  /\ At("cancel.remote")
  /\ Queue(IF Leaf.at = "deferred.suspended" THEN "cancel.finish" ELSE "settle.read", Null)
  /\ UNCHANGED <<store, mem, idle, ids, sent, fault>>

publishAbortedTerminal ==
  /\ MainTurn("cancel.finish")
  /\ IF ~Cancelled THEN Faulted
     ELSE /\ SettleFinish(operationCleanupWrites(store), mem, operationResultRecord("aborted", mem.tip))
          /\ Committed("done", "settled", 0)
=============================================================================
