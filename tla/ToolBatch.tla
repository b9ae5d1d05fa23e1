------------------------------ MODULE ToolBatch -----------------------------
(***************************************************************************)
(* One durable tool batch (runtime/drive/tools.ts, tool-placement.ts): each *)
(* call of an assistant message is prepared, executed behind a durable      *)
(* intent, its outcome staged, and staged outcomes are placed on the branch *)
(* in source order.  Calls run one after another or in parallel; a batch a  *)
(* process left behind is recovered call by call, replaying only tools that *)
(* declare themselves safe to replay.                                      *)
(***************************************************************************)
EXTENDS RunDrive

CONSTANTS
  SafeTools,    \* tools registered with replay: "safe"
  ToolResults,  \* what an execution may return: [terminate, added, metered]
  BeforeTool,   \* decisions of before_tool hooks: subset of {"run", "block"}
  Aux           \* what a running tool may write: subset of {"output", "memo"}

ASSUME ToolAssumption ==
  /\ SafeTools \subseteq ToolRegistry
  /\ ToolResults \subseteq [terminate : BOOLEAN, added : SUBSET ToolNames, metered : BOOLEAN]
  /\ BeforeTool \subseteq {"run", "block"}
  /\ Aux \subseteq {"output", "memo"}

VARIABLES
  jobs,        \* per call of the batch: what its task awaits, in this process
  executed,    \* history: calls whose tool was ever started
  reexecuted   \* history: calls whose tool was started more than once

toolVars == <<jobs, executed, reexecuted>>

ToolInit == jobs = <<>> /\ executed = {} /\ reexecuted = {}

-----------------------------------------------------------------------------

InBatch == Busy /\ Leaf.at = "tools"
Call(i) == Leaf.calls[i]
Calls == DOMAIN Leaf.calls
ToolOf(i) == Entry(store, Leaf.assistant).body.calls[i]

\* A call the process can still run: its tool is active in the captured
\* configuration and registered, and the response was not cut off.
Runnable(i) ==
  /\ Entry(store, Leaf.assistant).body.stop # "length"
  /\ ToolOf(i) \in Leaf.cfg.tools \cap ToolRegistry

\* `out': the outcome to stage, or the indices being placed; `ran': the tool was
\* started by this process.
Job(pc, out) == [pc |-> pc, out |-> out, ran |-> FALSE]
NoJob == Job("none", Null)
Synthetic == [terminate |-> FALSE, added |-> {}, metered |-> FALSE]

JobAt(i, pc) == Driving /\ i \in DOMAIN jobs /\ jobs[i].pc = pc
SetJob(i, pc, out) == jobs' = [jobs EXCEPT ![i].pc = pc, ![i].out = out]

ArgsOf(i) == <<"args", mem.op.id, Leaf.assistant, i>>
OutputOf(i) == <<"output", mem.op.id, Call(i).result>>
MemoOf(i) == <<"memo", mem.op.id, Call(i).result>>
WithCall(i, call) == WithLeaf([Leaf EXCEPT !.calls[i] = call])

-----------------------------------------------------------------------------
(* Placement: the staged prefix of the batch becomes branch entries.       *)

\* Indices of the outcomes ready right after the completed calls.
ReadyPrefix ==
  {i \in Calls : /\ Call(i).status = "outcome_ready"
                 /\ \A j \in 1..i : Call(j).status \in {"completed", "outcome_ready"}}

PlacementReads == IF InBatch THEN ReadyPrefix ELSE {}
PlacementFaults ==
  \E i \in PlacementReads : PendingEntry(Call(i).result) \notin store.vals

\* Names the placed results add, on top of the current configuration.
PlacedConfig(added) == [mem.cfg EXCEPT !.tools = @ \cup added]

BatchArguments == {v \in store.vals : v[1] = "args" /\ v[2] = mem.op.id /\ v[3] = Leaf.assistant}

\* commitPlacement of the calls in `placed', on the state it finds.
PlaceItems(placed) ==
  LET order == ItemsAt([i \in Calls |-> i], placed)
      items == [k \in DOMAIN order |->
                  <<Call(order[k]).result,
                    [type |-> "result", assistant |-> Leaf.assistant, index |-> order[k]]>>]
      added == UNION {Call(i).outcome.added : i \in placed}
      cfg   == PlacedConfig(added)
      calls == [i \in Calls |-> IF i \in placed
                                THEN [Call(i) EXCEPT !.status = "completed", !.outcome = Null] ELSE Call(i)]
      full  == \A i \in Calls : calls[i].status = "completed"
      tip   == TipAfter(mem.tip, items)
      leaf  == IF ~full THEN [Leaf EXCEPT !.calls = calls]
               ELSE Checkpoint(IF \A i \in Calls : calls[i].terminate THEN MayFinish(FALSE)
                               ELSE NeedAssistant(FALSE), tip)
      freed == {PendingEntry(Call(i).result) : i \in placed}
                 \cup (IF full THEN BatchArguments ELSE {})
      rows  == ItemsAt([i \in Calls |-> i], {i \in placed : Call(i).outcome.metered})
      s     == [InsertEntries(store, items) EXCEPT
                  !.cfg = cfg, !.vals = @ \ freed,
                  !.usage = @ \o [k \in DOMAIN rows |-> Call(rows[k]).result]]
  IN SettleCommit(s, [mem EXCEPT !.tip = tip, !.cfg = cfg], WithLeaf(leaf), FALSE)

-----------------------------------------------------------------------------
(* The drive's own steps.  `drive.arg' holds the mode of the batch and what   *)
(* follows the placement under way.                                        *)

BatchArg(after) == [mode |-> "none", after |-> after, turns |-> 0, items |-> {}]

readToolBatchSource ==
  /\ MainTurn("tools.source")
  /\ IF \/ ~HasEntry(store, Leaf.assistant)
        \/ Entry(store, Leaf.assistant).body.type # "assistant"
        \/ ~(Calls \subseteq DOMAIN Entry(store, Leaf.assistant).body.calls)
     THEN Faulted /\ UNCHANGED toolVars
     ELSE /\ drive' = [drive EXCEPT !.pc = "place.read", !.arg = BatchArg("tools.begin")]
          /\ line' = Append(Tail(line), MainToken)
          /\ jobs' = [i \in Calls |-> NoJob]
          /\ UNCHANGED <<store, mem, idle, ids, sent, fault, executed, reexecuted>>

\* materializeReady by the drive: read the ready prefix, then commit it.
readPlacement ==
  /\ MainTurn("place.read")
  /\ IF PlacementFaults THEN Faulted
     ELSE /\ IF PlacementReads = {}
             THEN drive' = [drive EXCEPT !.pc = drive.arg.after] /\ line' = Tail(line)
             ELSE /\ drive' = [drive EXCEPT !.pc = "place.commit", !.arg.items = PlacementReads]
                  /\ line' = Append(Tail(line), MainToken)
          /\ UNCHANGED <<store, mem, idle, ids, sent, fault>>
  /\ UNCHANGED toolVars

commitPlacement ==
  /\ MainTurn("place.commit")
  /\ PlaceItems(drive.arg.items)
  /\ drive' = [drive EXCEPT !.pc = drive.arg.after, !.arg.items = {}]
  /\ line' = Tail(line)
  /\ UNCHANGED <<idle, ids, sent, fault>>
  /\ UNCHANGED toolVars

\* runTools chooses how the rest of the batch runs; cancelled batches are
\* settled one call at a time without executing anything.
runTools ==
  /\ At("tools.begin")
  /\ IF ~InBatch THEN Goto("loop", Null) /\ UNCHANGED line
     ELSE IF Cancelled \/ mem.op.st.settings.execution = "sequential"
     THEN /\ drive' = [drive EXCEPT !.pc = "place.read",
                         !.arg.after = "sequential", !.arg.mode = IF Cancelled THEN "settle" ELSE "sequential"]
          /\ line' = Append(line, MainToken)
     ELSE drive' = [drive EXCEPT !.pc = "parallel", !.arg.mode = "parallel"] /\ UNCHANGED line
  /\ UNCHANGED <<store, mem, idle, ids, sent, fault>>
  /\ UNCHANGED toolVars

\* Mutant: every interrupted tool is run again.
Replays_any(i) == TRUE
\* An interrupted tool is run again only if it was safe when it started and still is.
Replays(i) == Call(i).replay = "safe" /\ ToolOf(i) \in SafeTools \cap Leaf.cfg.tools

\* What the task of call i does first (startToolInvocation, recoverToolInvocation,
\* and the settlement of a cancelled call).
FirstStep(i, cancelled) ==
  IF Call(i).status = "planned"
  THEN IF cancelled \/ ~Runnable(i) THEN Job("outcome", Synthetic)
       ELSE Job(IF GateOpen THEN "before" ELSE "refused", Null)
  ELSE IF ~cancelled /\ Replays(i)
       THEN Job("clear", Null)
       ELSE Job("checkpoint", Null)

\* Mutant: the last call that is not completed.
NextOpen_last == CHOOSE i \in Calls : /\ Call(i).status # "completed"
                                      /\ \A j \in Calls : j > i => Call(j).status = "completed"
\* The first call that is not completed.
NextOpen == CHOOSE i \in Calls : /\ Call(i).status # "completed"
                                 /\ \A j \in 1..(i - 1) : Call(j).status = "completed"

\* runSequential, one turn: the first call that is not completed.
runSequential ==
  /\ At("sequential")
  /\ IF ~InBatch THEN Goto("loop", Null) /\ UNCHANGED <<store, mem, line, idle, ids, sent, fault, jobs>>
     ELSE IF \/ drive.arg.turns > 2 * Len(Leaf.calls) + 1
             \/ \A i \in Calls : Call(i).status = "completed"
             \/ Call(NextOpen).status = "outcome_ready"
             \/ drive.arg.mode = "settle" /\ ~Cancelled
     THEN Faulted /\ UNCHANGED jobs
     ELSE /\ jobs' = [jobs EXCEPT ![NextOpen] = FirstStep(NextOpen, Cancelled)]
          /\ drive' = [drive EXCEPT !.pc = "sequential.join", !.arg.turns = @ + 1]
          /\ UNCHANGED <<store, mem, line, idle, ids, sent, fault>>
  /\ UNCHANGED <<executed, reexecuted>>

joinSequential ==
  /\ At("sequential.join")
  /\ \A i \in DOMAIN jobs : jobs[i].pc \in {"none", "done"}
  /\ Queue("place.read", drive.arg)
  /\ jobs' = [i \in DOMAIN jobs |-> NoJob]
  /\ UNCHANGED <<store, mem, idle, ids, sent, fault, executed, reexecuted>>

\* runParallel starts the calls in source order: the next one once the one
\* before it is past its hook and its intent.
Starting == {"before", "refused", "intent", "clear", "checkpoint"}
Unstarted == {i \in Calls : jobs[i].pc = "none" /\ Call(i).status \in {"planned", "effect_pending"}}

startParallel ==
  /\ At("parallel") /\ InBatch
  /\ \A i \in DOMAIN jobs : jobs[i].pc \notin Starting
  /\ Unstarted # {}
  /\ LET i == CHOOSE k \in Unstarted : \A j \in Unstarted : k <= j
     IN jobs' = [jobs EXCEPT ![i] = FirstStep(i, Cancelled /\ Call(i).status = "effect_pending")]
  /\ UNCHANGED <<store, mem, drive, line, idle, ids, sent, fault, executed, reexecuted>>

\* Mutant: the batch ends once every call was started.
joinParallel_eager ==
  /\ At("parallel")
  /\ InBatch => Unstarted = {}
  /\ drive' = [drive EXCEPT !.pc = "place.read", !.arg.after = "loop"]
  /\ line' = Append(line, MainToken)
  /\ UNCHANGED <<store, mem, idle, ids, sent, fault, jobs, executed, reexecuted>>

\* All jobs are done: one last placement, then back to the loop.
joinParallel ==
  /\ At("parallel")
  /\ \A i \in DOMAIN jobs : jobs[i].pc \in {"none", "done"}
  /\ InBatch => Unstarted = {}
  /\ drive' = [drive EXCEPT !.pc = "place.read", !.arg.after = "loop"]
  /\ line' = Append(line, MainToken)
  /\ jobs' = [i \in DOMAIN jobs |-> NoJob]
  /\ UNCHANGED <<store, mem, idle, ids, sent, fault, executed, reexecuted>>

-----------------------------------------------------------------------------
(* The task of one call.                                                   *)

jobUnchanged == UNCHANGED <<store, mem, drive, line, idle, ids, sent, fault, executed, reexecuted>>

beforeToolReturns(i) ==
  /\ JobAt(i, "before")
  /\ \E d \in BeforeTool : IF d = "run" THEN SetJob(i, "intent", Null) ELSE SetJob(i, "outcome", Synthetic)
  /\ jobUnchanged

\* An admission the gate refused: wait for the durable cancellation, then the
\* call ends with a synthetic outcome.
refusedTool(i) ==
  /\ JobAt(i, "refused") /\ drive.released
  /\ SetJob(i, "outcome", Synthetic)
  /\ jobUnchanged

publishToolIntent(i) ==
  /\ JobAt(i, "intent") /\ ~idle
  /\ IF Cancelled
     THEN /\ SetJob(i, "outcome", Synthetic)
          /\ UNCHANGED <<store, mem>>
     ELSE /\ SettleCommit([store EXCEPT !.vals = @ \cup {ArgsOf(i)}], mem,
               WithCall(i, [Call(i) EXCEPT !.status = "effect_pending",
                                           !.replay = IF ToolOf(i) \in SafeTools THEN "safe" ELSE "never"]), FALSE)
          /\ SetJob(i, "admit", Null)
  /\ UNCHANGED <<drive, line, idle, ids, sent, fault, executed, reexecuted>>

clearReplayCheckpoint(i) ==
  /\ JobAt(i, "clear") /\ ~idle
  /\ IF ArgsOf(i) \notin store.vals THEN Faulted /\ UNCHANGED jobs
     ELSE /\ store' = [store EXCEPT !.vals = @ \ {OutputOf(i)}]
          /\ SetJob(i, "admit", Null)
          /\ UNCHANGED <<mem, drive, line, idle, ids, sent, fault>>
  /\ UNCHANGED <<executed, reexecuted>>

readCheckpoint(i) ==
  /\ JobAt(i, "checkpoint") /\ ~idle
  /\ SetJob(i, "outcome", Synthetic)
  /\ jobUnchanged

Started(i) == [call |-> Call(i).result, tool |-> ToolOf(i)]

\* executeToolCall starts the tool unless the gate refuses it.
admitTool(i) ==
  /\ JobAt(i, "admit")
  /\ IF GateOpen
     THEN /\ jobs' = [jobs EXCEPT ![i].pc = "execute", ![i].ran = TRUE]
          /\ executed' = executed \cup {Started(i)}
          /\ reexecuted' = reexecuted \cup ({Started(i)} \cap executed)
     ELSE /\ SetJob(i, "refused", Null)
          /\ UNCHANGED <<executed, reexecuted>>
  /\ UNCHANGED <<store, mem, drive, line, idle, ids, sent, fault>>

OwnsEffect(i) == InBatch /\ i \in Calls /\ Call(i).status = "effect_pending"

\* A running tool stores a progress checkpoint.
writeToolOutput(i) ==
  /\ JobAt(i, "execute") /\ "output" \in Aux /\ ~idle /\ OwnsEffect(i)
  /\ store' = [store EXCEPT !.vals = @ \cup {OutputOf(i)}]
  /\ UNCHANGED <<mem, drive, line, idle, ids, sent, fault>> /\ UNCHANGED toolVars

\* A memo write the tool issued; it may run after the tool returned and is then
\* fenced by the call's durable status.
setMemo(i) ==
  /\ Driving /\ i \in DOMAIN jobs /\ jobs[i].ran
  /\ "memo" \in Aux /\ ~idle /\ OwnsEffect(i)
  /\ \E memo \in {{}, {MemoOf(i)}} : store' = [store EXCEPT !.vals = (@ \ {MemoOf(i)}) \cup memo]
  /\ UNCHANGED <<mem, drive, line, idle, ids, sent, fault>> /\ UNCHANGED toolVars

\* The tool returns; after_tool is gated, and skipped when refused.
toolReturns(i) ==
  /\ JobAt(i, "execute")
  /\ \E r \in ToolResults : SetJob(i, IF GateOpen THEN "after" ELSE "outcome", r)
  /\ jobUnchanged

afterToolReturns(i) ==
  /\ JobAt(i, "after")
  /\ SetJob(i, "outcome", jobs[i].out)
  /\ jobUnchanged

\* The outcome is staged; termination counts only while the run is not cancelled.
publishToolOutcome(i) ==
  LET out == jobs[i].out
  IN /\ JobAt(i, "outcome") /\ ~idle
     /\ SettleCommit([store EXCEPT !.vals = (@ \ {OutputOf(i), MemoOf(i)}) \cup {PendingEntry(Call(i).result)}], mem,
          WithCall(i, [Call(i) EXCEPT !.status = "outcome_ready", !.outcome = out,
                                      !.terminate = ~Cancelled /\ out.terminate]), FALSE)
     /\ SetJob(i, IF drive.arg.mode = "parallel" THEN "place" ELSE "done", Null)
     /\ UNCHANGED <<drive, line, idle, ids, sent, fault, executed, reexecuted>>

\* A finished job of a parallel batch places what is ready, one job at a time.
jobReadsPlacement(i) ==
  /\ JobAt(i, "place") /\ ~idle
  /\ \A j \in DOMAIN jobs : jobs[j].pc # "placing"
  /\ IF PlacementFaults THEN Faulted /\ UNCHANGED jobs
     ELSE /\ IF PlacementReads = {} THEN SetJob(i, "done", Null) ELSE SetJob(i, "placing", PlacementReads)
          /\ UNCHANGED <<store, mem, drive, line, idle, ids, sent, fault>>
  /\ UNCHANGED <<executed, reexecuted>>

jobCommitsPlacement(i) ==
  /\ JobAt(i, "placing") /\ ~idle
  /\ PlaceItems(jobs[i].out)
  /\ SetJob(i, "done", Null)
  /\ UNCHANGED <<drive, line, idle, ids, sent, fault, executed, reexecuted>>
=============================================================================
