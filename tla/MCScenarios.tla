------------------------------ MODULE MCScenarios -----------------------------
(***************************************************************************)
(* Scenarios of the durable harness for TLC.  A scenario is a record of the *)
(* values of the constants; a behaviour belongs to one of the scenarios the *)
(* .cfg file lists, chosen in its first state.                             *)
(***************************************************************************)
EXTENDS Naturals, Sequences

CONSTANTS Null, m1, m2, m3, n1, gpt, gone, t1, t2, t3,
          Scenarios   \* names of the scenarios of a run

VARIABLES scenario, store, mem, drive, line, idle, ids, sent, fault,
          jobs, executed, reexecuted, stops, nav

all == <<scenario, store, mem, drive, line, idle, ids, sent, fault, jobs, executed, reexecuted, stops, nav>>

InitialConfig == [model |-> gpt, tools |-> {t1, t2}]

Reply(stop, calls, retryable) ==
  [stop |-> stop, calls |-> calls, retryable |-> retryable, validHandle |-> TRUE]

Stop == Reply("stop", <<>>, FALSE)
OneCall == Reply("toolUse", <<t1>>, FALSE)
TwoCalls == Reply("toolUse", <<t1, t2>>, FALSE)
Error == Reply("error", <<>>, TRUE)
Fatal == Reply("error", <<>>, FALSE)
Deferred == Reply("deferred", <<>>, FALSE)
BadHandle == [Deferred EXCEPT !.validHandle = FALSE]
CutOff == Reply("length", <<t1>>, FALSE)
NoCalls == Reply("toolUse", <<>>, FALSE)
TooLong == Reply("length", <<>>, FALSE)

OneSetting(st, fu, ex) == {[steering |-> st, followUp |-> fu, execution |-> ex]}
Caller(wait, poll) == [wait |-> wait, poll |-> poll, resumed |-> FALSE]
Outcome(terminate, added, metered) == [terminate |-> terminate, added |-> added, metered |-> metered]

\* One message, one operation, plain answers, no aborts and no crashes.
Plain ==
  [name |-> "plain", msgs |-> {m1}, notes |-> {}, ops |-> {1}, maxIds |-> 2, configs |-> {},
   settings |-> OneSetting("one", "one", "parallel"), replies |-> {Stop}, registry |-> {t1, t2},
   attempts |-> 1, safe |-> {}, results |-> {Outcome(FALSE, {}, FALSE)}, beforeTool |-> {"run"}, aux |-> {},
   actions |-> {"abort"}, maxPrompt |-> 1, modes |-> {Caller(TRUE, FALSE)}, aborts |-> 1, stops |-> 0,
   overflows |-> {}, summaries |-> {"stop", "retryable", "fatal"}, decisions |-> {}, kinds |-> {}]

Tools ==
  [Plain EXCEPT !.replies = {TwoCalls}, !.safe = {t1}, !.beforeTool = {"run", "block"},
                !.aux = {"output", "memo"}, !.results = {Outcome(TRUE, {}, TRUE), Outcome(FALSE, {}, FALSE)}]

RunScenarios ==
  { [Plain EXCEPT !.name = "queues", !.msgs = {m1, m2, m3}, !.maxIds = 2,
                  !.actions = {"steer", "cancelQueued"}],
    [Plain EXCEPT !.name = "append", !.msgs = {m1, m2}, !.notes = {n1},
                  !.actions = {"steer", "followUp", "append", "cancelQueued", "abort"}],
    [Plain EXCEPT !.name = "handover", !.msgs = {m1, m2}, !.ops = {1, 2}, !.maxIds = 1, !.stops = 1,
                  !.settings = OneSetting("all", "all", "sequential"),
                  !.actions = {"nextRun", "followUp", "append", "idle", "abort"}],
    [Plain EXCEPT !.name = "config", !.maxIds = 3, !.stops = 1, !.registry = {t1, t2, t3},
                  !.configs = {[model |-> gpt, tools |-> {t1}]}, !.actions = {"configure"},
                  !.replies = {TwoCalls, CutOff, NoCalls}, !.results = {Outcome(FALSE, {t3}, FALSE)}],
    [Tools EXCEPT !.name = "parallel", !.stops = 1],
    [Tools EXCEPT !.name = "sequential", !.stops = 2, !.settings = OneSetting("all", "all", "sequential")],
    [Plain EXCEPT !.name = "retry", !.maxIds = 4, !.stops = 1, !.replies = {Stop, Error, Fatal},
                  !.attempts = 2, !.aborts = 2, !.actions = {"abort", "join"},
                  !.modes = {Caller(TRUE, FALSE), Caller(FALSE, FALSE)}],
    [Plain EXCEPT !.name = "deferred", !.maxIds = 3, !.stops = 2, !.actions = {"abort", "configure"},
                  !.configs = {[model |-> gone, tools |-> {t1, t2}]},
                  !.replies = {Deferred, BadHandle, Fatal, OneCall},
                  !.modes = {Caller(TRUE, TRUE), Caller(FALSE, FALSE)}],
    [Plain EXCEPT !.name = "settles", !.stops = 1, !.replies = {Error, OneCall, Deferred}, !.attempts = 2],
    [Plain EXCEPT !.name = "late_abort", !.maxIds = 4, !.replies = {Stop, Error, Fatal}, !.attempts = 2,
                  !.modes = {Caller(TRUE, FALSE), Caller(FALSE, FALSE)}] }

StructuralScenarios ==
  { [Plain EXCEPT !.name = "compaction", !.msgs = {m1, m2}, !.maxIds = 5, !.actions = {"append", "abort"},
                  !.replies = {Stop, TooLong}, !.overflows = {TooLong}, !.decisions = {"decline", "hook"}],
    [Plain EXCEPT !.name = "overflow", !.maxIds = 6, !.actions = {"append"}, !.notes = {n1},
                  !.replies = {TooLong}, !.overflows = {TooLong}, !.decisions = {"hook"}],
    [Plain EXCEPT !.name = "structural_settles", !.maxIds = 5, !.attempts = 2, !.stops = 1,
                  !.actions = {"abort", "append", "configure"}, !.configs = {[model |-> gone, tools |-> {t1, t2}]},
                  !.decisions = {"generate"}, !.kinds = {"compaction"}] }

Of(c) ==
  INSTANCE Structural WITH
    Msgs <- c.msgs, Notes <- c.notes, Models <- {gpt, gone}, ToolNames <- {t1, t2, t3}, DownModels <- {gone},
    HostConfigs <- c.configs, RunSettings <- c.settings, OpIds <- c.ops, MaxIds <- c.maxIds,
    Replies <- c.replies, LastReplies <- {Stop}, BeforeDrive <- {"ok"}, ToolRegistry <- c.registry,
    MaxAttempts <- c.attempts, SafeTools <- c.safe, ToolResults <- c.results, BeforeTool <- c.beforeTool,
    Aux <- c.aux, HostActions <- c.actions, MaxPrompt <- c.maxPrompt, DriveModes <- c.modes,
    MaxPendingAborts <- c.aborts, MaxStops <- c.stops, Enabled <- TRUE, Overflows <- c.overflows,
    SummaryReplies <- c.summaries, Decisions <- c.decisions, Labels <- {FALSE}, StructuralKinds <- c.kinds

Init ==
  /\ scenario \in Scenarios
  /\ \E c \in RunScenarios \cup StructuralScenarios : scenario = c.name /\ Of(c)!StructuralInit

Next ==
  \/ \E c \in RunScenarios : scenario = c.name /\ Of(c)!Next /\ UNCHANGED <<scenario, nav>>
  \/ \E c \in StructuralScenarios : scenario = c.name /\ Of(c)!StructuralNext /\ UNCHANGED scenario

Spec == Init /\ [][Next]_all

Runs == {c \in RunScenarios : c.name \in Scenarios}
Structurals == {c \in StructuralScenarios : c.name \in Scenarios}
Chosen == Runs \cup Structurals

\* As in Harness and Structural: promises settle, hosts reopen and keep driving.
FairSpec ==
  /\ Spec
  /\ \A c \in Chosen :
       /\ WF_all(scenario = c.name /\ Of(c)!DriveCallStep /\ UNCHANGED <<jobs, executed, reexecuted, stops, nav, scenario>>)
       /\ WF_all(scenario = c.name /\ Of(c)!LineStep /\ UNCHANGED <<jobs, executed, reexecuted, stops, nav, scenario>>)
       /\ WF_all(scenario = c.name /\ Of(c)!RestoreStep /\ UNCHANGED <<stops, nav, scenario>>)
  /\ \A c \in Runs :
       /\ WF_all(scenario = c.name /\ Of(c)!RunStep /\ UNCHANGED <<jobs, executed, reexecuted, stops, nav, scenario>>)
       /\ WF_all(scenario = c.name /\ Of(c)!BatchStep /\ UNCHANGED <<stops, nav, scenario>>)
       /\ WF_all(scenario = c.name /\ (\E i \in DOMAIN jobs : Of(c)!JobStep(i)) /\ UNCHANGED <<stops, nav, scenario>>)
  /\ \A c \in Structurals : WF_all(scenario = c.name /\ Of(c)!StructuralDriveStep /\ UNCHANGED scenario)

-----------------------------------------------------------------------------
(* Properties: those of Harness and Structural, in every scenario.         *)

\* Queued input of one kind is placed in the order it was queued, and placing tool
\* results keeps the configuration hosts wrote meanwhile (lane.ts
\* selectAcceptedInbox, boundary.ts planBoundaryInbox, tool-placement.ts).
NoOvertaking ==
  [][\A c \in Runs : scenario = c.name => Of(c)!NoOvertakingStep /\ Of(c)!PlacementKeepsConfigStep]_all

\* A run that completes has answered every message on its branch (boundary.ts
\* finishRunBoundary).
CompletedRunsAnswerEverything == [][\A c \in Runs : scenario = c.name => Of(c)!CompletedRunsAnswerEverythingStep]_all

\* The branch is one chain without repetition, every response on it is metered
\* once, and its tool calls are answered once, in source order, right after it
\* (lane.ts append, response.ts, tool-placement.ts).
ResponsesAreWhole ==
  \A c \in Runs : scenario = c.name => Of(c)!LogWellFormed /\ Of(c)!UsageOnce /\ Of(c)!ToolCallsAnswered

\* The state has its type, auxiliary values and preparations belong to live owners,
\* and no owner lacks its value (terminal.ts operationCleanupWrites).
OwnedValuesExact ==
  /\ \A c \in Runs : scenario = c.name => Of(c)!TypeOK /\ Of(c)!OwnedValuesExact
  /\ \A c \in Structurals : scenario = c.name => Of(c)!PreparationsOwned

\* A compaction entry stands for all of the branch it hides, and automatic
\* compaction does not feed on itself (checkpoint.ts, response.ts, structural.ts).
CompactionCoversBranch ==
  \A c \in Structurals : scenario = c.name => Of(c)!CompactionCoversBranch /\ Of(c)!CompactionsMakeProgress

\* A retry timer does not outlive a recorded cancellation (docs/harness.md 4.5,
\* lane.ts requestOperationAbort).
CancellationWakesRetryTimer == \A c \in Runs : scenario = c.name => Of(c)!CancellationWakesRetryTimer

\* A recorded cancellation ends in an aborted result, and an accepted operation
\* ends or is suspended until a host polls (reconcile.ts reconcileOperation,
\* drive.ts driveOperation).
OperationsSettle ==
  \A c \in Chosen : \A op \in c.ops :
    /\ (scenario = c.name /\ Of(c)!PhaseOf(store, op) = "cancelling")
         ~> (scenario = c.name => Of(c)!PhaseOf(store, op) = "aborted")
    /\ (scenario = c.name /\ Of(c)!PhaseOf(store, op) = "running") ~> (scenario = c.name => Of(c)!Settled(op))
=============================================================================
