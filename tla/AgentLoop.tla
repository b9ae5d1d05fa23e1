----------------------------- MODULE AgentLoop -----------------------------
(***************************************************************************)
(* The classic agent: the Agent class (packages/agent/src/agent.ts) and    *)
(* the loop it runs (agent-loop.ts).  The loop is a sequence of awaits; a  *)
(* step of this model is the code between two of them, and the host may    *)
(* steer, abort or queue between any two.  Listeners are awaited inside    *)
(* every emit and may throw, as may the configured hooks and the stream    *)
(* function.  The provider is external: it answers a request with a text,  *)
(* tool calls, a truncated message, an error or, once aborted, an abort.   *)
(***************************************************************************)
EXTENDS Naturals, Sequences, SequencesExt, FiniteSets

CONSTANTS
  Null,
  ToolExecution,  \* config.toolExecution: "parallel" or "sequential"
  Modes,          \* queue modes the host may set
  MaxUsers,       \* bound: user messages
  MaxReplies,     \* bound: provider replies
  MaxBatch,       \* bound: tool calls in one reply
  MaxFaults       \* bound: exceptions thrown by listeners, hooks and the provider

VARIABLES
  state,    \* agent state: transcript, streaming message, pending tool calls, isStreaming
  queue,    \* the steering and the follow-up queue, and their modes
  run,      \* the active run, or NoRun
  tool,     \* per tool call: "none", "prepared", "running", "done" or "straggling"
  count,    \* user messages, replies, tool calls and faults so far
  history   \* history: messages removed or dropped, interruption

vars == <<state, queue, run, tool, count, history>>

Calls == 1..MaxReplies * MaxBatch

User(n, via) == [role |-> "user", id |-> n, via |-> via]
Assistant(calls, stop) == [role |-> "assistant", calls |-> calls, stop |-> stop]
Result(c) == [role |-> "toolResult", call |-> c, synthetic |-> FALSE]

NoRun == [ pc |-> "idle", aborted |-> FALSE, skip |-> FALSE, prompts |-> <<>>, pending |-> <<>>,
           context |-> <<>>, partial |-> FALSE, turns |-> 0, more |-> TRUE, message |-> Null,
           next |-> 1, finals |-> <<>>, terminate |-> {}, steered |-> 0 ]

Init ==
  /\ state = [messages |-> <<>>, streaming |-> FALSE, pendingTools |-> {}, isStreaming |-> FALSE]
  /\ queue \in [steer : {<<>>}, followUp : {<<>>}, mode : [{"steer", "followUp"} -> Modes]]
  /\ run = NoRun
  /\ tool = [c \in Calls |-> "none"]
  /\ count = [users |-> 0, replies |-> 0, calls |-> 0, faults |-> 0]
  /\ history = [removed |-> {}, interrupted |-> FALSE]

activeRun == run.pc # "idle"
Fault == count.faults < MaxFaults /\ count' = [count EXCEPT !.faults = @ + 1]
Ids(messages) == {m.id : m \in {x \in ToSet(messages) : x.role = "user"}}

-----------------------------------------------------------------------------
\* The host's calls.

\* What a drain takes and leaves.
Drained(q) == IF queue[q] # <<>> /\ queue.mode[q] = "one-at-a-time" THEN SubSeq(queue[q], 1, 1)
              ELSE queue[q]
drain(q) == [queue EXCEPT ![q] = SubSeq(@, Len(Drained(q)) + 1, Len(@))]

enqueue(q) ==
  /\ count.users < MaxUsers
  /\ count' = [count EXCEPT !.users = @ + 1]
  /\ queue' = [queue EXCEPT ![q] = Append(@, User(count'.users, q))]
  /\ UNCHANGED <<state, run, tool, history>>

clear(q) ==
  /\ queue[q] # <<>>
  /\ queue' = [queue EXCEPT ![q] = <<>>]
  /\ history' = [history EXCEPT !.removed = @ \cup Ids(queue[q])]
  /\ UNCHANGED <<state, run, tool, count>>

setMode(q, mode) ==
  /\ queue.mode[q] # mode
  /\ queue' = [queue EXCEPT !.mode[q] = mode]
  /\ UNCHANGED <<state, run, tool, count, history>>

abort ==
  /\ activeRun
  /\ run' = [run EXCEPT !.aborted = TRUE]
  /\ history' = [history EXCEPT !.interrupted = TRUE]
  /\ UNCHANGED <<state, queue, tool, count>>

\* runWithLifecycle: a run over the transcript and the prompts begins.
runWithLifecycle(prompts, skip) ==
  /\ ~activeRun
  /\ state' = [state EXCEPT !.isStreaming = TRUE, !.streaming = FALSE]
  /\ run' = [NoRun EXCEPT !.pc = "start", !.prompts = prompts, !.skip = skip,
                          !.context = state.messages \o prompts]
  /\ UNCHANGED <<tool, history>>

prompt ==
  /\ count.users < MaxUsers
  /\ count' = [count EXCEPT !.users = @ + 1]
  /\ runWithLifecycle(<<User(count'.users, "prompt")>>, FALSE)
  /\ UNCHANGED queue

\* continue(): from a user message or tool result; after an assistant message, from a queue.
continue ==
  /\ state.messages # <<>>
  /\ IF Last(state.messages).role # "assistant" THEN runWithLifecycle(<<>>, FALSE) /\ UNCHANGED queue
     ELSE \E q \in {"steer", "followUp"} :
            /\ queue[q] # <<>> /\ (q = "followUp" => queue.steer = <<>>)
            /\ runWithLifecycle(Drained(q), q = "steer")
            /\ queue' = drain(q)
  /\ UNCHANGED count

reset ==
  /\ ~activeRun
  /\ state' = [messages |-> <<>>, streaming |-> FALSE, pendingTools |-> {}, isStreaming |-> FALSE]
  /\ queue' = [queue EXCEPT !.steer = <<>>, !.followUp = <<>>]
  /\ history' = [history EXCEPT !.removed =
                   @ \cup Ids(state.messages) \cup Ids(queue.steer) \cup Ids(queue.followUp)]
  /\ UNCHANGED <<run, tool, count>>

-----------------------------------------------------------------------------
\* The loop.  Fail(st) is a throw after the state reached st: the run goes to handleRunFailure
\* and what it had drained and not delivered is gone.

Fail(st) ==
  /\ Fault
  /\ state' = st
  /\ run' = [run EXCEPT !.pc = "failed", !.prompts = <<>>, !.pending = <<>>]
  /\ history' = [history EXCEPT !.interrupted = TRUE,
                   !.removed = @ \cup ((Ids(run.prompts) \cup Ids(run.pending)) \ Ids(st.messages))]
  /\ tool' = [c \in Calls |-> IF tool[c] = "running" THEN "straggling" ELSE tool[c]]
  /\ UNCHANGED queue

\* message_start and message_end of a whole message: it joins the transcript at message_end.
Delivered(st, m) == [st EXCEPT !.messages = Append(@, m), !.streaming = FALSE]
FailDelivering(st, m) == Fail([st EXCEPT !.streaming = TRUE]) \/ Fail(Delivered(st, m))

\* Where the inner loop's condition leads.
LoopTop(more, pending, turns) ==
  IF ~more /\ pending = <<>> THEN "followUps"
  ELSE IF turns > 0 THEN "prepare"
  ELSE IF pending # <<>> THEN "inject" ELSE "request"

agentStart ==
  /\ run.pc = "start"
  /\ \/ /\ run' = [run EXCEPT !.pc = IF run.prompts = <<>> THEN "poll" ELSE "prompts"]
        /\ UNCHANGED <<state, queue, tool, count, history>>
     \/ Fail(state)

emitPrompt ==
  /\ run.pc = "prompts"
  /\ LET m == Head(run.prompts)
     IN  \/ /\ state' = Delivered(state, m)
            /\ run' = [run EXCEPT !.prompts = Tail(@), !.steered = @ + (IF m.via = "steer" THEN 1 ELSE 0),
                                  !.pc = IF Tail(run.prompts) = <<>> THEN "poll" ELSE "prompts"]
            /\ UNCHANGED <<queue, tool, count, history>>
         \/ FailDelivering(state, m)

\* getSteeringMessages before the first turn.
initialPoll ==
  /\ run.pc = "poll"
  /\ LET pending == IF run.skip THEN <<>> ELSE Drained("steer")
     IN  run' = [run EXCEPT !.pending = pending, !.skip = FALSE, !.pc = LoopTop(TRUE, pending, 0)]
  /\ queue' = IF run.skip THEN queue ELSE drain("steer")
  /\ UNCHANGED <<state, tool, count, history>>

\* Mutant: the queue is polled again whatever the earlier poll returned.
prepareNextTurn_pollsAlways ==
  /\ run.pc = "prepare"
  /\ \/ /\ run' = [run EXCEPT !.pc = "turn", !.pending = Drained("steer")]
        /\ queue' = drain("steer")
        /\ UNCHANGED <<state, tool, count, history>>
     \/ Fail(state)
\* prepareNextTurn returned, or threw; steering queued while it ran is picked up.
prepareNextTurn ==
  /\ run.pc = "prepare"
  /\ \/ /\ run' = [run EXCEPT !.pc = "turn",
                              !.pending = IF run.pending = <<>> THEN Drained("steer") ELSE @]
        /\ queue' = IF run.pending = <<>> THEN drain("steer") ELSE queue
        /\ UNCHANGED <<state, tool, count, history>>
     \/ Fail(state)

turnStart ==
  /\ run.pc = "turn"
  /\ \/ /\ run' = [run EXCEPT !.steered = 0, !.pc = IF run.pending = <<>> THEN "request" ELSE "inject"]
        /\ UNCHANGED <<state, queue, tool, count, history>>
     \/ Fail(state)

injectPending ==
  /\ run.pc = "inject"
  /\ LET m == Head(run.pending)
     IN  \/ /\ state' = Delivered(state, m)
            /\ run' = [run EXCEPT !.pending = Tail(@), !.context = Append(@, m),
                                  !.steered = @ + (IF m.via = "steer" THEN 1 ELSE 0),
                                  !.pc = IF Tail(run.pending) = <<>> THEN "request" ELSE "inject"]
            /\ UNCHANGED <<queue, tool, count, history>>
         \/ FailDelivering(state, m)

\* streamAssistantResponse up to the stream function: any of its callbacks may throw.
request ==
  /\ run.pc = "request"
  /\ \/ /\ run' = [run EXCEPT !.pc = "stream", !.partial = FALSE]
        /\ UNCHANGED <<state, queue, tool, count, history>>
     \/ Fail(state)

\* The partial message of a start event joins the context.
streamStart ==
  /\ run.pc = "stream" /\ ~run.partial
  /\ state' = [state EXCEPT !.streaming = TRUE]
  /\ run' = [run EXCEPT !.partial = TRUE, !.context = Append(@, Assistant(<<>>, "partial"))]
  /\ UNCHANGED <<queue, tool, count, history>>

\* What the provider may answer: tool calls are numbered in the order they are asked for.
Replies ==
  LET fresh(n) == [i \in 1..n |-> count.calls + i]
  IN  {Assistant(<<>>, "stop"), Assistant(<<>>, "error")}
        \cup {Assistant(fresh(n), s) : n \in 1..MaxBatch, s \in {"toolUse", "length"}}
        \cup (IF run.aborted THEN {Assistant(<<>>, "aborted")} ELSE {})

\* The message replaces the partial one, or joins, and the loop looks at how it stopped.
streamDone(m) ==
  /\ run.pc = "stream"
  /\ LET at == IF run.partial THEN Front(run.context) ELSE run.context
         streamed == [run EXCEPT !.context = Append(at, m), !.message = m, !.partial = FALSE,
                                 !.next = 1, !.finals = <<>>, !.terminate = {}]
     IN  \/ /\ count.replies < MaxReplies \/ m.calls = <<>>
            /\ count' = [count EXCEPT !.replies = IF @ < MaxReplies THEN @ + 1 ELSE @,
                                      !.calls = @ + Len(m.calls)]
            /\ state' = Delivered(state, m)
            /\ run' = [streamed EXCEPT !.pc =
                         IF m.stop \in {"error", "aborted"} THEN "lastTurnEnd"
                         ELSE IF m.calls = <<>> THEN "turnEnd"
                         ELSE IF m.stop = "length" THEN "truncated"
                         ELSE "tools",
                       !.more = FALSE]
            /\ UNCHANGED <<queue, tool, history>>
         \/ Fail([state EXCEPT !.streaming = TRUE])

-----------------------------------------------------------------------------
\* Tool calls.

Call == run.message.calls[run.next]
Started(c) == [state EXCEPT !.pendingTools = @ \cup {c}]
Ended(st, c) == [st EXCEPT !.pendingTools = @ \ {c}]
BatchOver == run.next > Len(run.message.calls)

\* The batch is over: its results join the context and the turn ends.
EndBatch(r, terminated) ==
  [r EXCEPT !.pc = "turnEnd", !.more = ~terminated,
            !.context = @ \o [i \in 1..Len(r.finals) |-> Result(r.finals[i])]]

\* shouldTerminateToolBatch
shouldTerminateToolBatch(r) == r.finals # <<>> /\ ToSet(r.finals) = r.terminate

\* A call of a truncated message is answered with an error and never executed.
failToolCall ==
  /\ run.pc = "truncated"
  /\ LET final == [run EXCEPT !.finals = Append(@, Call), !.next = @ + 1]
     IN  \/ /\ state' = Delivered(Ended(Started(Call), Call), Result(Call))
            /\ run' = IF run.next = Len(run.message.calls) THEN EndBatch(final, FALSE) ELSE final
            /\ UNCHANGED <<queue, tool, count, history>>
         \/ Fail(Started(Call))
         \/ FailDelivering(Ended(state, Call), Result(Call))

\* tool_execution_start, then prepareToolCall: an immediate outcome (unknown tool, invalid
\* arguments, blocked or aborted) or a call that may execute.
Prepare(kind) ==
  /\ run.pc = "tools" /\ ~BatchOver
  /\ tool[Call] = "none"
  /\ run.aborted => kind = "immediate"
  /\ \/ /\ tool' = [tool EXCEPT ![Call] = IF kind = "immediate" THEN "done" ELSE "prepared"]
        /\ state' = Started(Call)
        /\ UNCHANGED <<queue, run, count, history>>
     \/ kind = "immediate" /\ Fail(Started(Call))

\* executeToolCallsSequential: the tool returned or was never run; its result is emitted.
finishSequential(terminate) ==
  /\ run.pc = "tools" /\ ToolExecution = "sequential"
  /\ ~BatchOver /\ tool[Call] \in {"prepared", "done"}
  /\ LET final == [run EXCEPT !.finals = Append(@, Call), !.next = @ + 1,
                              !.terminate = IF terminate THEN @ \cup {Call} ELSE @]
     IN  \/ /\ state' = Delivered(Ended(state, Call), Result(Call))
            /\ tool' = [tool EXCEPT ![Call] = "done"]
            /\ run' = IF run.aborted \/ run.next = Len(run.message.calls)
                      THEN EndBatch(final, shouldTerminateToolBatch(final)) ELSE final
            /\ UNCHANGED <<queue, count, history>>
         \/ FailDelivering(Ended(state, Call), Result(Call))

\* executeToolCallsParallel, first phase: an immediate outcome ends at once, a prepared call
\* is kept; an abort stops the phase.  Then every prepared call starts, or finds the abort.
collectParallel(terminate) ==
  /\ run.pc = "tools" /\ ToolExecution = "parallel"
  /\ ~BatchOver /\ tool[Call] \in {"done", "prepared"}
  /\ LET last == run.aborted \/ run.next = Len(run.message.calls)
         st == IF tool[Call] = "done" THEN Ended(state, Call) ELSE state
     IN  \/ /\ state' = st
            /\ run' = [run EXCEPT !.finals = Append(@, Call), !.next = @ + 1,
                                  !.terminate = IF terminate THEN @ \cup {Call} ELSE @,
                                  !.pc = IF last THEN "running" ELSE "tools"]
            /\ terminate => tool[Call] = "done"
            /\ tool' = IF last THEN [c \in Calls |-> IF tool[c] = "prepared" THEN "running" ELSE tool[c]]
                       ELSE tool
            /\ UNCHANGED <<queue, count, history>>
         \/ /\ tool[Call] = "done" /\ Fail(st)

\* One of the parallel calls ends, in any order; a listener that throws rejects the batch.
finishParallel(c, terminate) ==
  /\ run.pc = "running" /\ c \in ToSet(run.finals) /\ tool[c] = "running"
  /\ \/ /\ state' = Ended(state, c)
        /\ tool' = [tool EXCEPT ![c] = "done"]
        /\ run' = [run EXCEPT !.terminate = IF terminate THEN @ \cup {c} ELSE @]
        /\ UNCHANGED <<queue, count, history>>
     \/ /\ Fault
        /\ state' = Ended(state, c)
        /\ run' = [run EXCEPT !.pc = "failed"]
        /\ history' = [history EXCEPT !.interrupted = TRUE]
        /\ tool' = [d \in Calls |-> IF d = c THEN "done"
                                    ELSE IF tool[d] = "running" THEN "straggling" ELSE tool[d]]
        /\ UNCHANGED queue

\* A call whose batch was rejected ends: the event is reduced, and reaches the listeners of
\* whatever run is active then.
straggler(c) ==
  /\ tool[c] = "straggling"
  /\ tool' = [tool EXCEPT ![c] = "done"]
  /\ state' = Ended(state, c)
  /\ UNCHANGED <<queue, run, count, history>>

\* Promise.all resolved: the results are emitted one by one in the order of the calls.
emitResults ==
  /\ run.pc = "running" /\ \A c \in ToSet(run.finals) : tool[c] = "done"
  /\ LET done == Cardinality({i \in DOMAIN state.messages :
                   /\ state.messages[i].role = "toolResult"
                   /\ state.messages[i].call \in ToSet(run.finals)})
         m == Result(run.finals[done + 1])
     IN  \/ /\ state' = Delivered(state, m)
            /\ run' = IF done + 1 = Len(run.finals) THEN EndBatch(run, shouldTerminateToolBatch(run))
                      ELSE run
            /\ UNCHANGED <<queue, tool, count, history>>
         \/ FailDelivering(state, m)

-----------------------------------------------------------------------------
\* The end of a turn and of the run.

\* turn_end, then shouldStopAfterTurn, then the poll for steering messages.
turnEnd(stop) ==
  /\ run.pc = "turnEnd"
  /\ \/ /\ IF stop THEN run' = [run EXCEPT !.pc = "agentEnd", !.turns = 1] /\ UNCHANGED queue
           ELSE /\ run' = [run EXCEPT !.pc = LoopTop(run.more, Drained("steer"), 1), !.turns = 1,
                                      !.pending = Drained("steer")]
                /\ queue' = drain("steer")
        /\ UNCHANGED <<state, tool, count, history>>
     \/ Fail(state)

\* turn_end after an error or an abort.
lastTurnEnd ==
  /\ run.pc = "lastTurnEnd"
  /\ \/ /\ run' = [run EXCEPT !.pc = "agentEnd"]
        /\ UNCHANGED <<state, queue, tool, count, history>>
     \/ Fail(state)

pollFollowUps ==
  /\ run.pc = "followUps"
  /\ run' = [run EXCEPT !.pending = Drained("followUp"), !.more = TRUE,
                        !.pc = IF queue.followUp = <<>> THEN "agentEnd"
                               ELSE LoopTop(TRUE, Drained("followUp"), run.turns)]
  /\ queue' = drain("followUp")
  /\ UNCHANGED <<state, tool, count, history>>

agentEnd ==
  /\ run.pc = "agentEnd"
  /\ \/ /\ run' = [run EXCEPT !.pc = "finish"]
        /\ state' = [state EXCEPT !.streaming = FALSE]
        /\ UNCHANGED <<queue, tool, count, history>>
     \/ /\ Fault
        /\ run' = [run EXCEPT !.pc = "failed"]
        /\ history' = [history EXCEPT !.interrupted = TRUE]
        /\ UNCHANGED <<state, queue, tool>>

\* The failure message and its events; a listener may throw on any of them.
handleRunFailure ==
  /\ run.pc = "failed"
  /\ LET m == Assistant(<<>>, IF run.aborted THEN "aborted" ELSE "error")
     IN  \/ /\ state' = Delivered(state, m)
            /\ run' = [run EXCEPT !.pc = "finish"]
            /\ UNCHANGED count
         \/ /\ Fault
            /\ state' \in {[state EXCEPT !.streaming = TRUE], Delivered(state, m)}
            /\ run' = [run EXCEPT !.pc = "finish"]
  /\ UNCHANGED <<queue, tool, history>>

finishRun ==
  /\ run.pc = "finish"
  /\ state' = [state EXCEPT !.isStreaming = FALSE, !.streaming = FALSE, !.pendingTools = {}]
  /\ run' = NoRun
  /\ UNCHANGED <<queue, tool, count, history>>

-----------------------------------------------------------------------------
Host ==
  \/ prompt \/ continue \/ reset \/ abort
  \/ \E q \in {"steer", "followUp"} :
       enqueue(q) \/ clear(q) \/ \E mode \in Modes : setMode(q, mode)

Loop ==
  \/ agentStart \/ emitPrompt \/ initialPoll \/ prepareNextTurn \/ turnStart \/ injectPending
  \/ request \/ streamStart \/ \E m \in Replies : streamDone(m)
  \/ failToolCall
  \/ \E kind \in {"immediate", "prepared"} : Prepare(kind)
  \/ \E terminate \in BOOLEAN : finishSequential(terminate) \/ collectParallel(terminate)
  \/ \E c \in Calls, terminate \in BOOLEAN : finishParallel(c, terminate)
  \/ emitResults
  \/ \E stop \in BOOLEAN : turnEnd(stop)
  \/ lastTurnEnd \/ pollFollowUps \/ agentEnd \/ handleRunFailure \/ finishRun

Next == Host \/ Loop \/ \E c \in Calls : straggler(c)

Spec == Init /\ [][Next]_vars
FairSpec == Spec /\ WF_vars(Loop)

-----------------------------------------------------------------------------
(***************************************************************************)
(* The second pass of transformMessages                                    *)
(* (packages/ai/src/api/transform-messages.ts): what every provider makes  *)
(* of a transcript before it is sent.  The first pass (images, thinking    *)
(* blocks, call id spelling) changes no role, call or stop reason and is   *)
(* left out.                                                               *)
(***************************************************************************)

Synthetic(c) == [role |-> "toolResult", call |-> c, synthetic |-> TRUE]

\* Calls of the last assistant message that no result has answered, answered now.
insertSyntheticToolResults(acc) ==
  [ out  |-> acc.out \o
       LET orphan(c) == c \notin acc.have
           calls == SelectSeq(acc.pending, orphan)
       IN  [i \in 1..Len(calls) |-> Synthetic(calls[i])],
    pending |-> <<>>,
    have |-> IF acc.pending = <<>> THEN acc.have ELSE {} ]

\* Mutant: a user message does not interrupt the tool flow.
TransformOne_userPasses(acc, m) ==
  LET flushed == insertSyntheticToolResults(acc)
      put(a) == [a EXCEPT !.out = Append(@, m)]
  IN  IF m.role = "assistant"
      THEN IF m.stop \in {"error", "aborted"} THEN flushed
           ELSE IF m.calls = <<>> THEN put(flushed)
           ELSE put([flushed EXCEPT !.pending = m.calls, !.have = {}])
      ELSE IF m.role = "toolResult" THEN put([acc EXCEPT !.have = @ \cup {m.call}])
      ELSE put(acc)
\* One message of the pass.
TransformOne(acc, m) ==
  LET flushed == insertSyntheticToolResults(acc)
      put(a) == [a EXCEPT !.out = Append(@, m)]
  IN  IF m.role = "assistant"
      THEN IF m.stop \in {"error", "aborted"} THEN flushed
           ELSE IF m.calls = <<>> THEN put(flushed)
           ELSE put([flushed EXCEPT !.pending = m.calls, !.have = {}])
      ELSE IF m.role = "toolResult" THEN put([acc EXCEPT !.have = @ \cup {m.call}])
      ELSE put(flushed)

transformMessages(messages) ==
  insertSyntheticToolResults(
    FoldLeft(TransformOne, [out |-> <<>>, pending |-> <<>>, have |-> {}], messages)).out

-----------------------------------------------------------------------------
(* Properties. *)

\* Every tool call is followed by its result, once, before any other message.
AnsweredAtOnce(messages) ==
  \A i \in DOMAIN messages : messages[i].role = "assistant" =>
    LET n == Len(messages[i].calls)
    IN  /\ i + n <= Len(messages)
        /\ \A j \in i + 1..i + n : messages[j].role = "toolResult"
        /\ {messages[j].call : j \in i + 1..i + n} = ToSet(messages[i].calls)

\* The results an uninterrupted transcript holds, in the order of the calls.
AnsweredInOrder(messages) ==
  \A i \in DOMAIN messages : messages[i].role = "assistant" =>
    \A j \in DOMAIN messages[i].calls :
      /\ i + j <= Len(messages)
      /\ messages[i + j].role = "toolResult"
      /\ messages[i + j].call = messages[i].calls[j]

ViaQueue(messages, q) == SelectSeq(messages, LAMBDA m : m.role = "user" /\ m.via = q)

\* A message given to steer() or followUp() is at any time in exactly one place: its queue, the
\* messages the run has drained, or the transcript, unless the host removed it or the run that
\* had drained it threw; and what reached the transcript from a queue is in the order queued.
QueuedOnceInOrder ==
  /\ \A q \in {"steer", "followUp"} :
       LET path == ViaQueue(state.messages \o run.prompts \o run.pending, q) \o queue[q]
       IN  \A i, j \in DOMAIN path : i < j => path[i].id < path[j].id
  /\ Ids(state.messages \o run.prompts \o run.pending \o queue.steer \o queue.followUp)
       \cup history.removed = 1..count.users

\* In one-at-a-time mode a turn is given at most one steering message, however long its
\* preparation takes and however the run was started (the comment in runLoop).
OneSteeringPerTurn == queue.mode["steer"] = "one-at-a-time" => run.steered <= 1

\* When the provider is called, the context the loop kept is the transcript the host sees.
ContextIsTranscript == run.pc = "request" => run.context = state.messages

\* What the provider is sent answers every tool call, whatever aborts and failures left behind.
ProviderSeesAnswers == run.pc = "request" => AnsweredAtOnce(transformMessages(run.context))

\* As long as nothing was aborted and nothing threw, every tool call has its own result, in the
\* order of the calls, before the next request: no result is made up.
OwnResultsInOrder ==
  run.pc = "request" /\ ~history.interrupted => AnsweredInOrder(run.context)

=============================================================================
