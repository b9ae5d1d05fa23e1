---------------------------- MODULE AgentSession ----------------------------
(***************************************************************************)
(* The coding agent's session over the classic agent                       *)
(* (coding-agent/src/core/agent-session.ts): prompts and their preflight,  *)
(* the run and what follows it (retry with backoff, overflow recovery,     *)
(* automatic compaction, queued continuations), manual compaction, tree    *)
(* navigation, messages held back until a turn or a run ends, aborting and *)
(* waiting until idle.  A step is the code between two awaits.  The agent  *)
(* is abstracted to its turns (AgentLoop has its detail); the session is   *)
(* the path to the leaf.  What the context measures against its window is  *)
(* a free choice.                                                          *)
(***************************************************************************)
EXTENDS Integers, Sequences, FiniteSets, SequencesExt

CONSTANTS
  Null,
  Callers,      \* prompt() calls, numbered from 1
  Stops,        \* ways a response may stop
  MaxRetries,   \* settings.maxRetries
  Overlap,      \* whether callers start work while another call is in its preflight or waits for idle
  MaxReplies,   \* bound: responses other than a plain stop
  MaxExtras,    \* bound: messages queued, recorded or sent besides prompts
  MaxCompacts,  \* bound: compactions
  MaxHost       \* bound: aborts, queue clears, manual compactions and navigations

VARIABLES
  agent,     \* agent-core: state.messages, the two queues, the run
  path,      \* sessionManager.getBranch()
  s,         \* the fields of AgentSession
  ctl,       \* the abort controllers: "none", "live" or "aborted"
  proc,      \* per call of prompt(), and for the loop's own hook: where it is
  manual,    \* the call of compact()
  tree,      \* the call of navigateTree()
  waiting,   \* callers of waitForIdle whose promise is pending
  count,     \* ids handed out and the bounded counters
  failing    \* history: failed responses since the last message, success or abort

vars == <<agent, path, s, ctl, proc, manual, tree, waiting, count, failing>>

Loop == 0
Procs == Callers \cup {Loop}
Message(role, id, stop) == [role |-> role, id |-> id, stop |-> stop, ref |-> 0]
Compaction(id, ref) == [role |-> "compaction", id |-> id, stop |-> "", ref |-> ref]
Summary == Message("summary", 0, "")
NoProc == [pc |-> "none", msg |-> Null, willRetry |-> FALSE, kept |-> 0, back |-> ""]

Init ==
  /\ agent = [ pc |-> "idle", owner |-> Null, messages |-> <<>>, steer |-> <<>>, followUp |-> <<>>,
               pending |-> <<>>, unsaved |-> Null, next |-> "", called |-> FALSE, aborted |-> FALSE ]
  /\ path = <<>>
  /\ s = [ active |-> FALSE, steering |-> <<>>, followUp |-> <<>>, bash |-> <<>>, custom |-> <<>>,
           nextTurn |-> <<>>, retryAttempt |-> 0, overflowTried |-> FALSE, last |-> Null ]
  /\ ctl = [retry |-> "none", auto |-> "none", manual |-> "none", tree |-> "none"]
  /\ proc = [p \in Procs |-> NoProc]
  /\ manual = [pc |-> "none", kept |-> 0]
  /\ tree = [pc |-> "none", target |-> 0]
  /\ waiting = FALSE
  /\ count = [ids |-> 0, replies |-> 0, extras |-> 0, compacts |-> 0, host |-> 0]
  /\ failing = 0

-----------------------------------------------------------------------------
\* The session's context and idleness.

\* The latest compaction, the entries it kept if they are on the path, and those after it.
buildSessionContext(p) ==
  LET at == {i \in DOMAIN p : p[i].role = "compaction"}
      c == CHOOSE i \in at : \A j \in at : j <= i
      kept == {i \in 1..(c - 1) : p[i].id = p[c].ref}
      from == IF kept = {} THEN c ELSE CHOOSE i \in kept : TRUE
      messages(q) == SelectSeq(q, LAMBDA e : e.role # "compaction")
  IN  IF at = {} THEN p
      ELSE <<Summary>> \o messages(SubSeq(p, from, c - 1)) \o SubSeq(p, c + 1, Len(p))

isCompacting(c) == c.auto # "none" \/ c.manual # "none" \/ c.tree # "none"
isIdle(active, c) == ~active /\ ~isCompacting(c)
hasQueuedMessages == agent.steer # <<>> \/ agent.followUp # <<>>

\* Mutant: idleness is judged before the controller is cleared.
Woken_beforeClear(active, c) == isIdle(active, ctl)
\* _resolveIdleWaitIfIdle
Woken(active, c) == isIdle(active, c)

\* The waiters' promise resolves, and compact() goes on from its abort.
resolveIdleWait(active, c) ==
  /\ waiting' = (waiting /\ ~Woken(active, c))
  /\ manual' = IF manual.pc = "waiting" /\ Woken(active, c) THEN [manual EXCEPT !.pc = "auth"] ELSE manual
  /\ ctl' = IF manual.pc = "waiting" /\ Woken(active, c) THEN [c EXCEPT !.manual = "live"] ELSE c

Quiet == UNCHANGED <<ctl, manual, waiting>>
FreshId == count.ids + 1

\* What both flushes add, in the agent's state and in the session.
Flushed(q, fields) == IF "bash" \in fields THEN q \o s.bash \o s.custom ELSE q \o s.custom

-----------------------------------------------------------------------------
\* prompt(): preflight.

InPreflight == \/ \E c \in Callers : proc[c].pc \in {"preflight", "before"} \/ proc[c].back = "before"
               \/ tree.pc # "none" \/ manual.pc = "waiting"
MayStart == Overlap \/ ~InPreflight

\* The call: refused during manual compaction, queued while a run is active, else preflight.
prompt(c) ==
  /\ proc[c].pc = "none" /\ MayStart
  /\ \A d \in Callers : proc[d].pc = "none" => c <= d
  /\ \/ /\ ctl.manual # "none"
        /\ proc' = [proc EXCEPT ![c].pc = "done"]
        /\ UNCHANGED <<agent, path, s, count>>
     \/ /\ ctl.manual = "none" /\ s.active
        /\ count' = [count EXCEPT !.ids = @ + 1]
        /\ proc' = [proc EXCEPT ![c].pc = "done"]
        /\ \E q \in {"steer", "followUp"} :
             /\ agent' = [agent EXCEPT ![q] = Append(@, Message("user", FreshId, ""))]
             /\ s' = IF q = "steer" THEN [s EXCEPT !.steering = Append(@, FreshId)]
                     ELSE [s EXCEPT !.followUp = Append(@, FreshId)]
        /\ UNCHANGED path
     \/ /\ ctl.manual = "none" /\ ~s.active
        /\ agent' = [agent EXCEPT !.messages = Flushed(@, {"bash", "custom"})]
        /\ path' = Flushed(path, {"bash", "custom"})
        /\ s' = [s EXCEPT !.bash = <<>>, !.custom = <<>>]
        /\ proc' = [proc EXCEPT ![c].pc = "preflight"]
        /\ UNCHANGED count
  /\ UNCHANGED <<tree, failing>> /\ Quiet

Assistants(messages) == {i \in DOMAIN messages : messages[i].role = "assistant"}
lastAssistant(messages) ==
  LET at == Assistants(messages)
  IN  IF at = {} THEN Null ELSE messages[CHOOSE i \in at : \A j \in at : j <= i]

\* Authentication is settled: the last response may call for compaction first.
preflight(c) ==
  /\ proc[c].pc = "preflight"
  /\ \/ proc' = [proc EXCEPT ![c].pc = "done"]          \* no model or no credentials: prompt() throws
     \/ proc' = [proc EXCEPT ![c].pc = IF lastAssistant(agent.messages) = Null THEN "before" ELSE "check",
                             ![c].msg = lastAssistant(agent.messages), ![c].back = "before"]
  /\ UNCHANGED <<agent, path, s, tree, count, failing>> /\ Quiet

\* _runAgentPrompt: the run starts, or agent.prompt finds one active and throws.
runAgentPrompt(c, messages, fields) ==
  /\ s' = [fields EXCEPT !.active = TRUE]
  /\ count' = [count EXCEPT !.ids = @ + 1]
  /\ IF agent.pc # "idle"
     THEN proc' = [proc EXCEPT ![c].pc = "settle", ![c].back = ""] /\ UNCHANGED agent
     ELSE /\ proc' = [proc EXCEPT ![c].pc = "agent", ![c].back = ""]
          /\ agent' = [agent EXCEPT !.pc = "inject", !.owner = c, !.aborted = FALSE, !.pending = messages]
  /\ UNCHANGED <<path, tree, failing>> /\ Quiet

\* before_agent_start has been emitted: the prompt and the messages kept for it.
startRun(c) ==
  /\ proc[c].pc = "before"
  /\ runAgentPrompt(c, <<Message("user", FreshId, "")>> \o s.nextTurn, [s EXCEPT !.nextTurn = <<>>])

\* sendCustomMessage with triggerTurn while nothing runs: a run without a preflight.
triggerTurn(c) ==
  /\ proc[c].pc = "none" /\ ~s.active
  /\ MayStart /\ (Overlap \/ isIdle(s.active, ctl))
  /\ \A d \in Callers : proc[d].pc = "none" => c <= d
  /\ runAgentPrompt(c, <<Message("custom", FreshId, "")>>, s)

-----------------------------------------------------------------------------
\* The agent's run, and _handleAgentEvent: a message joins the agent's state, the extensions are
\* told, and it is appended to the session.

\* The delivered text leaves the shown queue.
WithoutFirst(q, id) == SelectSeq(q, LAMBDA x : x # id)

deliver ==
  /\ agent.pc = "inject" /\ agent.unsaved = Null
  /\ LET m == Head(agent.pending)
     IN  /\ agent' = [agent EXCEPT !.messages = Append(@, m), !.unsaved = m, !.pending = Tail(@),
                                   !.next = IF Tail(agent.pending) = <<>> THEN "model" ELSE "inject"]
         /\ s' = IF m.role # "user" THEN s
                 ELSE [s EXCEPT !.overflowTried = FALSE, !.steering = WithoutFirst(@, m.id),
                                !.followUp = WithoutFirst(@, m.id)]
  /\ failing' = 0
  /\ UNCHANGED <<path, proc, tree, count>> /\ Quiet

\* The provider answers; the tool answers.
respond(stop) ==
  /\ agent.pc = "model" /\ agent.unsaved = Null
  /\ stop = "aborted" => agent.aborted
  /\ stop \in {"stop", "aborted"} \/ count.replies < MaxReplies
  /\ count' = [count EXCEPT !.ids = @ + 1, !.replies = IF stop \in {"stop", "aborted"} THEN @ ELSE @ + 1]
  /\ LET m == Message("assistant", FreshId, stop)
     IN  agent' = [agent EXCEPT !.messages = Append(@, m), !.unsaved = m,
                     !.called = (stop = "toolUse"), !.next =
                     CASE stop = "toolUse" -> "tools"
                       [] stop \in {"error", "overflow", "aborted"} -> "lastTurn"
                       [] OTHER -> "turn"]
  /\ failing' = IF stop \in {"error", "overflow", "length"} THEN failing + 1 ELSE 0
  /\ UNCHANGED <<path, s, proc, tree>> /\ Quiet

toolResult ==
  /\ agent.pc = "tools" /\ agent.unsaved = Null
  /\ count' = [count EXCEPT !.ids = @ + 1]
  /\ LET call == Last(SelectSeq(agent.messages, LAMBDA q : q.role = "assistant"))
         m    == [Message("toolResult", FreshId, "") EXCEPT !.ref = call.id]
     IN  agent' = [agent EXCEPT !.messages = Append(@, m), !.unsaved = m, !.next = "turn"]
  /\ UNCHANGED <<path, s, proc, tree, failing>> /\ Quiet

\* What message_end of a response changes.
Handled(m) ==
  [s EXCEPT !.last = m,
            !.overflowTried = IF m.stop \in {"error", "overflow", "length"} THEN @ ELSE FALSE,
            !.retryAttempt = IF m.stop \in {"error", "overflow"} THEN @ ELSE 0]

persist ==
  /\ agent.unsaved # Null
  /\ path' = Append(path, agent.unsaved)
  /\ s' = IF agent.unsaved.role = "assistant" THEN Handled(agent.unsaved) ELSE s
  /\ agent' = [agent EXCEPT !.unsaved = Null, !.pc = agent.next, !.next = ""]
  /\ UNCHANGED <<proc, tree, count, failing>> /\ Quiet

\* turn_end: custom messages held back during the turn join the transcript.
turnEnd ==
  /\ agent.pc \in {"turn", "lastTurn"}
  /\ agent' = [agent EXCEPT !.messages = Flushed(@, {"custom"}),
                            !.pc = IF agent.pc = "lastTurn" THEN "end" ELSE "poll"]
  /\ path' = Flushed(path, {"custom"})
  /\ s' = [s EXCEPT !.custom = <<>>]
  /\ UNCHANGED <<proc, tree, count, failing>> /\ Quiet

\* The loop polls its queues: another turn, or the end of the run.
poll ==
  /\ agent.pc = "poll"
  /\ LET q == IF agent.steer # <<>> THEN "steer" ELSE "followUp"
     IN  IF agent.steer # <<>> \/ (~agent.called /\ agent.followUp # <<>>)
         THEN agent' = [agent EXCEPT !.pc = "prepare", !.pending = <<Head(agent[q])>>, ![q] = Tail(@)]
         ELSE agent' = [agent EXCEPT !.pc = IF agent.called THEN "prepare" ELSE "end"]
  /\ UNCHANGED <<path, s, proc, tree, count, failing>> /\ Quiet

\* prepareNextTurn: _compactBeforeNextAssistantResponse compacts first when the context is large.
prepareNextTurn(large) ==
  /\ agent.pc = "prepare" /\ proc[Loop].pc = "none"
  /\ IF large
     THEN proc' = [proc EXCEPT ![Loop].pc = "auth", ![Loop].willRetry = FALSE, ![Loop].back = "none"]
          /\ agent' = [agent EXCEPT !.pc = "compacting"]
     ELSE agent' = [agent EXCEPT !.pc = IF agent.pending = <<>> THEN "model" ELSE "inject"] /\ UNCHANGED proc
  /\ UNCHANGED <<path, s, tree, count, failing>> /\ Quiet

prepared ==
  /\ agent.pc = "compacting" /\ proc[Loop].pc = "none"
  /\ LET polled == IF agent.pending = <<>> /\ agent.steer # <<>> THEN <<Head(agent.steer)>> ELSE agent.pending
     IN  agent' = [agent EXCEPT !.pending = polled, !.pc = IF polled = <<>> THEN "model" ELSE "inject",
                     !.steer = IF agent.pending = <<>> /\ @ # <<>> THEN Tail(@) ELSE @]
  /\ UNCHANGED <<path, s, proc, tree, count, failing>> /\ Quiet

agentEnd ==
  /\ agent.pc = "end"
  /\ agent' = [agent EXCEPT !.pc = "idle", !.owner = Null]
  /\ proc' = [proc EXCEPT ![agent.owner].pc = "post"]
  /\ UNCHANGED <<path, s, tree, count, failing>> /\ Quiet

-----------------------------------------------------------------------------
\* _handlePostAgentRun.

DropLastAssistant(messages) ==
  IF messages # <<>> /\ Last(messages).role = "assistant" THEN Front(messages) ELSE messages

handlePostAgentRun(c) ==
  /\ proc[c].pc = "post"
  /\ LET msg == s.last
     IN  IF msg = Null
         THEN /\ proc' = [proc EXCEPT ![c].pc = "settle"]
              /\ UNCHANGED <<agent, s>> /\ Quiet
         ELSE IF msg.stop = "error" /\ s.retryAttempt < MaxRetries
         THEN /\ s' = [s EXCEPT !.last = Null, !.retryAttempt = @ + 1]
              /\ agent' = [agent EXCEPT !.messages = DropLastAssistant(@)]
              /\ ctl' = [ctl EXCEPT !.retry = "live"]
              /\ proc' = [proc EXCEPT ![c].pc = "sleep", ![c].msg = msg]
              /\ UNCHANGED <<manual, waiting>>
         ELSE /\ s' = [s EXCEPT !.last = Null,
                                !.retryAttempt = IF msg.stop \in {"error", "overflow"} THEN 0 ELSE @]
              /\ proc' = [proc EXCEPT ![c].pc = "check", ![c].msg = msg, ![c].back = "post"]
              /\ UNCHANGED agent /\ Quiet
  /\ UNCHANGED <<path, tree, count, failing>>

\* The backoff ends, or its abort: a cancelled retry goes on to the compaction check.
sleepOver(c) ==
  /\ proc[c].pc = "sleep"
  /\ ctl' = [ctl EXCEPT !.retry = "none"]
  /\ IF ctl.retry = "aborted"
     THEN /\ s' = [s EXCEPT !.retryAttempt = 0]
          /\ proc' = [proc EXCEPT ![c].pc = "check", ![c].back = "post"]
          /\ failing' = 0
     ELSE proc' = [proc EXCEPT ![c].pc = "continue", ![c].msg = Null] /\ UNCHANGED <<s, failing>>
  /\ UNCHANGED <<agent, path, manual, tree, waiting, count>>

\* Where a check or a compaction returns to: the prompt, the loop's hook, or after the run.
Returned(p, continue) ==
  [proc EXCEPT ![p] = [NoProc EXCEPT !.pc =
     CASE proc[p].back = "before" -> "before"
       [] proc[p].back = "none" -> "none"
       [] OTHER -> IF continue \/ hasQueuedMessages THEN "continue" ELSE "settle"]]

Stale(msg) == \E i \in DOMAIN path : path[i].role = "compaction" /\ msg.id <= path[i].id

\* _checkCompaction: an overflow is recovered from once; otherwise size decides.
checkCompaction(c, large) ==
  /\ proc[c].pc = "check"
  /\ LET msg == proc[c].msg
         skip == (msg.stop = "aborted" /\ proc[c].back = "post") \/ Stale(msg)
         overflow == ~skip /\ msg.stop \in {"overflow", "length"}
     IN  /\ large => ~skip /\ ~overflow
         /\ IF overflow /\ ~s.overflowTried
            THEN /\ s' = [s EXCEPT !.overflowTried = TRUE]
                 /\ agent' = [agent EXCEPT !.messages = DropLastAssistant(@)]
                 /\ proc' = [proc EXCEPT ![c].pc = "auth", ![c].willRetry = TRUE]
            ELSE /\ proc' = IF large THEN [proc EXCEPT ![c].pc = "auth", ![c].willRetry = FALSE]
                            ELSE Returned(c, FALSE)
                 /\ UNCHANGED <<s, agent>>
  /\ UNCHANGED <<path, tree, count, failing>> /\ Quiet

\* agent.continue(): from the transcript's last message, or from a queue after a response.
continue(c) ==
  /\ proc[c].pc = "continue"
  /\ LET assistant == agent.messages # <<>> /\ Last(agent.messages).role = "assistant"
         q == IF agent.steer # <<>> THEN "steer" ELSE "followUp"
         drained == IF assistant /\ hasQueuedMessages THEN <<Head(agent[q])>> ELSE <<>>
     IN  IF agent.pc # "idle" \/ agent.messages = <<>> \/ (assistant /\ drained = <<>>)
         THEN proc' = [proc EXCEPT ![c].pc = "settle"] /\ UNCHANGED agent
         ELSE /\ proc' = [proc EXCEPT ![c].pc = "agent"]
              /\ agent' = [agent EXCEPT !.owner = c, !.aborted = FALSE,
                             !.pending = drained \o (IF ~assistant /\ agent.steer # <<>>
                                                     THEN <<Head(agent.steer)>> ELSE <<>>),
                             !.pc = IF drained = <<>> /\ agent.steer = <<>> THEN "model" ELSE "inject",
                             !.steer = IF @ # <<>> THEN Tail(@) ELSE @,
                             !.followUp = IF drained # <<>> /\ q = "followUp" THEN Tail(@) ELSE @]
  /\ UNCHANGED <<path, s, tree, count, failing>> /\ Quiet

\* The finally block of _runAgentPrompt, up to the agent_settled extension event ...
settle(c) ==
  /\ proc[c].pc = "settle"
  /\ agent' = [agent EXCEPT !.messages = Flushed(@, {"bash", "custom"})]
  /\ path' = Flushed(path, {"bash", "custom"})
  /\ s' = [s EXCEPT !.bash = <<>>, !.custom = <<>>, !.active = FALSE]
  /\ proc' = [proc EXCEPT ![c].pc = "settled"]
  /\ UNCHANGED <<tree, count, failing>> /\ Quiet

\* ... and after it.
settled(c) ==
  /\ proc[c].pc = "settled"
  /\ proc' = [proc EXCEPT ![c].pc = "done"]
  /\ resolveIdleWait(s.active, ctl)
  /\ UNCHANGED <<agent, path, s, tree, count, failing>>

-----------------------------------------------------------------------------
\* Compaction.

\* prepareCompaction: where the kept entries may begin; some message must be before it.
CutPoints(p) ==
  LET at == {i \in DOMAIN p : p[i].role = "compaction"}
      c == CHOOSE i \in at : \A j \in at : j <= i
      start == IF at = {} THEN 1
               ELSE IF \E i \in DOMAIN p : p[i].id = p[c].ref THEN CHOOSE i \in DOMAIN p : p[i].id = p[c].ref
               ELSE c + 1
  IN  IF p = <<>> \/ Last(p).role = "compaction" THEN {}
      ELSE {i \in (start + 1)..Len(p) :
              /\ p[i].role \notin {"compaction", "toolResult"}
              /\ \E j \in start..(i - 1) : p[j].role # "compaction"}

\* _runAutoCompaction after its authentication: nothing to do, or the controller is set.
autoPrepare(p) ==
  /\ proc[p].pc = "auth"
  /\ \/ /\ proc' = Returned(p, FALSE)
        /\ UNCHANGED agent
        /\ resolveIdleWait(s.active, [ctl EXCEPT !.auto = "none"])
     \/ /\ count.compacts < MaxCompacts
        /\ \E i \in CutPoints(path) : proc' = [proc EXCEPT ![p].pc = "auto", ![p].kept = path[i].id]
        /\ ctl' = [ctl EXCEPT !.auto = "live"]
        /\ UNCHANGED <<agent, manual, waiting>>
  /\ UNCHANGED <<path, s, tree, count, failing>>

DropFailed(messages) ==
  IF messages # <<>> /\ Last(messages).stop \in {"error", "overflow", "length"} THEN Front(messages) ELSE messages

\* After a compaction the agent's messages are rebuilt from the session.
Rebuilt(p) == buildSessionContext(p)

\* The summary arrives, or the compaction is cancelled or fails.
autoFinish(p, ok) ==
  /\ proc[p].pc = "auto"
  /\ LET done == ok /\ ctl.auto # "aborted"
         rebuilt == Rebuilt(path')
     IN  /\ IF done
            THEN /\ path' = Append(path, Compaction(FreshId, proc[p].kept))
                 /\ count' = [count EXCEPT !.ids = @ + 1, !.compacts = @ + 1]
                 /\ agent' = [agent EXCEPT !.messages = IF proc[p].willRetry THEN DropFailed(rebuilt) ELSE rebuilt]
                 /\ proc' = Returned(p, proc[p].willRetry)
            ELSE /\ proc' = Returned(p, FALSE)
                 /\ UNCHANGED <<path, count, agent>>
         /\ resolveIdleWait(s.active, [ctl EXCEPT !.auto = "none"])
  /\ UNCHANGED <<s, tree, failing>>

Host == count.host < MaxHost
Aborted(x) == IF x = "live" THEN "aborted" ELSE x
AbortedControllers == [k \in DOMAIN ctl |-> Aborted(ctl[k])]

\* compact(): abort, wait until idle, then hold the manual controller.
compact ==
  /\ manual.pc = "none" /\ MayStart /\ Host
  /\ count' = [count EXCEPT !.host = @ + 1]
  /\ agent' = [agent EXCEPT !.aborted = @ \/ agent.pc # "idle"]
  /\ IF isIdle(s.active, ctl)
     THEN manual' = [manual EXCEPT !.pc = "auth"] /\ ctl' = [ctl EXCEPT !.manual = "live"]
          /\ UNCHANGED waiting
     ELSE manual' = [manual EXCEPT !.pc = "waiting"] /\ ctl' = AbortedControllers /\ waiting' = TRUE
  /\ UNCHANGED <<path, s, proc, tree, failing>>

compactPrepare ==
  /\ manual.pc = "auth"
  /\ \/ /\ count.compacts < MaxCompacts
        /\ \E i \in CutPoints(path) : manual' = [pc |-> "compacting", kept |-> path[i].id]
        /\ UNCHANGED <<ctl, waiting>>
     \/ /\ manual' = [pc |-> "none", kept |-> 0]
        /\ ctl' = [ctl EXCEPT !.manual = "none"]
        /\ waiting' = (waiting /\ ~Woken(s.active, ctl'))
  /\ UNCHANGED <<agent, path, s, proc, tree, count, failing>>

compactFinish(ok) ==
  /\ manual.pc = "compacting"
  /\ IF ok /\ ctl.manual # "aborted"
     THEN /\ path' = Append(path, Compaction(FreshId, manual.kept))
          /\ count' = [count EXCEPT !.ids = @ + 1, !.compacts = @ + 1]
          /\ agent' = [agent EXCEPT !.messages = Rebuilt(path')]
     ELSE UNCHANGED <<path, count, agent>>
  /\ manual' = [pc |-> "none", kept |-> 0]
  /\ ctl' = [ctl EXCEPT !.manual = "none"]
  /\ waiting' = (waiting /\ ~Woken(s.active, ctl'))
  /\ UNCHANGED <<s, proc, tree, failing>>

-----------------------------------------------------------------------------
\* Tree navigation.

navigateTree(id) ==
  /\ tree.pc = "none" /\ MayStart /\ Host
  /\ isIdle(s.active, ctl)
  /\ path # <<>> /\ id # Last(path).id /\ \E i \in DOMAIN path : path[i].id = id
  /\ tree' = [pc |-> "summary", target |-> id]
  /\ ctl' = [ctl EXCEPT !.tree = "live"]
  /\ count' = [count EXCEPT !.host = @ + 1]
  /\ UNCHANGED <<agent, path, s, proc, manual, waiting, failing>>

\* The leaf moves to the target, or to the parent of a user or custom message.
navigateFinish(ok, summarize) ==
  /\ tree.pc = "summary"
  /\ LET at == CHOOSE i \in DOMAIN path : path[i].id = tree.target
         to == SubSeq(path, 1, IF path[at].role \in {"user", "custom"} THEN at - 1 ELSE at)
     IN  IF ok /\ ctl.tree # "aborted" /\ \E i \in DOMAIN path : path[i].id = tree.target
         THEN /\ path' = IF summarize THEN Append(to, Message("branchSummary", FreshId, "")) ELSE to
              /\ count' = IF summarize THEN [count EXCEPT !.ids = @ + 1] ELSE count
              /\ agent' = [agent EXCEPT !.messages = buildSessionContext(path')]
         ELSE UNCHANGED <<path, count, agent>>
  /\ tree' = [pc |-> "none", target |-> 0]
  /\ resolveIdleWait(s.active, [ctl EXCEPT !.tree = "none"])
  /\ UNCHANGED <<s, proc, failing>>

-----------------------------------------------------------------------------
\* The host's other calls.

Extra == count.extras < MaxExtras
ExtraCount == [count EXCEPT !.extras = @ + 1, !.ids = @ + 1]

\* steer() and followUp().
queueUserInput(q) ==
  /\ Extra /\ count' = ExtraCount
  /\ agent' = [agent EXCEPT ![q] = Append(@, Message("user", FreshId, ""))]
  /\ s' = IF q = "steer" THEN [s EXCEPT !.steering = Append(@, FreshId)]
          ELSE [s EXCEPT !.followUp = Append(@, FreshId)]
  /\ UNCHANGED <<path, proc, tree, failing>> /\ Quiet

\* Whether a context-only message has to wait for the run.
Deferred == s.active

recordBashResult ==
  /\ Extra /\ count' = ExtraCount
  /\ LET m == Message("bash", FreshId, "")
     IN  IF Deferred THEN s' = [s EXCEPT !.bash = Append(@, m)] /\ UNCHANGED <<agent, path>>
         ELSE agent' = [agent EXCEPT !.messages = Append(@, m)] /\ path' = Append(path, m) /\ UNCHANGED s
  /\ UNCHANGED <<proc, tree, failing>> /\ Quiet

\* sendCustomMessage: for the next prompt, queued for the loop, held back, or appended at once.
sendCustomMessage(how) ==
  /\ Extra /\ count' = ExtraCount
  /\ LET m == Message("custom", FreshId, "")
     IN  CASE how = "nextTurn" -> s' = [s EXCEPT !.nextTurn = Append(@, m)] /\ UNCHANGED <<agent, path>>
           [] how # "nextTurn" /\ s.active /\ how # "append" ->
                agent' = [agent EXCEPT ![how] = Append(@, m)] /\ UNCHANGED <<s, path>>
           [] how = "append" /\ s.active -> s' = [s EXCEPT !.custom = Append(@, m)] /\ UNCHANGED <<agent, path>>
           [] OTHER -> /\ agent' = [agent EXCEPT !.messages = Append(@, m)]
                       /\ path' = Append(path, m) /\ UNCHANGED s
  /\ UNCHANGED <<proc, tree, failing>> /\ Quiet

clearQueue ==
  /\ Host /\ count' = [count EXCEPT !.host = @ + 1]
  /\ s' = [s EXCEPT !.steering = <<>>, !.followUp = <<>>]
  /\ agent' = [agent EXCEPT !.steer = <<>>, !.followUp = <<>>]
  /\ UNCHANGED <<path, proc, tree, failing>> /\ Quiet

\* abort(): every controller and the agent, then wait until idle.
abort ==
  /\ Host /\ count' = [count EXCEPT !.host = @ + 1]
  /\ ctl' = AbortedControllers
  /\ agent' = [agent EXCEPT !.aborted = @ \/ agent.pc # "idle"]
  /\ waiting' = (waiting \/ ~isIdle(s.active, ctl))
  /\ UNCHANGED <<path, s, proc, manual, tree, failing>>

-----------------------------------------------------------------------------
Program ==
  \/ \E c \in Callers : \/ preflight(c) \/ startRun(c) \/ handlePostAgentRun(c) \/ sleepOver(c)
                        \/ continue(c) \/ settle(c) \/ settled(c)
                        \/ \E large \in BOOLEAN : checkCompaction(c, large)
  \/ deliver \/ (\E stop \in Stops : respond(stop)) \/ toolResult \/ persist \/ turnEnd \/ poll \/ prepared
  \/ agentEnd \/ \E large \in BOOLEAN : prepareNextTurn(large)
  \/ \E p \in Procs : autoPrepare(p) \/ \E ok \in BOOLEAN : autoFinish(p, ok)
  \/ compactPrepare \/ \E ok \in BOOLEAN : compactFinish(ok)
  \/ \E ok, summarize \in BOOLEAN : navigateFinish(ok, summarize)

Calls ==
  \/ \E c \in Callers : prompt(c) \/ triggerTurn(c)
  \/ compact \/ (\E i \in DOMAIN path : navigateTree(path[i].id))
  \/ \E q \in {"steer", "followUp"} : queueUserInput(q)
  \/ recordBashResult \/ \E how \in {"nextTurn", "steer", "followUp", "append"} : sendCustomMessage(how)
  \/ clearQueue \/ abort

Next == Program \/ Calls

Spec == Init /\ [][Next]_vars
FairSpec == Spec /\ WF_vars(Program)

-----------------------------------------------------------------------------
(* Properties. *)

\* A tool result directly follows its call, in the transcript and in the context the session
\* resolves to: bash results and custom messages wait until the turn or the run is over.
ResultsFollowCalls ==
  \A q \in {agent.messages, buildSessionContext(path)} :
    \A i \in DOMAIN q : q[i].role = "toolResult" => i > 1 /\ q[i - 1].id = q[i].ref

\* The transcript is what the session on disk resolves to, up to failed responses that recovery
\* took out of it: a resumed session sees what this one sees.
TranscriptIsContext ==
  agent.unsaved = Null =>
    LET kept(q) == SelectSeq(q, LAMBDA m : m.stop \notin {"error", "overflow", "length"})
    IN  kept(agent.messages) = kept(buildSessionContext(path))

\* No lost wakeup: a caller of waitForIdle waits only while the session is busy, or while the
\* extensions are being told that it has settled.
WaitersAreWoken ==
  waiting => ~isIdle(s.active, ctl) \/ \E c \in Callers : proc[c].pc = "settled"

\* The queue the user is shown (getSteeringMessages, getFollowUpMessages) is what the agent still
\* has to deliver: a prompt is not shown after it was taken, nor taken without being shown.
ShownIsQueued ==
  LET ids(q) == {m.id : m \in {x \in ToSet(q) : x.role = "user"}}
      taken == ids(agent.pending)
      shown == ToSet(s.steering) \cup ToSet(s.followUp)
  IN  /\ ids(agent.steer) \cup ids(agent.followUp) \subseteq shown
      /\ shown \subseteq ids(agent.steer) \cup ids(agent.followUp) \cup taken

Called(c) == proc[c].pc # "none"
Ended(c) == proc[c].pc = "done"
Waits == waiting

=============================================================================
