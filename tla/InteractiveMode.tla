--------------------------- MODULE InteractiveMode ---------------------------
(***************************************************************************)
(* The interactive mode's input (coding-agent/src/modes/interactive/       *)
(* interactive-mode.ts): where a submitted text goes, the queue for the    *)
(* time of a compaction and its flush, what Escape does, and the main loop *)
(* that prompts.  The session under it is abstracted to its calls of       *)
(* prompt(), its run, its compactions and its tree navigation (module      *)
(* AgentSession has their detail).  Texts are numbered in the order they   *)
(* are submitted; extension commands and bash commands are left out.       *)
(***************************************************************************)
EXTENDS Integers, Sequences, FiniteSets, SequencesExt

CONSTANTS
  Texts,       \* 1..n, bound: texts submitted
  Overlap,     \* what the user does while a prompt is in its preflight: subset of {"submit", "compact"}
  Fails,       \* whether a preflight may fail (no model, no credentials)
  PreCompact,  \* whether a preflight may compact first
  NavFails,    \* whether a tree navigation may be aborted, cancelled or fail
  MaxCompacts, \* bound: compactions and navigations
  MaxKeys,     \* bound: presses of Escape and retrievals of the queue
  MaxRetries   \* bound: retries

VARIABLES
  used,    \* texts submitted so far
  input,   \* pendingUserInputs, and what the input callback was given
  loop,    \* the text the main loop prompts with, 0 while it waits for input
  call,    \* where the call of session.prompt with a text is
  session, \* active, the run (its text, 0 for none), its phase, whether it is aborted, its queues
  ctl,     \* what compacts: auto (the text whose call or run does), manual, tree
  cq,      \* compactionQueuedMessages
  batch,   \* per text a flush prompts with: the messages to restore when the prompt fails
  sent,    \* texts in the transcript
  editor,  \* texts restored to the editor
  esc,     \* onEscape, autoCompactionEscapeHandler, retryEscapeHandler and originalOnEscape
  count    \* the bounded counters

vars == <<used, input, loop, call, session, ctl, cq, batch, sent, editor, esc, count>>

Queued(t, mode) == [text |-> t, mode |-> mode]

Init ==
  /\ used = 0 /\ input = <<>> /\ loop = 0 /\ call = [t \in Texts |-> "none"]
  /\ session = [active |-> FALSE, run |-> 0, phase |-> "none", aborted |-> FALSE, steer |-> <<>>, followUp |-> <<>>]
  /\ ctl = [auto |-> 0, manual |-> "none", tree |-> "none", aborted |-> FALSE, retry |-> FALSE]
  /\ cq = <<>> /\ batch = [t \in Texts |-> <<>>] /\ sent = <<>> /\ editor = <<>>
  /\ esc = [on |-> "main", auto |-> "none", retry |-> "none", tree |-> "none"]
  /\ count = [compacts |-> 0, keys |-> 0, retries |-> 0]

isCompacting == ctl.auto # 0 \/ ctl.manual = "live" \/ ctl.tree = "live"
InPreflight == \E t \in Texts : call[t] \in {"input", "preflight", "before"}
PreCompacting == \E t \in Texts : call[t] = "compacting"
\* The user waits for a prompt's preflight, and for the flush of the compaction queue; or not.
Free(what) ==
  what \in Overlap
    \/ (~InPreflight /\ input = <<>> /\ (what = "compact" => cq = <<>> /\ ~PreCompacting) /\ ~(ctl.manual = "waiting" /\ isCompacting))

-----------------------------------------------------------------------------
(* Events: what handleEvent does with onEscape. *)

compactionStart(e) == [e EXCEPT !.auto = e.on, !.on = "compaction"]
\* Mutant: the saved handler is kept.
compactionEnd_kept(e) == e
compactionEnd(e) == IF e.auto = "none" THEN e ELSE [e EXCEPT !.on = e.auto, !.auto = "none"]
retryStart(e) == [e EXCEPT !.retry = e.on, !.on = "retry"]
\* agent_start and auto_retry_end
retryOver(e) == IF e.retry = "none" THEN e ELSE [e EXCEPT !.on = e.retry, !.retry = "none"]

Texts_of(ms) == [i \in DOMAIN ms |-> ms[i].text]
OfMode(ms, mode) == Texts_of(SelectSeq(ms, LAMBDA m : m.mode = mode))

\* flushCompactionQueue without a retry: the first message is prompted with, the rest is queued.
Flush(q, s) ==
  [first |-> Head(q),
   session |-> [s EXCEPT !.steer = @ \o OfMode(Tail(q), "steer"), !.followUp = @ \o OfMode(Tail(q), "followUp")]]

\* compaction_end, and the end of a navigation: the queue is flushed.
flushCompactionQueue(willRetry, s) ==
  IF cq = <<>> THEN session' = s /\ UNCHANGED <<cq, batch, call>>
  ELSE /\ cq' = <<>>
       /\ IF willRetry
          THEN /\ session' = [s EXCEPT !.steer = @ \o OfMode(cq, "steer"), !.followUp = @ \o OfMode(cq, "followUp")]
               /\ UNCHANGED <<batch, call>>
          ELSE /\ session' = Flush(cq, s).session
               /\ call' = [call EXCEPT ![Flush(cq, s).first.text] = "input"]
               /\ batch' = [batch EXCEPT ![Flush(cq, s).first.text] = cq]

-----------------------------------------------------------------------------
(* The user. *)

\* Mutant: a text submitted during compaction goes to the main loop.
Route_loop == IF session.active THEN "session" ELSE "loop"
\* setupEditorSubmitHandler and handleFollowUp
Route == IF isCompacting THEN "compaction" ELSE IF session.active THEN "session" ELSE "loop"

submit(mode) ==
  /\ used + 1 \in Texts /\ Free("submit")
  /\ used' = used + 1
  /\ CASE Route = "compaction" -> cq' = Append(cq, Queued(used', mode)) /\ UNCHANGED <<input, session>>
       [] Route = "session" -> session' = [session EXCEPT ![mode] = Append(@, used')] /\ UNCHANGED <<input, cq>>
       [] OTHER -> input' = Append(input, used') /\ UNCHANGED <<cq, session>>
  /\ UNCHANGED <<loop, call, ctl, batch, sent, editor, esc, count>>

\* restoreQueuedMessagesToEditor, with clearAllQueues
Restored == session.steer \o OfMode(cq, "steer") \o session.followUp \o OfMode(cq, "followUp")
ClearedQueues(s) == [s EXCEPT !.steer = <<>>, !.followUp = <<>>]

handleDequeue ==
  /\ count.keys < MaxKeys /\ Restored # <<>>
  /\ count' = [count EXCEPT !.keys = @ + 1]
  /\ editor' = editor \o Restored
  /\ session' = ClearedQueues(session) /\ cq' = <<>>
  /\ UNCHANGED <<used, input, loop, call, ctl, batch, sent, esc>>

\* The handler that is installed: the run, the compaction, the retry or the navigation is aborted.
onEscape ==
  /\ count.keys < MaxKeys /\ (esc.on = "tree" => NavFails)
  /\ count' = [count EXCEPT !.keys = @ + 1]
  /\ CASE esc.on = "main" /\ session.active ->
            /\ editor' = editor \o Restored
            /\ session' = ClearedQueues([session EXCEPT !.aborted = session.run # 0]) /\ cq' = <<>>
            /\ UNCHANGED ctl
       [] esc.on \in {"compaction", "tree"} /\ isCompacting ->
            ctl' = [ctl EXCEPT !.aborted = TRUE] /\ UNCHANGED <<session, cq, editor>>
       [] esc.on = "retry" -> ctl' = [ctl EXCEPT !.retry = TRUE] /\ UNCHANGED <<session, cq, editor>>
       [] OTHER -> UNCHANGED <<ctl, session, cq, editor>>
  /\ UNCHANGED <<used, input, loop, call, batch, sent, esc>>

-----------------------------------------------------------------------------
(* The main loop and the session's prompt(). *)

\* getUserInput, and the call of prompt: refused during a manual compaction.
getUserInput ==
  /\ loop = 0 /\ input # <<>>
  /\ input' = Tail(input)
  /\ IF ctl.manual = "live" THEN UNCHANGED <<loop, call>>
     ELSE loop' = Head(input) /\ call' = [call EXCEPT ![Head(input)] = "input"]
  /\ UNCHANGED <<used, session, ctl, cq, batch, sent, editor, esc, count>>

\* prompt() rejects: the main loop shows the error, a flush restores its messages.
promptFails(t, s, left) ==
  /\ call' = [call EXCEPT ![t] = IF loop = t THEN left ELSE "none"]
  /\ IF loop = t THEN loop' = 0 /\ session' = s /\ UNCHANGED <<cq, batch>>
     ELSE /\ session' = ClearedQueues(s)
          /\ cq' = batch[t] /\ batch' = [batch EXCEPT ![t] = <<>>]
          /\ UNCHANGED loop

ModeOf(t) == batch[t][1].mode

\* The input handlers have run: queued into a run, or on to the preflight.
inputHandled(t) ==
  /\ call[t] = "input"
  /\ CASE session.active /\ loop = t -> promptFails(t, session, "none")
       [] session.active /\ loop # t ->
            /\ call' = [call EXCEPT ![t] = "none"]
            /\ session' = [session EXCEPT ![ModeOf(t)] = Append(@, t)]
            /\ batch' = [batch EXCEPT ![t] = <<>>]
            /\ UNCHANGED <<loop, cq>>
       [] OTHER -> call' = [call EXCEPT ![t] = "preflight"] /\ UNCHANGED <<loop, session, cq, batch>>
  /\ UNCHANGED <<used, input, ctl, sent, editor, esc, count>>

preflight(t) ==
  /\ call[t] = "preflight"
  /\ \/ /\ Fails /\ promptFails(t, session, "refused") /\ UNCHANGED <<ctl, esc, count>>
     \/ /\ call' = [call EXCEPT ![t] = "before"]
        /\ UNCHANGED <<loop, session, cq, batch, ctl, esc, count>>
     \/ /\ PreCompact /\ sent # <<>> /\ ctl.auto = 0 /\ count.compacts < MaxCompacts
        /\ call' = [call EXCEPT ![t] = "compacting"]
        /\ ctl' = [ctl EXCEPT !.auto = t]
        /\ esc' = compactionStart(esc)
        /\ count' = [count EXCEPT !.compacts = @ + 1]
        /\ UNCHANGED <<loop, session, cq, batch>>
  /\ UNCHANGED <<used, input, sent, editor>>

\* waitForIdle resolves: compact() goes on and holds its controller.
WithManual(active, c) ==
  IF c.manual = "waiting" /\ ~active /\ c.auto = 0 /\ c.tree = "none" THEN [c EXCEPT !.manual = "live"] ELSE c
StartedManual(c, e) == IF c.manual = "live" /\ ctl.manual # "live" THEN compactionStart(e) ELSE e

\* A compaction before a prompt ends; the prompt goes on.
preCompacted(t) ==
  /\ ctl.auto = t /\ call[t] = "compacting"
  /\ LET flushed == cq # <<>>
         c == WithManual(session.active, [ctl EXCEPT !.auto = 0, !.aborted = FALSE])
     IN  /\ ctl' = c
         /\ esc' = StartedManual(c, compactionEnd(esc))
         /\ session' = IF flushed THEN Flush(cq, session).session ELSE session
         /\ cq' = <<>>
         /\ call' = [u \in Texts |-> IF u = t THEN "before"
                                     ELSE IF flushed /\ u = Flush(cq, session).first.text THEN "input" ELSE call[u]]
         /\ batch' = IF flushed THEN [batch EXCEPT ![Flush(cq, session).first.text] = cq] ELSE batch
  /\ UNCHANGED <<used, input, loop, sent, editor, count>>

\* _runAgentPrompt: the run starts, or the agent has one and refuses; the session then calls itself idle.
startRun(t) ==
  /\ call[t] = "before"
  /\ IF session.run # 0
     THEN promptFails(t, [session EXCEPT !.active = FALSE], "none") /\ UNCHANGED <<sent, esc>>
     ELSE /\ session' = [session EXCEPT !.active = TRUE, !.run = t, !.phase = "turn", !.aborted = FALSE]
          /\ call' = [call EXCEPT ![t] = "run"]
          /\ batch' = [batch EXCEPT ![t] = <<>>]
          /\ sent' = Append(sent, t)
          /\ esc' = retryOver(esc)
          /\ UNCHANGED <<loop, cq>>
  /\ UNCHANGED <<used, input, ctl, editor, count>>

-----------------------------------------------------------------------------
(* The run. *)

Running(phase) == session.run # 0 /\ session.phase = phase

\* A turn ends: another one with what is queued, a compaction first, or the end of the loop.
turnEnds ==
  /\ Running("turn")
  /\ LET q == IF session.steer # <<>> THEN "steer" ELSE "followUp"
     IN  IF session[q] # <<>> /\ ~session.aborted
         THEN /\ session' = [session EXCEPT ![q] = Tail(@)]
              /\ sent' = Append(sent, Head(session[q]))
         ELSE session' = [session EXCEPT !.phase = "post"] /\ UNCHANGED sent
  /\ UNCHANGED <<used, input, loop, call, ctl, cq, batch, editor, esc, count>>

\* _runAutoCompaction in a run: between two turns, or after the last one.
autoCompacts(phase) ==
  /\ Running(phase) /\ phase \in {"turn", "post"} /\ ~session.aborted
  /\ ctl.auto = 0 /\ count.compacts < MaxCompacts
  /\ ctl' = [ctl EXCEPT !.auto = session.run]
  /\ session' = [session EXCEPT !.phase = IF phase = "turn" THEN "compactTurn" ELSE "compactPost"]
  /\ esc' = compactionStart(esc)
  /\ count' = [count EXCEPT !.compacts = @ + 1]
  /\ UNCHANGED <<used, input, loop, call, cq, batch, sent, editor>>

autoCompacted(willRetry) ==
  /\ Running("compactTurn") \/ Running("compactPost")
  /\ willRetry => session.phase = "compactPost" /\ ~ctl.aborted
  /\ LET c == [ctl EXCEPT !.auto = 0, !.aborted = FALSE]
     IN  /\ ctl' = c
         /\ esc' = compactionEnd(esc)
         /\ flushCompactionQueue(willRetry,
              [session EXCEPT !.phase = IF session.phase = "compactTurn" \/ willRetry THEN "turn" ELSE "check"])
  /\ UNCHANGED <<used, input, loop, sent, editor, count>>

\* An error is retried after a delay; agent_start follows it, or the end of the retry.
retrySleeps ==
  /\ Running("post") /\ ~session.aborted /\ count.retries < MaxRetries
  /\ session' = [session EXCEPT !.phase = "sleep"]
  /\ esc' = retryStart(esc)
  /\ ctl' = [ctl EXCEPT !.retry = FALSE]
  /\ count' = [count EXCEPT !.retries = @ + 1]
  /\ UNCHANGED <<used, input, loop, call, cq, batch, sent, editor>>

sleepOver ==
  /\ Running("sleep")
  /\ session' = [session EXCEPT !.phase = IF ctl.retry \/ session.aborted THEN "check" ELSE "turn"]
  /\ esc' = retryOver(esc)
  /\ ctl' = [ctl EXCEPT !.retry = FALSE]
  /\ UNCHANGED <<used, input, loop, call, cq, batch, sent, editor, count>>

hasQueuedMessages == session.steer # <<>> \/ session.followUp # <<>>

\* The end of _handlePostAgentRun: a queued message continues the run, or it settles.
settle ==
  /\ Running("post") \/ Running("check")
  /\ IF hasQueuedMessages
     THEN /\ session' = [session EXCEPT !.phase = "turn", !.aborted = FALSE]
          /\ esc' = retryOver(esc)
          /\ UNCHANGED <<call, loop, ctl>>
     ELSE LET c == WithManual(FALSE, ctl)
          IN  /\ session' = [session EXCEPT !.active = FALSE, !.run = 0, !.phase = "none", !.aborted = FALSE]
              /\ call' = [call EXCEPT ![session.run] = "none"]
              /\ loop' = IF loop = session.run THEN 0 ELSE loop
              /\ ctl' = c
              /\ esc' = StartedManual(c, esc)
  /\ UNCHANGED <<used, input, cq, batch, sent, editor, count>>

-----------------------------------------------------------------------------
(* Manual compaction and tree navigation. *)

\* handleCompactCommand: compact() aborts, waits until idle, and starts.
handleCompactCommand ==
  /\ ctl.manual = "none" /\ Free("compact") /\ count.compacts < MaxCompacts
  /\ count' = [count EXCEPT !.compacts = @ + 1]
  /\ LET c == WithManual(session.active, [ctl EXCEPT !.manual = "waiting", !.retry = TRUE,
                                                    !.aborted = ctl.auto # 0 \/ ctl.tree # "none"])
     IN  ctl' = c /\ esc' = StartedManual(c, esc)
  /\ session' = [session EXCEPT !.aborted = session.run # 0]
  /\ UNCHANGED <<used, input, loop, call, cq, batch, sent, editor>>

manualCompacted ==
  /\ ctl.manual = "live"
  /\ ctl' = [ctl EXCEPT !.manual = "none", !.aborted = FALSE]
  /\ esc' = compactionEnd(esc)
  /\ flushCompactionQueue(FALSE, session)
  /\ UNCHANGED <<used, input, loop, sent, editor, count>>

\* showTreeSelector with a summary.
navigateTree ==
  /\ Free("compact") /\ ~session.active /\ ~isCompacting /\ ctl.manual = "none"
  /\ count.compacts < MaxCompacts /\ sent # <<>>
  /\ count' = [count EXCEPT !.compacts = @ + 1]
  /\ ctl' = [ctl EXCEPT !.tree = "live", !.aborted = FALSE]
  /\ esc' = [esc EXCEPT !.tree = esc.on, !.on = "tree"]
  /\ UNCHANGED <<used, input, loop, call, session, cq, batch, sent, editor>>

navigated(ok) ==
  /\ ctl.tree = "live" /\ (ok \/ NavFails \/ ctl.aborted) /\ ~(ok /\ ctl.aborted)
  /\ LET c == WithManual(session.active, [ctl EXCEPT !.tree = "none", !.aborted = FALSE])
     IN  /\ ctl' = c
         /\ esc' = StartedManual(c, [esc EXCEPT !.on = esc.tree, !.tree = "none"])
  /\ IF ok THEN flushCompactionQueue(FALSE, session) ELSE UNCHANGED <<session, cq, batch, call>>
  /\ UNCHANGED <<used, input, loop, sent, editor, count>>

-----------------------------------------------------------------------------
Program ==
  \/ getUserInput \/ (\E t \in Texts : inputHandled(t) \/ preflight(t) \/ preCompacted(t) \/ startRun(t))
  \/ turnEnds \/ (\E b \in BOOLEAN : autoCompacted(b)) \/ sleepOver \/ settle
  \/ manualCompacted \/ (\E ok \in BOOLEAN : navigated(ok))

Decides == (\E phase \in {"turn", "post"} : autoCompacts(phase)) \/ retrySleeps

User == (\E mode \in {"steer", "followUp"} : submit(mode)) \/ handleDequeue \/ onEscape
          \/ handleCompactCommand \/ navigateTree

Next == Program \/ Decides \/ User

Spec == Init /\ [][Next]_vars
FairSpec == Spec /\ WF_vars(Program)

-----------------------------------------------------------------------------
(* Properties. *)

Occurrences(t) ==
  LET in(q) == Cardinality({i \in DOMAIN q : q[i] = t})
  IN  in(input) + in(Texts_of(cq)) + in(session.steer) + in(session.followUp) + in(sent) + in(editor)
        + (IF call[t] \notin {"none", "run"} THEN 1 ELSE 0)

\* Every text that was submitted is in one place: under way to the session,
\* queued there or for after the compaction, in the transcript, back in the
\* editor, or refused for want of a model or credentials.  None is lost and none is sent twice (setupEditorSubmitHandler,
\* flushCompactionQueue, restoreQueuedMessagesToEditor).
InputIsKept == \A t \in 1..used : Occurrences(t) = 1

\* Escape reaches what is going on: the compaction or the navigation, the
\* delay before a retry, or the run; and nothing when there is nothing
\* (compaction_start, auto_retry_start, showTreeSelector and their ends).
EscapeFits ==
  esc.on = IF ctl.tree = "live" THEN "tree"
           ELSE IF isCompacting THEN "compaction"
           ELSE IF Running("sleep") THEN "retry" ELSE "main"

Submitted(t) == used >= t
Placed(t) == t \in ToSet(sent) \cup ToSet(editor)

\* Every text submitted is in the transcript or back in the editor in the end.
InputSettles ==
  \A t \in Texts : Submitted(t) ~> Placed(t)
=============================================================================
