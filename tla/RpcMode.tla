------------------------------- MODULE RpcMode -------------------------------
(***************************************************************************)
(* The coding agent in RPC mode: commands read from standard input, the    *)
(* runtime that owns the current session and replaces it, and the client   *)
(* that waits for the answers.                                             *)
(*                                                                         *)
(* The host handles each line without waiting for the one before, so the   *)
(* steps below, one per await, interleave.  RpcClient is one caller that   *)
(* sends its next command when the answer to the last has come or the wait *)
(* for it has timed out.  What a run does is AgentSession's subject; here  *)
(* it starts, ends and is announced as settled.                            *)
(***************************************************************************)
EXTENDS Integers, FiniteSets

CONSTANTS MaxCommands,     \* bound on the commands the client sends
          Kinds,           \* the kinds of command it sends
          Timeouts,        \* whether the client's wait for an answer may time out
          CreationFails,   \* whether createRuntime may throw
          SettledHandlers, \* whether an extension handles agent_settled
          MayQuit          \* whether input may end and extensions may ask for shutdown

VARIABLES
  cmd,       \* command -> [kind, pc, woken]: where its handler is
  answers,   \* command -> number of responses written for it
  pending,   \* the client's pendingRequests
  session,   \* session -> [st, starts, told, run, listened]
  settling,  \* <<session, prompts>>: runs over, whose agent_settled handlers run
  current,   \* runtimeHost.session
  view,      \* the session variable of runRpcMode
  sub,       \* the session unsubscribe belongs to, or None
  dark,      \* accepted prompts whose agent_settled reached nobody
  requested, \* shutdownRequested
  due,       \* whether a checkShutdownRequested is about to run
  exit       \* "up", "disposing" (shuttingDown) or "exited"

vars == <<cmd, answers, pending, session, settling, current, view, sub, dark, requested, due, exit>>
host == <<requested, due, exit>>
links == <<current, view, sub>>

Commands == 1..MaxCommands
SessionIds == 0..MaxCommands
None == -1
NotSent == [kind |-> "none", pc |-> "unsent", woken |-> FALSE, on |-> None]
NoSession == [st |-> "none", starts |-> 0, told |-> 0, run |-> {}, listened |-> FALSE]

\* The first session has been bound and subscribed to before input is read.
Init ==
  /\ cmd = [c \in Commands |-> NotSent]
  /\ answers = [c \in Commands |-> 0]
  /\ pending = {}
  /\ session = [s \in SessionIds |->
       IF s = 0 THEN [NoSession EXCEPT !.st = "live", !.starts = 1, !.listened = TRUE] ELSE NoSession]
  /\ settling = {}
  /\ current = 0 /\ view = 0 /\ sub = 0
  /\ dark = {}
  /\ requested = FALSE /\ due = FALSE /\ exit = "up"

-----------------------------------------------------------------------------
(* Answers. *)

Up == exit # "exited"
At(c, pc) == Up /\ cmd[c].pc = pc
Goto(c, pc) == cmd' = [cmd EXCEPT ![c].pc = pc]

\* A response is written; the client's request for it, if still there, settles.
respond(c) ==
  /\ answers' = [answers EXCEPT ![c] = @ + 1]
  /\ pending' = pending \ {c}
Silent == UNCHANGED <<answers, pending>>

\* handleInputLine: a response, then the check for a requested shutdown.
\* A prompt's check has run when it was read.
succeed(c) ==
  /\ Goto(c, "done")
  /\ respond(c)
  /\ due' = (due \/ cmd[c].kind # "command")
\* Its catch clause: an error response and no check.  What an extension's
\* command throws is reported elsewhere and the prompt counts as handled.
fail(c) ==
  /\ Goto(c, "done")
  /\ respond(c)
  /\ UNCHANGED due

-----------------------------------------------------------------------------
(* The client. *)

\* The commands that take part in the run of session s.
isIdle(s) == session[s].run = {}

\* send: one caller, who waits for the answer before it sends the next command.
send(k) ==
  /\ Up /\ pending = {}
  /\ \E c \in Commands :
       /\ cmd[c].pc = "unsent" /\ \A d \in Commands : d < c => cmd[d].pc # "unsent"
       /\ pending' = {c}
       /\ cmd' = [cmd EXCEPT ![c] =
            [kind |-> k, woken |-> k = "abort" /\ isIdle(view), on |-> view,
             pc |-> CASE k = "prompt" -> "preflight"
                      [] k = "abort" -> "idle"
                      [] k = "query" -> "reply"
                      [] OTHER -> "before"]]
  /\ due' = (due \/ k \in {"prompt", "command"})
  /\ UNCHANGED <<answers, session, settling, links, dark, requested, exit>>

\* The 30 s timer of a request.
timeout(c) ==
  /\ Timeouts /\ Up /\ c \in pending
  /\ pending' = pending \ {c}
  /\ UNCHANGED <<cmd, answers, session, settling, links, dark, host>>

-----------------------------------------------------------------------------
(* Commands that leave the session in place. *)

\* A command answered from the session's state, or refused.
reply(c) ==
  /\ At(c, "reply")
  /\ succeed(c) \/ fail(c)
  /\ UNCHANGED <<session, settling, links, dark, requested, exit>>

\* The prompt's preflight: refused; handled by an extension; queued behind
\* the active run; or accepted, and a run starts.
prompt(c) ==
  /\ At(c, "preflight")
  /\ Goto(c, "done")
  /\ respond(c)
  /\ session' \in {session, [session EXCEPT ![cmd[c].on].run = @ \cup {c}]}
  /\ UNCHANGED <<settling, links, dark, host>>

\* session.abort has returned: the session was idle, or its waiter was woken.
abort(c) ==
  /\ At(c, "idle") /\ cmd[c].woken
  /\ succeed(c)
  /\ UNCHANGED <<session, settling, links, dark, requested, exit>>

-----------------------------------------------------------------------------
(* Runs. *)

\* _emitAgentSettled reaches the listeners, then wakes who waits for idle.
announced(s, prompts, sess) ==
  /\ dark' = IF session[s].listened \/ exit # "up" THEN dark ELSE dark \cup prompts
  /\ due' = (due \/ session[s].listened)
  /\ cmd' = [c \in Commands |->
       IF cmd[c].pc \in {"idle", "abort"} /\ cmd[c].on = s /\ sess[s].run = {}
       THEN [cmd[c] EXCEPT !.woken = TRUE] ELSE cmd[c]]

\* A run is over, aborted or not.  If it threw, the prompt's catch clause finds
\* the answer already written.
RunEnds(s) ==
  /\ Up /\ ~isIdle(s)
  /\ session' = [session EXCEPT ![s].run = {}]
  /\ IF SettledHandlers
       THEN settling' = settling \cup {<<s, session[s].run>>} /\ UNCHANGED <<cmd, dark, due>>
       ELSE announced(s, session[s].run, session') /\ UNCHANGED settling
  /\ UNCHANGED <<answers, pending, links, requested, exit>>

\* The extensions' agent_settled handlers are done.
Settled(p) ==
  /\ Up /\ p \in settling
  /\ settling' = settling \ {p}
  /\ announced(p[1], p[2], session)
  /\ UNCHANGED <<answers, pending, session, links, requested, exit>>

-----------------------------------------------------------------------------
(* AgentSessionRuntime: replacing the session. *)

\* The session_before handlers have run: the replacement is cancelled; it is
\* refused, a new session excepted; or it begins to tear the session down.
cancelled(c) ==
  /\ At(c, "before")
  /\ succeed(c)
  /\ UNCHANGED <<session, settling, links, dark, requested, exit>>
refused(c) ==
  /\ At(c, "before") /\ cmd[c].kind # "new"
  /\ fail(c)
  /\ UNCHANGED <<session, settling, links, dark, requested, exit>>
teardownCurrent(c) ==
  /\ At(c, "before")
  /\ cmd' = [cmd EXCEPT ![c] = [@ EXCEPT !.pc = "abort", !.on = current, !.woken = isIdle(current)]]
  /\ Silent /\ UNCHANGED <<session, settling, links, dark, host>>

\* session_shutdown is emitted to the extensions of what is now the session.
emitSessionShutdownEvent_notForks(c) ==
  /\ At(c, "abort") /\ cmd[c].woken
  /\ session' = IF cmd[c].kind = "fork" THEN session ELSE [session EXCEPT ![current].told = @ + 1]
  /\ Goto(c, "shutdown")
  /\ Silent /\ UNCHANGED <<settling, links, dark, host>>
emitSessionShutdownEvent(c) ==
  /\ At(c, "abort") /\ cmd[c].woken
  /\ session' = [session EXCEPT ![current].told = @ + 1]
  /\ Goto(c, "shutdown")
  /\ Silent /\ UNCHANGED <<settling, links, dark, host>>

\* AgentSession.dispose: it stops, and its listeners are gone.
Disposed(sess, s) == [sess EXCEPT ![s].st = "disposed", ![s].listened = FALSE]
dispose(c) ==
  /\ At(c, "shutdown")
  /\ session' = Disposed(session, current)
  /\ Goto(c, "create")
  /\ Silent /\ UNCHANGED <<settling, links, dark, host>>

\* createRuntime, and the new runtime is applied.
apply(c) ==
  /\ At(c, "create")
  /\ session' = [session EXCEPT ![c].st = "live"]
  /\ current' = c
  /\ Goto(c, "rebind")
  /\ Silent /\ UNCHANGED <<settling, view, sub, dark, host>>
creationFails(c) ==
  /\ At(c, "create") /\ CreationFails
  /\ fail(c)
  /\ UNCHANGED <<session, settling, links, dark, requested, exit>>

\* rebindSession up to bindExtensions, which emits session_start.
startBinding(c, pc) ==
  /\ view' = current
  /\ session' = [session EXCEPT ![current].starts = @ + 1]
  /\ Goto(c, pc)
  /\ Silent /\ UNCHANGED <<settling, current, sub, dark, host>>

\* The rest of it: the old subscription is dropped and a new one is made.
Subscribed(sess) ==
  LET off == IF sub = None THEN sess ELSE [sess EXCEPT ![sub].listened = FALSE]
  IN  [off EXCEPT ![view].listened = TRUE]
resubscribe ==
  /\ session' = Subscribed(session)
  /\ sub' = view
  /\ UNCHANGED <<current, view>>

\* finishSessionReplacement calls it through the host's callback ...
rebind(c) == At(c, "rebind") /\ startBinding(c, "bind")
rebound(c) ==
  /\ At(c, "bind")
  /\ resubscribe
  /\ IF cmd[c].kind = "command" THEN Goto(c, "done") /\ respond(c)
                                ELSE Goto(c, "rebindAgain") /\ Silent
  /\ UNCHANGED <<settling, dark, host>>

\* ... and then the command's handler calls it again.
rebindAgain(c) == At(c, "rebindAgain") /\ startBinding(c, "bindAgain")
reboundAgain(c) ==
  /\ At(c, "bindAgain")
  /\ resubscribe
  /\ succeed(c)
  /\ UNCHANGED <<settling, dark, requested, exit>>

-----------------------------------------------------------------------------
(* Shutdown. *)

\* An extension calls ctx.shutdown().
shutdownHandler ==
  /\ MayQuit /\ exit = "up" /\ ~requested
  /\ requested' = TRUE
  /\ UNCHANGED <<cmd, answers, pending, session, settling, links, dark, due, exit>>

\* The second call exits at once; the first one stops the events and disposes
\* of the runtime, whose extensions are told first.
shutdown ==
  IF exit = "disposing"
  THEN exit' = "exited" /\ pending' = {} /\ UNCHANGED <<session, sub>>
  ELSE /\ exit' = "disposing"
       /\ session' = [s \in SessionIds |->
            [session[s] EXCEPT !.listened = @ /\ s # sub,
                               !.told = IF s = current THEN @ + 1 ELSE @]]
       /\ UNCHANGED <<pending, sub>>

checkShutdownRequested ==
  /\ Up /\ due
  /\ due' = FALSE
  /\ IF requested THEN shutdown ELSE UNCHANGED <<pending, session, sub, exit>>
  /\ UNCHANGED <<cmd, answers, settling, current, view, dark, requested>>

\* Standard input ends, or a signal arrives.
onInputEnd ==
  /\ MayQuit /\ exit = "up"
  /\ shutdown
  /\ UNCHANGED <<cmd, answers, settling, current, view, dark, requested, due>>

\* The session_shutdown handlers are done: the session of the moment is
\* disposed and the process exits.  The client rejects what it still waits for.
disposed ==
  /\ exit = "disposing"
  /\ session' = Disposed(session, current)
  /\ exit' = "exited"
  /\ pending' = {}
  /\ UNCHANGED <<cmd, answers, settling, links, dark, requested, due>>

-----------------------------------------------------------------------------
AllDone == \A c \in Commands : cmd[c].pc \in {"unsent", "done"}

Rest ==
  /\ ~Up \/ (AllDone /\ pending = {} /\ ~due /\ settling = {} /\ \A s \in SessionIds : isIdle(s))
  /\ UNCHANGED vars

Handle(c) ==
  \/ reply(c) \/ prompt(c) \/ abort(c)
  \/ cancelled(c) \/ refused(c) \/ teardownCurrent(c) \/ emitSessionShutdownEvent(c) \/ dispose(c)
  \/ apply(c) \/ creationFails(c) \/ rebind(c) \/ rebound(c) \/ rebindAgain(c) \/ reboundAgain(c)

Next ==
  \/ \E k \in Kinds : send(k)
  \/ \E c \in Commands : timeout(c) \/ Handle(c)
  \/ \E s \in SessionIds : RunEnds(s)
  \/ \E p \in settling : Settled(p)
  \/ shutdownHandler \/ checkShutdownRequested \/ onInputEnd \/ disposed
  \/ Rest

Spec == Init /\ [][Next]_vars

SomeSettled == \E p \in settling : Settled(p)

\* Promises settle: handlers return, runs end, and the checks are run.
FairSpec ==
  /\ Spec
  /\ \A c \in Commands : WF_vars(Handle(c))
  /\ \A s \in SessionIds : WF_vars(RunEnds(s))
  /\ WF_vars(SomeSettled)
  /\ WF_vars(checkShutdownRequested) /\ WF_vars(disposed)

-----------------------------------------------------------------------------
(* Properties. *)

\* No command is answered twice, although a prompt is answered before its run
\* may still fail and commands overtake each other (handleCommand).
AnsweredOnce == \A c \in Commands : answers[c] <= 1

\* A session is torn down before another takes its place: what is no longer the
\* runtime's session is disposed, and its extensions have been told
\* (teardownCurrent).
ReplacedIsTornDown ==
  \A s \in SessionIds : session[s].st # "none" /\ s # current =>
    session[s].st = "disposed" /\ session[s].told > 0

\* The run of every prompt the host has accepted is announced to the client
\* when it settles, also when the session is replaced under it.
AcceptedIsSeen == dark = {}

\* Whatever overlapped, once no command is being handled the host reads and
\* listens to the runtime's session (rebindSession).
HostListens ==
  AllDone /\ exit = "up" => view = current /\ session[current].listened

Sent(c) == cmd[c].pc # "unsent"
Replied(c) == answers[c] > 0 \/ exit = "exited"

=============================================================================
