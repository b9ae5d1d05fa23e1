---------------------------- MODULE SessionWorkers ----------------------------
(***************************************************************************)
(* The experimental session workers: servers that come one after the other *)
(* (SessionWorkerManager), the worker processes that own one session file  *)
(* (WorkerLifecycle and run of session-worker.ts) and the coordinator that *)
(* routes between the current server and the workers.                      *)
(*                                                                         *)
(* One session file is modelled.  The line from a process to the           *)
(* coordinator is collapsed: a send is the coordinator reading it.  The    *)
(* lines from the coordinator to each process are FIFO queues.             *)
(***************************************************************************)
EXTENDS Naturals, Sequences, FiniteSets, TLC, TLAPS

CONSTANTS Servers,      \* server generations (serverConnectionId)
          Workers,      \* worker processes (peerId, pid and token)
          Attachments,  \* attachment ids, each used once
          None,
          MaxEnds,      \* bound on processes that die or stall and stops that are asked for
          Stops,        \* whether sessions and servers are closed on request
          MayStall      \* whether a process may stall longer than its lock's stale limit

ASSUME StallAssumption == MayStall \in BOOLEAN

\* No worker is the absence of one: a peerId is a string of its own.
ASSUME NoneAssumption == None \notin Workers

VARIABLES
  current,   \* coordinator: the current server, or None
  peers,     \* coordinator: registered workers
  toServer,  \* coordinator -> server lines
  toPeer,    \* coordinator -> worker lines
  srv,       \* per server: process phase and its SessionWorkerManager
  att,       \* per attachment: RoutedSessionAttachment and its pending demand
  op,        \* per attachment: its one service operation, at the manager
  wk,        \* per worker: process phase and WorkerLifecycle
  lock,      \* owner of the session file's lock, or None
  ends       \* processes that died or stalled and stops asked for, so far

vars == <<current, peers, toServer, toPeer, srv, att, op, wk, lock, ends>>

Live == {"live", "shutdown"}

Init ==
  /\ current = None /\ peers = {} /\ lock = None /\ ends = 0
  /\ toServer = [s \in Servers |-> <<>>]
  /\ toPeer = [w \in Workers |-> <<>>]
  /\ srv = [s \in Servers |-> [phase |-> "new", pending |-> None, record |-> None,
                               stopping |-> FALSE, waits |-> {}]]
  /\ att = [a \in Attachments |-> [st |-> "free", s |-> None, w |-> None, pend |-> "none"]]
  /\ op = [a \in Attachments |-> "none"]
  /\ wk = [w \in Workers |-> [phase |-> "absent", by |-> None, server |-> None,
                              init |-> FALSE, demands |-> {}, orphaned |-> {},
                              serving |-> {}, answering |-> None, run |-> FALSE,
                              retired |-> FALSE, own |-> FALSE, beat |-> "kept"]]

-----------------------------------------------------------------------------
(* Coordinator. *)

ToPeer(t, s, a, k) == [t |-> t, s |-> s, a |-> a, k |-> k]
Notice(t, s) == ToPeer(t, s, None, None)
ToServer(t, w, a, k) == [t |-> t, w |-> w, a |-> a, k |-> k]

\* What a peer's send to "server" leaves in the lines: the current server's only.
Routed(m) == IF current = None THEN toServer
             ELSE [toServer EXCEPT ![current] = Append(@, m)]

\* The same from server s to peers: only the current server's reach them.
Sent(s, to, m) ==
  [w \in Workers |-> IF s = current /\ w \in to \cap peers
                     THEN Append(toPeer[w], m) ELSE toPeer[w]]

Notified(ms) == [w \in Workers |-> IF w \in peers THEN toPeer[w] \o ms ELSE toPeer[w]]

registerPeer(w) ==
  /\ wk[w].phase = "spawned"
  /\ peers' = peers \cup {w}
  /\ wk' = [wk EXCEPT ![w].phase = "locking", ![w].server = current]
  /\ UNCHANGED <<current, toServer, toPeer, srv, att, op, lock, ends>>

\* A newer server replaces the current one and asks the workers who they are.
registerServer(s) ==
  /\ srv[s].phase = "new"
  /\ srv' = [srv EXCEPT ![s].phase = "live"]
  /\ current' = s
  /\ toServer' = IF current = None THEN toServer
                 ELSE [toServer EXCEPT ![current] = Append(@, ToServer("replaced", None, None, None))]
  /\ toPeer' = Notified((IF current = None THEN <<>> ELSE <<Notice("server_disconnected", current)>>)
                        \o <<Notice("server_connected", s), Notice("discover_workers", s)>>)
  /\ UNCHANGED <<peers, att, op, wk, lock, ends>>

\* The socket of server s closes.
Disconnected(s) ==
  IF current = s
  THEN /\ current' = None
       /\ toPeer' = Notified(<<Notice("server_disconnected", s)>>)
  ELSE UNCHANGED <<current, toPeer>>

-----------------------------------------------------------------------------
(* Worker process. *)

Open == {"ready", "closing"}

Idle(v) == v.init /\ v.serving = {} /\ v.answering = None /\ ~v.run /\ v.demands = {}

\* close(): the lifecycle's timers and demands go, requests are cancelled.
Closing(v) == [v EXCEPT !.phase = "closing", !.demands = {}, !.orphaned = {}]

closeAndExit(v) == IF v.phase = "ready" THEN Closing(v) ELSE v

\* own is a history variable: the worker closes because it retired.
reconcile(v) == IF ~v.retired /\ Idle(v)
                THEN closeAndExit([v EXCEPT !.retired = TRUE, !.own = v.phase = "ready"]) ELSE v

\* The lock directory is free, or its owner has not refreshed it within the stale limit.
CanLock == lock = None \/ (lock \in Workers /\ wk[lock].beat = "missed")

acquire(w) ==
  /\ wk[w].phase = "locking" /\ CanLock
  /\ lock' = w
  /\ wk' = [wk EXCEPT ![w].phase = "ready"]
  /\ toServer' = Routed(ToServer("worker_ready", w, None, None))
  /\ UNCHANGED <<current, peers, toPeer, srv, att, op, ends>>

\* The lock is not free in time, or the session cannot be opened.
startFails(w) ==
  /\ wk[w].phase = "locking"
  /\ wk' = [wk EXCEPT ![w].phase = "failed"]
  /\ toServer' = Routed(ToServer("worker_failed", w, None, None))
  /\ UNCHANGED <<current, peers, toPeer, srv, att, op, lock, ends>>

\* The process of w stalls past the stale limit of 2 s: the lock it owns may be taken.
stall(w) ==
  /\ MayStall /\ ends < MaxEnds /\ ends' = ends + 1
  /\ wk[w].phase \in Open /\ lock = w /\ wk[w].beat # "missed"
  /\ wk' = [wk EXCEPT ![w].beat = "missed"]
  /\ UNCHANGED <<current, peers, toServer, toPeer, srv, att, op, lock>>

\* The process is gone and its socket closes.
Exited(w) ==
  /\ wk' = [wk EXCEPT ![w].phase = "exited", ![w].demands = {}, ![w].orphaned = {},
                      ![w].serving = {}, ![w].answering = None, ![w].run = FALSE]
  /\ peers' = peers \ {w}
  /\ toPeer' = [toPeer EXCEPT ![w] = <<>>]
  /\ toServer' = IF w \in peers THEN Routed(ToServer("peer_disconnected", w, None, None)) ELSE toServer

\* A process that dies releases nothing: the lock it owned becomes stale.
Killed(w) == Exited(w) /\ lock' = IF lock = w THEN None ELSE lock

\* The refresh of a lock after a stall: in time, or another process has taken or removed
\* it, which nobody handles (onCompromised throws) and which ends the process.
updateLock(w) ==
  /\ wk[w].phase \in Open /\ (wk[w].beat = "missed" \/ lock # w)
  /\ IF lock = w
     THEN /\ wk' = [wk EXCEPT ![w].beat = "late"]
          /\ UNCHANGED <<peers, toServer, toPeer>>
     ELSE Exited(w)
  /\ UNCHANGED <<current, srv, att, op, lock, ends>>

\* closeResources ends with the release, which removes the lock directory whoever owns it
\* by now; a worker that failed to start has no lock left.
Released(w) == lock' = IF wk[w].phase = "closing" THEN None ELSE lock

\* A cleanup that gives up the lock before the session is closed.
exit_lockFirst(w) ==
  \/ /\ wk[w].phase = "closing" /\ lock = w
     /\ lock' = None
     /\ UNCHANGED <<current, peers, toServer, toPeer, srv, att, op, wk, ends>>
  \/ /\ wk[w].phase \in {"closing", "failed"}
     /\ Exited(w) /\ Released(w)
     /\ UNCHANGED <<current, srv, att, op, ends>>

\* closeResources has closed the harness and the repository, then the lock.
exit(w) ==
  /\ wk[w].phase \in {"closing", "failed"}
  /\ Exited(w) /\ Released(w)
  /\ UNCHANGED <<current, srv, att, op, ends>>

crashWorker(w) ==
  /\ wk[w].phase \notin {"absent", "exited"} /\ ends < MaxEnds
  /\ ends' = ends + 1
  /\ Killed(w)
  /\ UNCHANGED <<current, srv, att, op>>

setDemand(v, m) ==
  LET now == [v EXCEPT !.init = TRUE, !.orphaned = @ \ {m.a}]
  IN  IF m.k = "attach" THEN [now EXCEPT !.demands = @ \cup {m.a}]
      ELSE [now EXCEPT !.demands = @ \ {m.a}]

\* onDemand: retirement is held until the answer is written.
onDemand(v, m) ==
  IF v.retired \/ m.s # v.server
  THEN [v EXCEPT !.answering = [ok |-> FALSE, a |-> m.a, k |-> m.k]]
  ELSE [setDemand(v, m) EXCEPT !.answering = [ok |-> TRUE, a |-> m.a, k |-> m.k]]

onOperation(v, m) ==
  IF v.retired \/ m.s # v.server \/ m.a \notin v.demands \/ m.a \in v.orphaned
  THEN v ELSE [v EXCEPT !.serving = @ \cup {m.a}]

serverConnected(v, s) == [v EXCEPT !.server = s, !.orphaned = {a \in @ : att[a].s # s}]

serverDisconnected(v, s) ==
  [v EXCEPT !.server = IF @ = s THEN None ELSE @,
            !.orphaned = @ \cup {a \in v.demands : att[a].s = s}]

\* readCommands takes the next line; a demand is answered before the one after it.
readCommand(w) ==
  LET m == Head(toPeer[w])
      v == wk[w]
      refused == /\ m.t = "operation"
                 /\ onOperation(v, m) = v
  IN  /\ v.phase \in Open /\ toPeer[w] # <<>> /\ v.answering = None
      /\ toPeer' = [toPeer EXCEPT ![w] = Tail(@)]
      /\ wk' = [wk EXCEPT ![w] =
           CASE m.t = "server_connected" -> serverConnected(v, m.s)
             [] m.t = "server_disconnected" -> serverDisconnected(v, m.s)
             [] m.t = "session_demand" -> reconcile(onDemand(v, m))
             [] m.t = "operation" -> onOperation(v, m)
             [] m.t = "shutdown" -> closeAndExit(v)
             [] OTHER -> v]
      /\ toServer' = CASE refused -> Routed(ToServer("operation_settled", w, m.a, None))
                       [] m.t = "discover_workers" -> Routed(ToServer("worker_ready", w, None, None))
                       [] OTHER -> toServer
      /\ UNCHANGED <<current, peers, srv, att, op, lock, ends>>

\* The answer to a demand reaches the coordinator and the hold goes.
answerDemand(w) ==
  LET v == wk[w]
  IN  /\ v.phase \in Open /\ v.answering # None
      /\ toServer' = Routed(ToServer(IF v.answering.ok THEN "demand_applied" ELSE "demand_rejected",
                                     w, v.answering.a, v.answering.k))
      /\ wk' = [wk EXCEPT ![w] = reconcile([v EXCEPT !.answering = None])]
      /\ UNCHANGED <<current, peers, toPeer, srv, att, op, lock, ends>>

\* An operation ends, by itself or cancelled: its result or error is written, then its
\* hold goes.
handleOperation(w, a) ==
  /\ wk[w].phase \in Open /\ a \in wk[w].serving
  /\ toServer' = Routed(ToServer("operation_settled", w, a, None))
  /\ wk' = [wk EXCEPT ![w] = reconcile([wk[w] EXCEPT !.serving = @ \ {a}])]
  /\ UNCHANGED <<current, peers, toPeer, srv, att, op, lock, ends>>

\* The harness starts and ends operations of its own for a served request.
operationStarted(w) ==
  /\ wk[w].phase = "ready" /\ wk[w].serving # {} /\ ~wk[w].run
  /\ wk' = [wk EXCEPT ![w].run = TRUE]
  /\ UNCHANGED <<current, peers, toServer, toPeer, srv, att, op, lock, ends>>

operationStopped(w) ==
  /\ wk[w].phase = "ready" /\ wk[w].run
  /\ wk' = [wk EXCEPT ![w] = reconcile([@ EXCEPT !.run = FALSE])]
  /\ UNCHANGED <<current, peers, toServer, toPeer, srv, att, op, lock, ends>>

\* The timers: nobody attached after the launch, or a lost server's attachment.
initialTimer(w) ==
  /\ wk[w].phase = "ready" /\ ~wk[w].init
  /\ wk' = [wk EXCEPT ![w] = reconcile([@ EXCEPT !.init = TRUE])]
  /\ UNCHANGED <<current, peers, toServer, toPeer, srv, att, op, lock, ends>>

orphanTimer(w, a) ==
  /\ wk[w].phase = "ready" /\ a \in wk[w].orphaned
  /\ wk' = [wk EXCEPT ![w] = reconcile([wk[w] EXCEPT !.demands = @ \ {a}, !.orphaned = @ \ {a}])]
  /\ UNCHANGED <<current, peers, toServer, toPeer, srv, att, op, lock, ends>>

-----------------------------------------------------------------------------
(* SessionWorkerManager of server s. *)

Mine(s, w) == {a \in Attachments : att[a].s = s /\ att[a].w = w}

\* Operations of worker w still pending are rejected.
OpsRejected(s, w) ==
  [a \in Attachments |-> IF a \in Mine(s, w) /\ op[a] = "pending" THEN "settled" ELSE op[a]]

\* #removeWorker also rejects the pending demands: an attach fails, a release ends, and
\* so does a reconciliation that waits for the worker it had to stop.
DemandsRejected(s, w) ==
  [a \in Attachments |->
     IF a \in Mine(s, w) /\ att[a].pend # "none"
     THEN [att[a] EXCEPT !.st = "ended", !.pend = "none"] ELSE att[a]]

removeWorker(s, w) ==
  /\ op' = OpsRejected(s, w)
  /\ att' = DemandsRejected(s, w)
  /\ srv' = [srv EXCEPT ![s].record = None, ![s].stopping = FALSE]

\* A worker that cannot be reached any more: its record and its pending launch go.
Forget(s, w) ==
  CASE srv[s].record = w -> removeWorker(s, w)
    [] srv[s].pending = w -> srv' = [srv EXCEPT ![s].pending = None] /\ UNCHANGED <<op, att>>
    [] OTHER -> UNCHANGED <<srv, op, att>>

\* openSession with no worker and no launch under way; else the one there is is used.  The
\* new process is any that was never launched.
launch(s, w) ==
  /\ srv[s].phase = "live" /\ srv[s].record = None /\ srv[s].pending = None
  /\ wk[w].phase = "absent" /\ w = CHOOSE v \in Workers : wk[v].phase = "absent"
  /\ wk' = [wk EXCEPT ![w].phase = "spawned", ![w].by = s]
  /\ srv' = [srv EXCEPT ![s].pending = w]
  /\ UNCHANGED <<current, peers, toServer, toPeer, att, op, lock, ends>>

\* #applyDemand refuses a worker that is stopping or no longer recorded.
Usable(s, w) == srv[s].record = w /\ ~srv[s].stopping

Demand(s, a, k) == Sent(s, {att[a].w}, ToPeer("session_demand", s, a, k))

attachClient(s, a) ==
  LET w == srv[s].record
  IN  /\ srv[s].phase = "live" /\ att[a].st = "free" /\ w # None /\ Usable(s, w)
      /\ att' = [att EXCEPT ![a] = [st |-> "attaching", s |-> s, w |-> w, pend |-> "first"]]
      /\ toPeer' = Sent(s, {w}, ToPeer("session_demand", s, a, "attach"))
      /\ UNCHANGED <<current, peers, toServer, srv, op, wk, lock, ends>>

release(a) ==
  LET s == att[a].s
  IN  /\ att[a].st = "attached" /\ srv[s].phase \in Live
      /\ IF Usable(s, att[a].w)
         THEN /\ att' = [att EXCEPT ![a].st = "releasing", ![a].pend = "first"]
              /\ toPeer' = Demand(s, a, "release")
         ELSE att' = [att EXCEPT ![a].st = "ended"] /\ UNCHANGED toPeer
      /\ UNCHANGED <<current, peers, toServer, srv, op, wk, lock, ends>>

\* #stopWorker: its operations are rejected and it is asked to shut down.
stopWorker(s) ==
  /\ srv' = [srv EXCEPT ![s].stopping = TRUE]
  /\ op' = OpsRejected(s, srv[s].record)
  /\ toPeer' = Sent(s, {srv[s].record}, Notice("shutdown", s))

\* #reconcileDemandTimeout undoes a demand nobody answered in time ...
demandTimeout(a) ==
  LET s == att[a].s
  IN  /\ att[a].pend = "first" /\ srv[s].phase \in Live
      /\ IF Usable(s, att[a].w)
         THEN /\ att' = [att EXCEPT ![a].pend = "undo"]
              /\ toPeer' = Demand(s, a, "undo")
         ELSE att' = [att EXCEPT ![a].pend = "stop"] /\ UNCHANGED toPeer
      /\ UNCHANGED <<current, peers, toServer, srv, op, wk, lock, ends>>

\* ... and stops the worker when that is not answered either.
undoFailed(a) == att' = [att EXCEPT ![a].pend = "stop"]

undoTimeout(a) ==
  LET s == att[a].s
  IN  /\ att[a].pend = "undo" /\ srv[s].phase \in Live
      /\ undoFailed(a)
      /\ IF srv[s].stopping THEN UNCHANGED <<srv, op, toPeer>> ELSE stopWorker(s)
      /\ UNCHANGED <<current, peers, toServer, wk, lock, ends>>

closeSession(s) ==
  /\ Stops /\ ends < MaxEnds /\ ends' = ends + 1
  /\ srv[s].phase = "live" /\ srv[s].record # None /\ ~srv[s].stopping
  /\ stopWorker(s)
  /\ UNCHANGED <<current, peers, toServer, att, wk, lock>>

\* The worker does not stop in time: SIGKILL, and its record goes.
stopTimeout(s) ==
  LET w == srv[s].record
  IN  /\ srv[s].stopping /\ srv[s].phase \in Live
      /\ removeWorker(s, w)
      /\ IF wk[w].phase = "exited" THEN UNCHANGED <<wk, peers, lock, toPeer, toServer>>
         ELSE Killed(w)
      /\ UNCHANGED <<current, ends>>

\* #failPending: the launch is given up and the child killed.
failPending(s) ==
  LET w == srv[s].pending
  IN  /\ w # None /\ srv[s].phase \in Live
      /\ srv' = [srv EXCEPT ![s].pending = None]
      /\ IF wk[w].phase = "exited" THEN UNCHANGED <<wk, peers, lock, toPeer, toServer>>
         ELSE Killed(w)
      /\ UNCHANGED <<current, att, op, ends>>

\* The child's exit event reaches the server that spawned it.
childExited(s, w) ==
  /\ wk[w].phase = "exited" /\ wk[w].by = s /\ srv[s].phase \in Live
  /\ w \in {srv[s].record, srv[s].pending}
  /\ Forget(s, w)
  /\ UNCHANGED <<current, peers, toServer, toPeer, wk, lock, ends>>

invokeService(a) ==
  LET s == att[a].s
  IN  /\ att[a].st = "attached" /\ op[a] = "none"
      /\ srv[s].phase = "live" /\ Usable(s, att[a].w)
      /\ op' = [op EXCEPT ![a] = "pending"]
      /\ toPeer' = Sent(s, {att[a].w}, ToPeer("operation", s, a, None))
      /\ UNCHANGED <<current, peers, toServer, srv, att, wk, lock, ends>>

\* #recordReadyWorker: another recorded worker wins, and so does a launch under way.
recordReadyWorker(s, w) ==
  IF srv[s].record \notin {None, w}
  THEN toPeer' = Sent(s, {w}, Notice("shutdown", s)) /\ UNCHANGED srv
  ELSE /\ srv' = IF srv[s].pending \in {None, w} /\ srv[s].record = None
                 THEN [srv EXCEPT ![s].record = w, ![s].pending = None, ![s].stopping = FALSE]
                 ELSE srv
       /\ UNCHANGED toPeer

\* An answer taken for the request that timed out.
Asked_late(a) == CASE att[a].pend \in {"first", "undo"} /\ att[a].st = "attaching" -> "attach"
                   [] att[a].pend \in {"first", "undo"} /\ att[a].st = "releasing" -> "release"
                   [] OTHER -> "none"

\* The request a demand's answer belongs to.
Asked(a) == CASE att[a].pend = "undo" -> "undo"
              [] att[a].pend = "first" /\ att[a].st = "attaching" -> "attach"
              [] att[a].pend = "first" /\ att[a].st = "releasing" -> "release"
              [] OTHER -> "none"

demandAnswered(s, m) ==
  LET a == m.a
      applied == m.t = "demand_applied"
      done == [att EXCEPT ![a].st = IF applied /\ m.k = "attach" THEN "attached" ELSE "ended",
                          ![a].pend = "none"]
  IN  IF att[a].s # s \/ Asked(a) # m.k THEN UNCHANGED <<att, srv, op, toPeer>>
      ELSE IF m.k = "undo" /\ ~applied
      THEN /\ undoFailed(a)
           /\ IF srv[s].stopping THEN UNCHANGED <<srv, op, toPeer>> ELSE stopWorker(s)
      ELSE att' = done /\ UNCHANGED <<srv, op, toPeer>>

\* detach: a replaced server forgets its workers and stops none of them.
Detached(s) ==
  /\ srv' = [srv EXCEPT ![s] = [@ EXCEPT !.phase = "gone", !.pending = None, !.record = None,
                                          !.stopping = FALSE, !.waits = {}]]
  /\ att' = [a \in Attachments |->
               IF att[a].s = s THEN [att[a] EXCEPT !.st = "ended", !.pend = "none"] ELSE att[a]]
  /\ op' = [a \in Attachments |->
               IF att[a].s = s /\ op[a] = "pending" THEN "settled" ELSE op[a]]

\* #handleCoordinatorEvent, and the replaced promise of the connection.
handleCoordinatorEvent(s) ==
  LET m == Head(toServer[s])
  IN  /\ srv[s].phase \in Live /\ toServer[s] # <<>>
      /\ toServer' = [toServer EXCEPT ![s] = IF m.t = "replaced" THEN <<>> ELSE Tail(@)]
      /\ CASE m.t = "replaced" -> Detached(s) /\ UNCHANGED toPeer
           [] m.t = "peer_disconnected" -> Forget(s, m.w) /\ UNCHANGED toPeer
           [] m.t = "worker_failed" ->
                /\ srv' = IF srv[s].pending = m.w THEN [srv EXCEPT ![s].pending = None] ELSE srv
                /\ UNCHANGED <<att, op, toPeer>>
           [] m.t \in {"demand_applied", "demand_rejected"} -> demandAnswered(s, m)
           [] m.t = "operation_settled" ->
                /\ op' = IF att[m.a].s = s /\ op[m.a] = "pending"
                         THEN [op EXCEPT ![m.a] = "settled"] ELSE op
                /\ UNCHANGED <<srv, att, toPeer>>
           [] m.t = "worker_ready" -> recordReadyWorker(s, m.w) /\ UNCHANGED <<att, op>>
      /\ UNCHANGED <<current, peers, wk, lock, ends>>

\* shutdown asks every worker to stop and waits for the ones it knew.
shutdown(s) ==
  LET ws == {srv[s].pending, srv[s].record} \ {None}
  IN  /\ Stops /\ ends < MaxEnds /\ ends' = ends + 1
      /\ srv[s].phase = "live"
      /\ srv' = [srv EXCEPT ![s].phase = "shutdown", ![s].waits = {srv[s].pending} \ {None},
                            ![s].stopping = srv[s].record # None]
      /\ op' = OpsRejected(s, srv[s].record)
      /\ toPeer' = IF srv[s].stopping THEN toPeer ELSE Sent(s, ws, Notice("shutdown", s))
      /\ UNCHANGED <<current, peers, toServer, att, wk, lock>>

\* Launches that do not end in time are killed.
shutdownTimeout(s, w) ==
  /\ srv[s].phase = "shutdown" /\ w \in srv[s].waits /\ wk[w].phase # "exited"
  /\ Killed(w)
  /\ UNCHANGED <<current, srv, att, op, ends>>

shutdownDone(s) ==
  /\ srv[s].phase = "shutdown" /\ ~srv[s].stopping
  /\ \A w \in srv[s].waits : w \notin {srv[s].record, srv[s].pending}
  /\ Detached(s)
  /\ Disconnected(s)
  /\ toServer' = [toServer EXCEPT ![s] = <<>>]
  /\ UNCHANGED <<peers, wk, lock, ends>>

crashServer(s) ==
  /\ srv[s].phase \in Live /\ ends < MaxEnds
  /\ ends' = ends + 1
  /\ Detached(s)
  /\ Disconnected(s)
  /\ toServer' = [toServer EXCEPT ![s] = <<>>]
  /\ UNCHANGED <<peers, wk, lock>>

-----------------------------------------------------------------------------
WorkerStep(w) ==
  \/ registerPeer(w) \/ acquire(w) \/ startFails(w) \/ exit(w) \/ crashWorker(w)
  \/ stall(w) \/ updateLock(w)
  \/ readCommand(w) \/ answerDemand(w) \/ operationStarted(w) \/ operationStopped(w)
  \/ initialTimer(w) \/ \E a \in Attachments : handleOperation(w, a) \/ orphanTimer(w, a)

ServerStep(s) ==
  \/ registerServer(s) \/ closeSession(s) \/ stopTimeout(s) \/ failPending(s)
  \/ handleCoordinatorEvent(s) \/ shutdown(s) \/ shutdownDone(s) \/ crashServer(s)
  \/ \E w \in Workers : launch(s, w) \/ childExited(s, w) \/ shutdownTimeout(s, w)
  \/ \E a \in Attachments : attachClient(s, a)

AttachmentStep(a) ==
  release(a) \/ demandTimeout(a) \/ undoTimeout(a) \/ invokeService(a)

Next ==
  \/ \E w \in Workers : WorkerStep(w)
  \/ \E s \in Servers : ServerStep(s)
  \/ \E a \in Attachments : AttachmentStep(a)

Spec == Init /\ [][Next]_vars

\* Servers differ in nothing but their order of registration.
ServersAlike == Permutations(Servers)

\* Every process runs, every line is read, every timer fires, every request and
\* run of the harness ends.  Nothing obliges a client to come or a process to die.
FairSpec ==
  /\ Spec
  /\ \A w \in Workers :
       /\ WF_vars(registerPeer(w)) /\ WF_vars(startFails(w)) /\ WF_vars(exit(w))
       /\ WF_vars(updateLock(w))
       /\ WF_vars(readCommand(w)) /\ WF_vars(answerDemand(w)) /\ WF_vars(operationStopped(w))
       /\ WF_vars(initialTimer(w))
       /\ \A a \in Attachments : WF_vars(handleOperation(w, a)) /\ WF_vars(orphanTimer(w, a))
       /\ \A s \in Servers : WF_vars(childExited(s, w))
  /\ \A s \in Servers : WF_vars(handleCoordinatorEvent(s)) /\ WF_vars(stopTimeout(s))
  /\ \A a \in Attachments :
       WF_vars(demandTimeout(a)) /\ WF_vars(undoTimeout(a))

-----------------------------------------------------------------------------
(* Properties. *)

\* No process has stalled past the stale limit of its lock.
Refreshed == \A w \in Workers : wk[w].beat = "kept"

\* While every process refreshes its lock in time, two of them never have the session
\* file open at once, whichever servers launched them and however they end
\* (lockfile.lock, closeResources).  A process that stalls loses its lock with its file
\* open, and then two can.
OneFileWriter ==
  Refreshed => \A v, w \in Workers : wk[v].phase \in Open /\ wk[w].phase \in Open => v = w

\* A client attached through the current server is known to the worker that serves
\* it: no timeout, undo or earlier server's notice took its demand away, and the
\* worker has not retired under it (#applyDemand, WorkerLifecycle).
AttachedIsHeld ==
  \A a \in Attachments :
    LET v == wk[att[a].w]
    IN  att[a].st = "attached" /\ att[a].s = current
        => ~v.own /\ (v.phase = "ready" => a \in v.demands \ v.orphaned)

InLine(w, ts, a) == \E i \in DOMAIN toPeer[w] :
  toPeer[w][i].t = "shutdown" \/ (toPeer[w][i].k \in ts /\ toPeer[w][i].a = a)

\* A demand whose attachment ended is on its way out of the worker: a timed-out
\* attach never keeps a worker alive for a client that does not exist.
NoLeakedDemand ==
  \A w \in Workers : \A a \in wk[w].demands :
    wk[w].phase = "ready" /\ att[a].st = "ended" /\ att[a].s = current
    => InLine(w, {"release", "undo"}, a) \/ srv[current].record # w

\* A worker that retires answers the release or the operation of the current server
\* before it goes (holdRetirement): neither fails because the worker was done.
AnswersBeforeLeaving ==
  \A a \in Attachments :
    LET s == att[a].s
        asked == (att[a].st = "releasing" /\ att[a].pend = "first") \/ op[a] = "pending"
    IN  att[a].st # "free" /\ asked /\ s = current /\ wk[att[a].w].own
        /\ wk[att[a].w].phase = "exited"
        => \E i \in DOMAIN toServer[s] : toServer[s][i].w = att[a].w /\ toServer[s][i].a = a

KnownOrGone(w) ==
  \/ wk[w].phase \in {"absent", "exited"}
  \/ \E s \in Servers : current = s /\ srv[s].record = w

Pending(a) == att[a].pend # "none"

-----------------------------------------------------------------------------
(* Proof that the session file has one writer while no process stalls.  The *)
(* property is about two processes and its step about one of them: the      *)
(* invariant ties a worker that has the file open to the lock, which names  *)
(* one owner.                                                               *)

IsWorker(v) == {"phase", "beat"} \subseteq DOMAIN v

WorkersShape == wk = [w \in Workers |-> wk[w]] /\ \A w \in Workers : IsWorker(wk[w])

\* A worker has the session file open only while it owns the lock.
LockHeld == \A w \in Workers : wk[w].phase \in Open => lock = w

WorkersInv == WorkersShape /\ (Refreshed => LockHeld)

\* A worker's new state does not open the file and owes no refresh it did not owe.
Quiet(u, v) == IsWorker(u) /\ u.beat = v.beat /\ (u.phase \in Open => v.phase \in Open)

\* Closing, retiring and what the command lines do to a worker open nothing.
LEMMA CloseQuiet == ASSUME NEW v, IsWorker(v) PROVE Quiet(closeAndExit(v), v)
BY DEF Quiet, IsWorker, closeAndExit, Closing, Open

\* reconcile() opens no file and takes no lock.
LEMMA ReconcileQuiet == ASSUME NEW v, IsWorker(v) PROVE Quiet(reconcile(v), v)
<1> DEFINE r == [v EXCEPT !.retired = TRUE, !.own = v.phase = "ready"]
<1>1. IsWorker(r) /\ r.phase = v.phase /\ r.beat = v.beat
  BY DEF IsWorker
<1>2. Quiet(closeAndExit(r), r)
  BY <1>1, CloseQuiet
<1>3. Quiet(v, v)
  BY DEF Quiet
<1>4. reconcile(v) \in {closeAndExit(r), v}
  BY DEF reconcile
<1>5. QED
  BY <1>1, <1>2, <1>3, <1>4 DEF Quiet

\* The step of one worker that opens nothing and leaves the lock.
LEMMA QuietStep ==
  ASSUME WorkersInv, NEW w \in Workers, NEW u, Quiet(u, wk[w]),
         wk' = [wk EXCEPT ![w] = u], UNCHANGED lock
  PROVE  WorkersInv'
<1>1. WorkersShape'
  BY DEF WorkersInv, WorkersShape, Quiet
<1>2. Refreshed' => Refreshed
  BY DEF Refreshed, WorkersInv, WorkersShape, Quiet
<1>3. LockHeld => LockHeld'
  BY DEF WorkersInv, WorkersShape, LockHeld, Quiet
<1>4. QED
  BY <1>1, <1>2, <1>3 DEF WorkersInv

\* A process that is gone has the file closed; the lock it leaves is its own or untouched.
LEMMA ExitedStep ==
  ASSUME WorkersInv, NEW w, Exited(w),
         Refreshed /\ LockHeld => lock' = lock \/ (lock' = None /\ lock = w)
  PROVE  WorkersInv'
<1> DEFINE u == [wk[w] EXCEPT !.phase = "exited", !.demands = {}, !.orphaned = {},
                              !.serving = {}, !.answering = None, !.run = FALSE]
<1>1. wk' = [wk EXCEPT ![w] = u]
  BY DEF Exited
<1>2. w \in Workers => IsWorker(u) /\ u.phase = "exited" /\ u.beat = wk[w].beat
  BY DEF WorkersInv, WorkersShape, IsWorker
<1>3. WorkersShape'
  BY <1>1, <1>2 DEF WorkersInv, WorkersShape
<1>4. Refreshed' => Refreshed
  BY <1>1, <1>2 DEF WorkersInv, WorkersShape, Refreshed
<1>5. ASSUME Refreshed, LockHeld, NEW x \in Workers, wk'[x].phase \in Open PROVE lock' = x
  BY <1>1, <1>2, <1>5 DEF WorkersInv, WorkersShape, LockHeld, Open
<1>6. Refreshed /\ LockHeld => LockHeld'
  BY <1>5 DEF LockHeld
<1>7. QED
  BY <1>3, <1>4, <1>6 DEF WorkersInv

\* A process that dies leaves the lock stale, which others may then take.
LEMMA KilledStep == ASSUME WorkersInv, NEW w, Killed(w) PROVE WorkersInv'
BY ExitedStep DEF Killed

\* Steps of a worker keep the lock with whoever writes.
LEMMA WorkerStepKeeps ==
  ASSUME WorkersInv, NEW w \in Workers, WorkerStep(w) PROVE WorkersInv'
<1> DEFINE v == wk[w]
<1>0. IsWorker(v)
  BY DEF WorkersInv, WorkersShape
<1>1. CASE registerPeer(w)
  <2> DEFINE u == [v EXCEPT !.phase = "locking", !.server = current]
  <2>1. Quiet(u, v)
    BY <1>0 DEF Quiet, IsWorker, Open
  <2>2. QED
    BY <1>1, <2>1, QuietStep DEF registerPeer
<1>2. CASE acquire(w)
  <2> DEFINE u == [v EXCEPT !.phase = "ready"]
  <2>1. IsWorker(u) /\ u.beat = v.beat
    BY <1>0 DEF IsWorker
  <2>2. wk' = [wk EXCEPT ![w] = u] /\ CanLock /\ lock' = w
    BY <1>2 DEF acquire
  <2>3. WorkersShape'
    BY <2>1, <2>2 DEF WorkersInv, WorkersShape
  <2>4. Refreshed' => Refreshed /\ lock = None
    BY <2>1, <2>2 DEF WorkersInv, WorkersShape, Refreshed, CanLock
  <2>5. Refreshed /\ lock = None => \A x \in Workers : wk[x].phase \notin Open
    BY NoneAssumption DEF WorkersInv, LockHeld
  <2>6. Refreshed' => LockHeld'
    BY <2>2, <2>4, <2>5 DEF WorkersInv, WorkersShape, LockHeld
  <2>7. QED
    BY <2>3, <2>6 DEF WorkersInv
<1>3. CASE startFails(w)
  <2> DEFINE u == [v EXCEPT !.phase = "failed"]
  <2>1. Quiet(u, v)
    BY <1>0 DEF Quiet, IsWorker, Open
  <2>2. QED
    BY <1>3, <2>1, QuietStep DEF startFails
<1>4. CASE exit(w)
  <2>1. Exited(w) /\ Released(w)
    BY <1>4 DEF exit
  <2>2. LockHeld => lock' = lock \/ (lock' = None /\ lock = w)
    BY <2>1 DEF Released, LockHeld, Open
  <2>3. QED
    BY <2>1, <2>2, ExitedStep
<1>12. CASE crashWorker(w)
  BY <1>12, KilledStep DEF crashWorker
<1>13. CASE stall(w)
  <2> DEFINE u == [v EXCEPT !.beat = "missed"]
  <2>1. IsWorker(u) /\ u.beat # "kept"
    BY <1>0 DEF IsWorker
  <2>2. wk' = [wk EXCEPT ![w] = u]
    BY <1>13 DEF stall
  <2>3. WorkersShape' /\ ~Refreshed'
    BY <2>1, <2>2 DEF WorkersInv, WorkersShape, Refreshed
  <2>4. QED
    BY <2>3 DEF WorkersInv
<1>14. CASE updateLock(w)
  <2>1. CASE lock = w
    <3> DEFINE u == [v EXCEPT !.beat = "late"]
    <3>1. IsWorker(u) /\ u.beat # "kept"
      BY <1>0 DEF IsWorker
    <3>2. wk' = [wk EXCEPT ![w] = u]
      BY <1>14, <2>1 DEF updateLock
    <3>3. WorkersShape' /\ ~Refreshed'
      BY <3>1, <3>2 DEF WorkersInv, WorkersShape, Refreshed
    <3>4. QED
      BY <3>3 DEF WorkersInv
  <2>2. CASE lock # w
    <3>1. Exited(w) /\ lock' = lock
      BY <1>14, <2>2 DEF updateLock
    <3>2. QED
      BY <3>1, ExitedStep
  <2>3. QED
    BY <2>1, <2>2
<1>5. CASE readCommand(w)
  <2> DEFINE m == Head(toPeer[w])
             d == onDemand(v, m)
             u == CASE m.t = "server_connected" -> serverConnected(v, m.s)
                    [] m.t = "server_disconnected" -> serverDisconnected(v, m.s)
                    [] m.t = "session_demand" -> reconcile(d)
                    [] m.t = "operation" -> onOperation(v, m)
                    [] m.t = "shutdown" -> closeAndExit(v)
                    [] OTHER -> v
  <2>1. Quiet(serverConnected(v, m.s), v) /\ Quiet(serverDisconnected(v, m.s), v)
    BY <1>0 DEF Quiet, IsWorker, serverConnected, serverDisconnected
  <2>2. IsWorker(d) /\ d.phase = v.phase /\ d.beat = v.beat
    BY <1>0 DEF IsWorker, onDemand, setDemand
  <2>3. Quiet(reconcile(d), v)
    BY <2>2, ReconcileQuiet DEF Quiet
  <2>4. Quiet(onOperation(v, m), v)
    BY <1>0 DEF Quiet, IsWorker, onOperation
  <2>5. Quiet(closeAndExit(v), v) /\ Quiet(v, v)
    BY <1>0, CloseQuiet DEF Quiet
  <2>6. Quiet(u, v)
    BY <2>1, <2>3, <2>4, <2>5
  <2>7. wk' = [wk EXCEPT ![w] = u] /\ UNCHANGED lock
    BY <1>5 DEF readCommand
  <2>8. QED
    BY <2>6, <2>7, QuietStep
<1>6. CASE answerDemand(w)
  <2> DEFINE r == [v EXCEPT !.answering = None]
  <2>1. IsWorker(r) /\ r.phase = v.phase /\ r.beat = v.beat
    BY <1>0 DEF IsWorker
  <2>2. Quiet(reconcile(r), v)
    BY <2>1, ReconcileQuiet DEF Quiet
  <2>3. QED
    BY <1>6, <2>2, QuietStep DEF answerDemand
<1>7. CASE operationStarted(w)
  <2> DEFINE u == [v EXCEPT !.run = TRUE]
  <2>1. Quiet(u, v)
    BY <1>0 DEF Quiet, IsWorker
  <2>2. QED
    BY <1>7, <2>1, QuietStep DEF operationStarted
<1>8. CASE operationStopped(w)
  <2> DEFINE r == [v EXCEPT !.run = FALSE]
  <2>1. IsWorker(r) /\ r.phase = v.phase /\ r.beat = v.beat
    BY <1>0 DEF IsWorker
  <2>2. Quiet(reconcile(r), v)
    BY <2>1, ReconcileQuiet DEF Quiet
  <2>3. QED
    BY <1>8, <2>2, QuietStep DEF operationStopped
<1>9. CASE initialTimer(w)
  <2> DEFINE r == [v EXCEPT !.init = TRUE]
  <2>1. IsWorker(r) /\ r.phase = v.phase /\ r.beat = v.beat
    BY <1>0 DEF IsWorker
  <2>2. Quiet(reconcile(r), v)
    BY <2>1, ReconcileQuiet DEF Quiet
  <2>3. QED
    BY <1>9, <2>2, QuietStep DEF initialTimer
<1>10. ASSUME NEW a \in Attachments, handleOperation(w, a) PROVE WorkersInv'
  <2> DEFINE r == [v EXCEPT !.serving = @ \ {a}]
  <2>1. IsWorker(r) /\ r.phase = v.phase /\ r.beat = v.beat
    BY <1>0 DEF IsWorker
  <2>2. Quiet(reconcile(r), v)
    BY <2>1, ReconcileQuiet DEF Quiet
  <2>3. QED
    BY <1>10, <2>2, QuietStep DEF handleOperation
<1>11. ASSUME NEW a \in Attachments, orphanTimer(w, a) PROVE WorkersInv'
  <2> DEFINE r == [v EXCEPT !.demands = @ \ {a}, !.orphaned = @ \ {a}]
  <2>1. IsWorker(r) /\ r.phase = v.phase /\ r.beat = v.beat
    BY <1>0 DEF IsWorker
  <2>2. Quiet(reconcile(r), v)
    BY <2>1, ReconcileQuiet DEF Quiet
  <2>3. QED
    BY <1>11, <2>2, QuietStep DEF orphanTimer
<1>15. QED
  BY <1>1, <1>2, <1>3, <1>4, <1>5, <1>6, <1>7, <1>8, <1>9, <1>10, <1>11, <1>12, <1>13, <1>14
  DEF WorkerStep

\* Servers launch processes and kill them; everything else they do leaves wk and lock.
LEMMA ServerStepKeeps ==
  ASSUME WorkersInv, NEW s \in Servers, ServerStep(s) PROVE WorkersInv'
<1> DEFINE Same == UNCHANGED <<wk, lock>>
<1>1. Same => WorkersInv'
  BY DEF WorkersInv, WorkersShape, Refreshed, LockHeld
<1>2. CASE registerServer(s) \/ closeSession(s) \/ handleCoordinatorEvent(s) \/ shutdown(s)
  BY <1>1, <1>2 DEF registerServer, closeSession, handleCoordinatorEvent, shutdown
<1>3. CASE shutdownDone(s) \/ crashServer(s)
  BY <1>1, <1>3 DEF shutdownDone, crashServer
<1>4. CASE stopTimeout(s)
  BY <1>1, <1>4, KilledStep DEF stopTimeout
<1>5. CASE failPending(s)
  BY <1>1, <1>5, KilledStep DEF failPending
<1>6. ASSUME NEW w \in Workers, launch(s, w) PROVE WorkersInv'
  <2> DEFINE u == [wk[w] EXCEPT !.phase = "spawned", !.by = s]
  <2>1. Quiet(u, wk[w])
    BY DEF WorkersInv, WorkersShape, Quiet, IsWorker, Open
  <2>2. QED
    BY <1>6, <2>1, QuietStep DEF launch
<1>7. ASSUME NEW w \in Workers, childExited(s, w) PROVE WorkersInv'
  BY <1>1, <1>7 DEF childExited
<1>8. ASSUME NEW w \in Workers, shutdownTimeout(s, w) PROVE WorkersInv'
  BY <1>8, KilledStep DEF shutdownTimeout
<1>9. ASSUME NEW a \in Attachments, attachClient(s, a) PROVE WorkersInv'
  BY <1>1, <1>9 DEF attachClient
<1>10. QED
  BY <1>2, <1>3, <1>4, <1>5, <1>6, <1>7, <1>8, <1>9 DEF ServerStep

\* What clients do to their attachments touches neither the processes nor the lock.
LEMMA AttachmentStepKeeps ==
  ASSUME WorkersInv, NEW a \in Attachments, AttachmentStep(a) PROVE WorkersInv'
<1>1. UNCHANGED <<wk, lock>>
  BY DEF AttachmentStep, release, demandTimeout, undoTimeout, invokeService
<1>2. QED
  BY <1>1 DEF WorkersInv, WorkersShape, Refreshed, LockHeld

\* The inductive step.
LEMMA StepKeeps == WorkersInv /\ [Next]_vars => WorkersInv'
<1>1. WorkersInv /\ Next => WorkersInv'
  BY WorkerStepKeeps, ServerStepKeeps, AttachmentStepKeeps DEF Next
<1>2. WorkersInv /\ UNCHANGED vars => WorkersInv'
  BY DEF vars, WorkersInv, WorkersShape, Refreshed, LockHeld
<1>3. QED
  BY <1>1, <1>2

\* for any number of servers, workers, attachments, crashes and stalls, two worker
\* processes never have the session file open at once while each refreshes its lock
\* within the stale limit (lockfile.lock and closeResources of session-worker.ts).
THEOREM OneWriter == Spec => []OneFileWriter
<1>1. Init => WorkersInv
  BY DEF Init, WorkersInv, WorkersShape, IsWorker, Refreshed, LockHeld, Open
<1>2. WorkersInv => OneFileWriter
  BY DEF WorkersInv, LockHeld, OneFileWriter
<1>3. QED
  BY <1>1, <1>2, StepKeeps, PTL DEF Spec

=============================================================================
