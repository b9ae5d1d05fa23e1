---------------------------- MODULE SessionRouter ----------------------------
(***************************************************************************)
(* The server's session router (packages/server/src/session-router.ts),    *)
(* with what server.ts does around it when a connection ends and when the  *)
(* server closes.  A client's operations run one after another; removals,  *)
(* terminations of a worker and the shutdown run outside that queue and    *)
(* meet them at every await.                                               *)
(*                                                                         *)
(* A handle number stands for one HostedSession object together with its   *)
(* RoutedSessionHandle, an attachment number for one ClientAttachment.     *)
(* 0 is "undefined" for both.  The handle behaves as the one of            *)
(* SessionWorkerManager: attaching to a stopping worker is refused, and    *)
(* `terminated` resolves before close does.                                *)
(***************************************************************************)
EXTENDS Integers, Sequences, FiniteSets

CONSTANTS Clients, Sessions,
          MaxOps,        \* client operations ever asked for
          MaxCalls,      \* service calls ever admitted
          MaxRemovals,   \* calls of removeSession
          MaxCrashes,    \* workers that die by themselves
          MaxRefusals,   \* opens and leases that fail for no reason of ours
          Deferred,      \* a service may attach a client after it has gone
          MayClose       \* the server may be closed

VARIABLES handle,     \* the handles ever made: their session and state
          hosted,     \* hostedSessions
          opening,    \* openingSessions
          att,        \* the attachments ever made
          byClient,   \* attachmentsByClient
          queue,      \* clientOperations: what each client still has to run
          gone,       \* connections that have ended
          marked,     \* disconnectedClients
          shown,      \* the attachment last published to each client
          calls,      \* service calls admitted so far
          remover,    \* the removeSession call in progress
          closer,     \* how far the server's close has come
          budget      \* what the bounds still allow

vars == <<handle, hosted, opening, att, byClient, queue, gone, marked, shown,
          calls, remover, closer, budget>>

Handles == 1..Len(handle)
Attachments == 1..Len(att)

\* hosted.attachments
Members(h) == {a \in Attachments : att[a].handle = h /\ att[a].member}

isClosing == closer.pc # "open"

Idle == [pc |-> "idle", handle |-> 0, wait |-> {}]

Init ==
  /\ handle = <<>> /\ att = <<>>
  /\ hosted = [s \in Sessions |-> 0] /\ opening = [s \in Sessions |-> 0]
  /\ byClient = [c \in Clients |-> 0] /\ shown = [c \in Clients |-> 0]
  /\ queue = [c \in Clients |-> <<>>]
  /\ gone = {} /\ marked = {}
  /\ calls = 0
  /\ remover = Idle
  /\ closer = [pc |-> "open", ops |-> {}, wait |-> {}]
  /\ budget = [ops |-> MaxOps, removals |-> MaxRemovals, crashes |-> MaxCrashes,
               refusals |-> MaxRefusals]

(***************************************************************************)
(* Releasing an attachment.  The promise is shared: the first caller       *)
(* decides whether the client is told, later callers only wait for it.     *)
(***************************************************************************)
Releasing_nowait(as, S, publish) ==
  [a \in DOMAIN as |->
     IF a \in S /\ as[a].rel = "no"
     THEN [as[a] EXCEPT !.rel = "ops", !.publish = publish]
     ELSE as[a]]

Releasing(as, S, publish) ==
  [a \in DOMAIN as |->
     IF a \in S /\ as[a].rel = "no"
     THEN [as[a] EXCEPT !.rel = "ops", !.waitFor = as[a].ops, !.publish = publish]
     ELSE as[a]]

\* The admitted calls have settled and the lease, when there is one or one is
\* still being acquired, is given back.
releaseLease(a) ==
  /\ att[a].rel = "ops" /\ att[a].waitFor = {} /\ att[a].lease # "acquiring"
  /\ att' = [att EXCEPT ![a].rel = "clearing",
                        ![a].lease = IF @ = "held" THEN "released" ELSE @]
  /\ UNCHANGED <<handle, hosted, opening, byClient, queue, gone, marked, shown,
                 calls, remover, closer, budget>>

\* The route is cleared only where the client still has this attachment.
Cleared(a) == att[a].rel = "clearing" /\ byClient[att[a].client] = a

clearAttachment(a) ==
  LET c == att[a].client
  IN /\ att[a].rel = "clearing"
     /\ att' = [att EXCEPT ![a].rel = "done", ![a].member = FALSE]
     /\ byClient' = IF Cleared(a) THEN [byClient EXCEPT ![c] = 0] ELSE byClient
     /\ shown' = IF Cleared(a) /\ att[a].publish /\ c \notin gone
                 THEN [shown EXCEPT ![c] = 0] ELSE shown
     /\ UNCHANGED <<handle, hosted, opening, queue, gone, marked, calls, remover,
                    closer, budget>>

(***************************************************************************)
(* One client's operations: attach, detach, a service call, and the        *)
(* disconnect that ends them.                                              *)
(***************************************************************************)
Op(kind, s) == [kind |-> kind, session |-> s, pc |-> "start", cur |-> 0,
                handle |-> 0, att |-> 0]

runForClient(c, op) == [queue EXCEPT ![c] = Append(@, op)]

\* A client asks for an operation; attachClient refuses when the server is
\* closing.  A deferred service calls it for a connection that has ended.
ask(c) ==
  /\ budget.ops > 0 /\ (c \notin gone \/ Deferred)
  /\ budget' = [budget EXCEPT !.ops = @ - 1]
  /\ \/ \E s \in Sessions : ~isClosing /\ queue' = runForClient(c, Op("attach", s))
     \/ c \notin gone /\ queue' = runForClient(c, Op("detach", 0))
     \/ /\ c \notin gone /\ calls < MaxCalls /\ shown[c] # 0
        /\ queue' = runForClient(c, [Op("call", handle[att[shown[c]].handle].session)
                                       EXCEPT !.att = shown[c]])
  /\ UNCHANGED <<handle, hosted, opening, att, byClient, gone, marked, shown,
                 calls, remover, closer>>

Running(c, kind, pc) ==
  queue[c] # <<>> /\ Head(queue[c]).kind = kind /\ Head(queue[c]).pc = pc

Ends(c) == queue' = [queue EXCEPT ![c] = Tail(@)]

Goes(c, op) == queue' = [queue EXCEPT ![c] = <<op>> \o Tail(@)]

Draining(c) == isClosing \/ c \in marked

Acquired(s) == IF hosted[s] # 0 THEN hosted[s] ELSE opening[s]

attachBegin(c) ==
  LET op  == Head(queue[c])
      s   == op.session
      cur == byClient[c]
      h   == Acquired(s)
      new == Len(handle) + 1
  IN /\ Running(c, "attach", "start")
     /\ IF Draining(c) \/ (cur # 0 /\ handle[att[cur].handle].session = s)
        THEN Ends(c) /\ UNCHANGED <<handle, opening>>
        ELSE \/ /\ h # 0
                /\ Goes(c, [op EXCEPT !.pc = "acquire", !.cur = cur, !.handle = h])
                /\ UNCHANGED <<handle, opening>>
             \/ /\ h = 0
                /\ handle' = Append(handle, [session |-> s, state |-> "opening"])
                /\ opening' = [opening EXCEPT ![s] = new]
                /\ Goes(c, [op EXCEPT !.pc = "acquire", !.cur = cur, !.handle = new])
     /\ UNCHANGED <<hosted, att, byClient, gone, marked, shown, calls, remover,
                    closer, budget>>

\* The worker is up: it is hosted, or closed again when the server is closing.
opened(h) ==
  LET s == handle[h].session
  IN /\ handle[h].state = "opening"
     /\ IF isClosing
        THEN /\ handle' = [handle EXCEPT ![h].state = "refused"]
             /\ UNCHANGED hosted
        ELSE /\ handle' = [handle EXCEPT ![h].state = "open"]
             /\ hosted' = [hosted EXCEPT ![s] = h]
     /\ opening' = [opening EXCEPT ![s] = IF isClosing THEN @ ELSE 0]
     /\ UNCHANGED <<att, byClient, queue, gone, marked, shown, calls, remover,
                    closer, budget>>

\* Mutant: an open that is refused stays among the opens.
refused_kept(h) ==
  /\ handle[h].state = "refused"
  /\ handle' = [handle EXCEPT ![h].state = "failed"]
  /\ UNCHANGED <<opening, hosted, att, byClient, queue, gone, marked, shown, calls, remover, closer, budget>>
\* The handle opened while closing has been closed; its open rejects.
refused(h) ==
  /\ handle[h].state = "refused"
  /\ handle' = [handle EXCEPT ![h].state = "failed"]
  /\ opening' = [opening EXCEPT ![handle[h].session] = 0]
  /\ UNCHANGED <<hosted, att, byClient, queue, gone, marked, shown, calls,
                 remover, closer, budget>>

openFails(h) ==
  /\ handle[h].state = "opening" /\ budget.refusals > 0
  /\ budget' = [budget EXCEPT !.refusals = @ - 1]
  /\ handle' = [handle EXCEPT ![h].state = "failed"]
  /\ opening' = [opening EXCEPT ![handle[h].session] = 0]
  /\ UNCHANGED <<hosted, att, byClient, queue, gone, marked, shown, calls,
                 remover, closer>>

\* The open rejected: there is no hosted session to wait for.
NeverHosted(h) == handle[h].state = "failed"

\* acquire has resolved: the route of the old attachment is given up without a
\* word to the client, which is to hear of the new one.
attachAcquired(c) ==
  LET op == Head(queue[c])
      st == handle[op.handle].state
  IN /\ Running(c, "attach", "acquire") /\ st \notin {"opening", "refused"}
     /\ IF NeverHosted(op.handle) \/ Draining(c)
        THEN Ends(c) /\ UNCHANGED att
        ELSE /\ Goes(c, [op EXCEPT !.pc = "release"])
             /\ att' = IF op.cur = 0 THEN att ELSE Releasing(att, {op.cur}, FALSE)
     /\ UNCHANGED <<handle, hosted, opening, byClient, gone, marked, shown, calls,
                    remover, closer, budget>>

\* The new attachment joins the hosted session and asks for its lease; a
\* worker that is stopping refuses.
attachLease(c) ==
  LET op  == Head(queue[c])
      new == Len(att) + 1
  IN /\ Running(c, "attach", "release")
     /\ op.cur # 0 => att[op.cur].rel = "done"
     /\ att' = Append(att, [client |-> c, handle |-> op.handle, member |-> TRUE,
                            lease |-> IF handle[op.handle].state = "open"
                                      THEN "acquiring" ELSE "failed",
                            ops |-> {}, rel |-> "no", waitFor |-> {}, publish |-> FALSE])
     /\ Goes(c, [op EXCEPT !.pc = "lease", !.att = new])
     /\ UNCHANGED <<handle, hosted, opening, byClient, gone, marked, shown, calls,
                    remover, closer, budget>>

leaseGranted(a) ==
  /\ att[a].lease = "acquiring" /\ handle[att[a].handle].state = "open"
  /\ att' = [att EXCEPT ![a].lease = "held"]
  /\ UNCHANGED <<handle, hosted, opening, byClient, queue, gone, marked, shown,
                 calls, remover, closer, budget>>

\* The demand is refused, times out, or dies with its worker.
leaseFails(a) ==
  /\ att[a].lease = "acquiring"
  /\ \/ handle[att[a].handle].state # "open" /\ UNCHANGED budget
     \/ /\ handle[att[a].handle].state = "open" /\ budget.refusals > 0
        /\ budget' = [budget EXCEPT !.refusals = @ - 1]
  /\ att' = [att EXCEPT ![a].lease = "failed"]
  /\ UNCHANGED <<handle, hosted, opening, byClient, queue, gone, marked, shown,
                 calls, remover, closer>>

\* What is checked once the lease is there and before the route is installed.
MayInstall_unchecked(c, a) == ~isClosing

MayInstall(c, a) ==
  /\ hosted[handle[att[a].handle].session] = att[a].handle
  /\ att[a].member /\ ~Draining(c)

attachInstall(c) ==
  LET op == Head(queue[c])
      a  == op.att
  IN /\ Running(c, "attach", "lease") /\ att[a].lease # "acquiring"
     /\ \/ /\ att[a].lease = "failed"
           /\ att' = [att EXCEPT ![a].member = FALSE]
           /\ Ends(c) /\ UNCHANGED <<byClient, shown>>
        \/ /\ att[a].lease # "failed" /\ ~MayInstall(c, a)
           /\ att' = Releasing(att, {a}, TRUE)
           /\ Goes(c, [op EXCEPT !.pc = "drop"]) /\ UNCHANGED <<byClient, shown>>
        \/ /\ att[a].lease # "failed" /\ MayInstall(c, a)
           /\ byClient' = [byClient EXCEPT ![c] = a]
           /\ shown' = IF c \in gone THEN shown ELSE [shown EXCEPT ![c] = a]
           /\ Ends(c) /\ UNCHANGED att
     /\ UNCHANGED <<handle, hosted, opening, gone, marked, calls, remover, closer,
                    budget>>

Tells(kind) == kind = "detach"

\* detachClient, and the queued part of disconnect, which tells nobody.
detachBegin(c, kind) ==
  LET a == byClient[c]
  IN /\ Running(c, kind, "start")
     /\ IF a = 0
        THEN /\ Ends(c) /\ UNCHANGED att
             /\ marked' = IF kind = "disconnect" THEN marked \ {c} ELSE marked
        ELSE /\ att' = Releasing(att, {a}, Tells(kind))
             /\ Goes(c, [Head(queue[c]) EXCEPT !.pc = "drop", !.att = a])
             /\ UNCHANGED marked
     /\ UNCHANGED <<handle, hosted, opening, byClient, gone, shown, calls, remover,
                    closer, budget>>

\* The release an operation waits for is done.
dropped(c) ==
  LET op == Head(queue[c])
  IN /\ queue[c] # <<>> /\ op.pc = "drop" /\ att[op.att].rel = "done"
     /\ Ends(c)
     /\ marked' = IF op.kind = "disconnect" THEN marked \ {c} ELSE marked
     /\ UNCHANGED <<handle, hosted, opening, att, byClient, gone, shown, calls,
                    remover, closer, budget>>

\* requireAttachment: the call names the attachment it was made for.
Routed(c) == ~Draining(c) /\ byClient[c] # 0 /\ byClient[c] = Head(queue[c]).att

startServiceCall(c) ==
  LET a == byClient[c]
  IN /\ Running(c, "call", "start")
     /\ Ends(c)
     /\ IF Routed(c)
        THEN /\ calls' = calls + 1
             /\ att' = [att EXCEPT ![a].ops = @ \cup {[id |-> calls + 1, named |-> Head(queue[c]).att]}]
        ELSE UNCHANGED <<calls, att>>
     /\ UNCHANGED <<handle, hosted, opening, byClient, gone, marked, shown, remover,
                    closer, budget>>

callSettles(a, k) ==
  /\ k \in att[a].ops
  /\ att' = [att EXCEPT ![a].ops = @ \ {k}, ![a].waitFor = @ \ {k}]
  /\ UNCHANGED <<handle, hosted, opening, byClient, queue, gone, marked, shown,
                 calls, remover, closer, budget>>

\* The connection of c ends: the server's disconnect.
disconnect(c) ==
  /\ c \notin gone
  /\ gone' = gone \cup {c} /\ marked' = marked \cup {c}
  /\ queue' = runForClient(c, Op("disconnect", 0))
  /\ UNCHANGED <<handle, hosted, opening, att, byClient, shown, calls, remover,
                 closer, budget>>

(***************************************************************************)
(* removeSession and invalidate.                                           *)
(***************************************************************************)
removeSession(s) ==
  /\ remover.pc = "idle" /\ budget.removals > 0 /\ ~isClosing /\ hosted[s] # 0
  /\ budget' = [budget EXCEPT !.removals = @ - 1]
  /\ remover' = [pc |-> "release", handle |-> hosted[s], wait |-> Members(hosted[s])]
  /\ att' = Releasing(att, Members(hosted[s]), TRUE)
  /\ UNCHANGED <<handle, hosted, opening, byClient, queue, gone, marked, shown,
                 calls, closer>>

Closing(h) == [handle EXCEPT ![h].state = IF @ = "open" THEN "closing" ELSE @]

removeClose ==
  /\ remover.pc = "release" /\ \A a \in remover.wait : att[a].rel = "done"
  /\ remover' = [remover EXCEPT !.pc = "close"]
  /\ handle' = Closing(remover.handle)
  /\ UNCHANGED <<hosted, opening, att, byClient, queue, gone, marked, shown, calls,
                 closer, budget>>

\* invalidate runs as soon as the handle reports its end.
Invalidated(h) == IF hosted[handle[h].session] = h THEN Members(h) ELSE {}

terminate(h) ==
  LET s == handle[h].session
  IN /\ \/ handle[h].state = "closing" /\ UNCHANGED budget
        \/ /\ handle[h].state = "open" /\ budget.crashes > 0
           /\ budget' = [budget EXCEPT !.crashes = @ - 1]
     /\ handle' = [handle EXCEPT ![h].state = "closed"]
     /\ hosted' = IF hosted[s] = h THEN [hosted EXCEPT ![s] = 0] ELSE hosted
     /\ att' = Releasing(att, Invalidated(h), TRUE)
     /\ UNCHANGED <<opening, byClient, queue, gone, marked, shown, calls, remover,
                    closer>>

removeEnd ==
  LET h == remover.handle
  IN /\ remover.pc = "close" /\ handle[h].state = "closed"
     /\ hosted' = IF hosted[handle[h].session] = h
                  THEN [hosted EXCEPT ![handle[h].session] = 0] ELSE hosted
     /\ remover' = Idle
     /\ UNCHANGED <<handle, opening, att, byClient, queue, gone, marked, shown,
                    calls, closer, budget>>

(***************************************************************************)
(* The shutdown: `closing` is set first, then every connection is          *)
(* disconnected and the router closed.                                     *)
(***************************************************************************)
close ==
  /\ MayClose /\ closer.pc = "open"
  /\ closer' = [closer EXCEPT !.pc = "connections"]
  /\ UNCHANGED <<handle, hosted, opening, att, byClient, queue, gone, marked,
                 shown, calls, remover, budget>>

\* What the router waits for first: the client operations and the opens there are.
Awaited == {c \in Clients : queue'[c] # <<>>}

closeRouter ==
  LET D == Clients \ gone
  IN /\ closer.pc = "connections"
     /\ gone' = Clients /\ marked' = marked \cup D
     /\ queue' = [c \in Clients |->
                    IF c \in D
                    THEN Append(queue[c], Op("disconnect", 0))
                    ELSE queue[c]]
     /\ closer' = [pc |-> "wait", ops |-> Awaited, wait |-> {s \in Sessions : opening[s] # 0}]
     /\ UNCHANGED <<handle, hosted, opening, att, byClient, shown, calls, remover,
                    budget>>

\* The operations and the openings the shutdown found have settled.
Settled ==
  /\ \A c \in closer.ops : queue[c] = <<>>
  /\ \A s \in closer.wait : opening[s] = 0

closeRelease ==
  LET S == {a \in Attachments : att[a].member /\ hosted[handle[att[a].handle].session] = att[a].handle}
  IN /\ closer.pc = "wait"
     /\ Settled
     /\ att' = Releasing(att, S, TRUE)
     /\ closer' = [closer EXCEPT !.pc = "release", !.ops = {}, !.wait = S]
     /\ UNCHANGED <<handle, hosted, opening, byClient, queue, gone, marked, shown,
                    calls, remover, budget>>

closeHandles ==
  LET H == {hosted[s] : s \in Sessions} \ {0}
  IN /\ closer.pc = "release" /\ \A a \in closer.wait : att[a].rel = "done"
     /\ handle' = [h \in Handles |-> IF h \in H THEN Closing(h)[h] ELSE handle[h]]
     /\ closer' = [closer EXCEPT !.pc = "handles", !.wait = H]
     /\ UNCHANGED <<hosted, opening, att, byClient, queue, gone, marked, shown,
                    calls, remover, budget>>

closeEnd ==
  /\ closer.pc = "handles" /\ \A h \in closer.wait : handle[h].state = "closed"
  /\ closer' = [closer EXCEPT !.pc = "closed", !.wait = {}]
  /\ byClient' = [c \in Clients |-> 0]
  /\ UNCHANGED <<handle, hosted, opening, att, queue, gone, marked, shown, calls,
                 remover, budget>>

----------------------------------------------------------------------------
Release(a) == releaseLease(a) \/ clearAttachment(a)

Client(c) ==
  \/ attachBegin(c) \/ attachAcquired(c) \/ attachLease(c) \/ attachInstall(c)
  \/ \E kind \in {"detach", "disconnect"} : detachBegin(c, kind)
  \/ dropped(c) \/ startServiceCall(c)

Worker(h) == opened(h) \/ refused(h) \/ openFails(h)

Lease(a) == leaseGranted(a) \/ leaseFails(a)

Stops(h) == handle[h].state = "closing" /\ terminate(h)

Removal == removeClose \/ removeEnd

Close == closeRouter \/ closeRelease \/ closeHandles \/ closeEnd

Quiet ==
  /\ closer.pc \in {"open", "closed"} /\ remover.pc = "idle"
  /\ \A c \in Clients : queue[c] = <<>>
  /\ \A a \in Attachments : att[a].ops = {} /\ att[a].rel \in {"no", "done"}
  /\ \A h \in Handles : handle[h].state \notin {"opening", "refused", "closing"}

\* Nothing is under way and nobody asks for more.
rest == Quiet /\ UNCHANGED vars

Next ==
  \/ \E c \in Clients : ask(c) \/ Client(c) \/ disconnect(c)
  \/ \E a \in Attachments : Release(a) \/ Lease(a) \/ \E k \in att[a].ops : callSettles(a, k)
  \/ \E h \in Handles : Worker(h) \/ terminate(h)
  \/ \E s \in Sessions : removeSession(s)
  \/ Removal \/ close \/ Close \/ rest

ReleaseOf(a) == a \in Attachments /\ Release(a)
LeaseOf(a) == a \in Attachments /\ Lease(a)
AbortedCallSettles(a) ==
  a \in Attachments /\ att[a].client \in gone /\ \E k \in att[a].ops : callSettles(a, k)
WorkerOf(h) == h \in Handles /\ (Worker(h) \/ Stops(h))

\* The event loop runs what can run; a worker answers, starts and stops; the
\* calls of a connection that has ended are aborted and so settle.
Fairness ==
  /\ \A c \in Clients : WF_vars(Client(c))
  /\ \A a \in 1..MaxOps :
       WF_vars(ReleaseOf(a)) /\ WF_vars(LeaseOf(a)) /\ WF_vars(AbortedCallSettles(a))
  /\ \A h \in 1..MaxOps : WF_vars(WorkerOf(h))
  /\ WF_vars(Close)

Spec == Init /\ [][Next]_vars
FairSpec == Spec /\ Fairness

----------------------------------------------------------------------------
(* A client's route (attachmentsByClient) always leads to an attachment of
   its own that still belongs to its session and whose worker runs and is
   hosted, unless the release that will clear the route is already under
   way: attachClientNow checks all of that again after the lease, and every
   end of a worker releases what is attached to it. *)
RoutesAreLive ==
  \A c \in Clients : byClient[c] # 0 =>
    LET a == att[byClient[c]]
    IN /\ a.client = c /\ a.member
       /\ a.rel = "no" => /\ a.lease = "held"
                          /\ handle[a.handle].state \in {"open", "closing"}
                          /\ hosted[handle[a.handle].session] = a.handle

(* One worker at a time is opened for a session: two clients that attach at
   once share the open (openingSessions), so that a session file never has
   two writers behind this server. *)
OneWorker ==
  \A s \in Sessions :
    Cardinality({h \in Handles : handle[h].session = s
                   /\ handle[h].state \in {"opening", "refused", "open", "closing"}}) <= 1

(* A lease is not given back while a call admitted through it is in flight,
   whether the client detaches, switches or loses its connection, and a call
   never runs on an attachment other than the one it names
   (releaseAttachment, requireAttachment).  A removal or the death of the
   worker ends the lease for a call admitted during the release. *)
CallsKeepLease ==
  \A a \in Attachments : att[a].ops # {} =>
    /\ \A k \in att[a].ops : k.named = a
    /\ att[a].lease = "released" =>
         \/ handle[att[a].handle].state \in {"closing", "closed"}
         \/ remover.pc # "idle" /\ remover.handle = att[a].handle
         \/ closer.pc = "release"

(* Once the disconnect of a connection has run, nothing is attached for it
   any more, so that the worker can retire. *)
GoneIsReleased ==
  \A c \in gone : (queue[c] = <<>> /\ c \notin marked) =>
    \A a \in Attachments : att[a].client = c => ~att[a].member \/ att[a].rel # "no"

(* When the server's close has ended every worker it ever opened is closed,
   the ones still being opened when it began included. *)
CloseStopsWorkers ==
  closer.pc = "closed" => \A h \in Handles : handle[h].state \in {"closed", "failed"}

(* A connection that ends gets its operations out of the queue and its
   attachment released, and a server that closes has closed: no operation
   waits for a release or an open that waits for it. *)
Gone(c) == c \in gone
NothingQueued(c) == queue[c] = <<>>
CloseAsked == closer.pc # "open"
CloseDone == closer.pc = "closed"

EndsAreReached ==
  /\ \A c \in Clients : Gone(c) ~> NothingQueued(c)
  /\ CloseAsked ~> CloseDone
=============================================================================
