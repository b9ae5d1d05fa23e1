----------------------------- MODULE RadiusRelay -----------------------------
(***************************************************************************)
(* RadiusRelayHost: a server that serves clients through a relay.  One     *)
(* WebSocket to the relay carries the byte streams of all of them; the     *)
(* relay opens and closes them by control messages.                        *)
(*                                                                         *)
(* The relay is external: it forwards in order, gives every client a new   *)
(* connection ID, and closes its clients when the host's socket is gone.   *)
(***************************************************************************)
EXTENDS Integers, Sequences, FiniteSets

CONSTANTS Ids,          \* connection IDs
          MaxSockets,   \* bound on sockets to the relay
          MaxSends,     \* bound on data messages of a side
          MaxPending,   \* MAX_PENDING_BYTES, in messages
          MayRefuse     \* the server may refuse a connection

VARIABLES
  loop,     \* #run: where it waits; "closing" with a socket it gave up, "dead" with the process
  sockets,  \* sockets opened so far
  alive,    \* the relay's side of the socket is up
  closed,   \* #closed
  conns,    \* #connections
  server,   \* id -> the server's side: "none", "open", "told"; closed by it: "final" (the last
            \* chunk is to be sent), "own", "mute" (the relay's writer rejected the close)
  told,     \* id -> times the server was told that it is closed
  queue,    \* messages of #writer that are not sent and drained yet
  toHost, toRelay,  \* messages under way
  relay,    \* id -> the relay's side: "new", "open", "closed"
  sent      \* data messages so far

vars == <<loop, sockets, alive, closed, conns, server, told, queue, toHost, toRelay, relay, sent>>

Msg(kind, id) == [kind |-> kind, id |-> id]
Control(kind) == [kind |-> kind, id |-> "host"]

Init ==
  /\ loop = "auth" /\ sockets = 0 /\ alive = FALSE /\ closed = FALSE
  /\ conns = {}
  /\ server = [i \in Ids |-> "none"]
  /\ told = [i \in Ids |-> 0]
  /\ queue = <<>> /\ toHost = <<>> /\ toRelay = <<>>
  /\ relay = [i \in Ids |-> "new"]
  /\ sent = 0

-----------------------------------------------------------------------------
(* #run *)

\* Authentication: there is none yet, or the socket is opened.
resolveAuth(found) ==
  /\ loop = "auth"
  /\ loop' = IF closed THEN "stopped" ELSE IF found THEN "connecting" ELSE "missing"
  /\ UNCHANGED <<sockets, alive, closed, conns, server, told, queue, toHost, toRelay, relay, sent>>
retry ==
  /\ loop \in {"missing", "retry"}
  /\ loop' = IF closed THEN "stopped" ELSE "auth"
  /\ UNCHANGED <<sockets, alive, closed, conns, server, told, queue, toHost, toRelay, relay, sent>>

\* openRadiusRelayWebSocket and #serve
open(ok) ==
  /\ loop = "connecting" /\ ~alive
  /\ IF closed THEN loop' = "stopped" /\ UNCHANGED <<sockets, alive>>
     ELSE IF ok THEN sockets < MaxSockets /\ sockets' = sockets + 1 /\ loop' = "serving" /\ alive' = TRUE
     ELSE loop' = "retry" /\ UNCHANGED <<sockets, alive>>
  /\ UNCHANGED <<closed, conns, server, told, queue, toHost, toRelay, relay, sent>>

\* #dropConnections; a last chunk that is not sent has no close after it.
Dropped(cs) == [i \in Ids |-> IF i \in cs /\ server[i] = "open" THEN "told"
                             ELSE IF server[i] = "final" THEN "own" ELSE server[i]]
ToldAll(cs) == [i \in Ids |-> IF i \in cs THEN told[i] + 1 ELSE told[i]]

Has(q, kinds, i) == \E n \in DOMAIN q : q[n].kind \in kinds /\ q[n].id = i

\* Nobody awaits the close that answers a message (void #sendControl): its rejection ends the
\* process, and with it the server and the socket.
Dies ==
  /\ loop' = "dead" /\ conns' = {} /\ queue' = <<>>
  /\ server' = [i \in Ids |-> IF server[i] \in {"open", "final"} THEN "own" ELSE server[i]]
  /\ toRelay' = Append(toRelay, Control("ws"))
  /\ UNCHANGED told

Unawaited == \E i \in Ids : Has(queue, {"answer"}, i)

\* The writer is closed: the connections are dropped and what is queued is rejected.
WriterCloses == conns' = {} /\ server' = Dropped(conns) /\ told' = ToldAll(conns) /\ queue' = <<>>

\* The relay's close or error arrives: finish gives the socket up.
onClose ==
  /\ loop \in {"serving", "closing"} /\ toHost # <<>> /\ Head(toHost).kind = "ws"
  /\ IF Unawaited THEN Dies
     ELSE /\ loop' = IF closed THEN "stopped" ELSE "retry"
          /\ WriterCloses /\ toRelay' = <<>>
  /\ toHost' = Tail(toHost)
  /\ UNCHANGED <<sockets, alive, closed, relay, sent>>

close ==
  /\ ~closed /\ loop # "dead"
  /\ closed' = TRUE
  /\ CASE loop \notin {"serving", "closing"} ->
            loop' = "stopped" /\ UNCHANGED <<conns, server, told, queue, toRelay>>
       [] loop \in {"serving", "closing"} /\ Unawaited -> Dies
       [] OTHER -> WriterCloses /\ toRelay' = Append(toRelay, Control("ws")) /\ UNCHANGED loop
  /\ UNCHANGED <<sockets, alive, toHost, relay, sent>>

-----------------------------------------------------------------------------
(* OrderedWebSocketWriter *)

Writable == loop = "serving" /\ ~closed /\ Len(queue) < MaxPending

\* The head is sent and has drained.
flush ==
  /\ queue # <<>>
  /\ LET m == Head(queue) IN
     toRelay' = Append(toRelay, IF m.kind = "final" THEN Msg("data", m.id) ELSE m)
  /\ queue' = Tail(queue)
  /\ UNCHANGED <<loop, sockets, alive, closed, conns, server, told, toHost, relay, sent>>

\* A last chunk is sent: the close that follows it joins the queue or is rejected.
closeAfterFinal(i) ==
  /\ server[i] = "final" /\ ~Has(queue, {"final"}, i)
  /\ server' = [server EXCEPT ![i] = IF Writable THEN "own" ELSE "mute"]
  /\ queue' = IF Writable THEN Append(queue, Msg("close", i)) ELSE queue
  /\ UNCHANGED <<loop, sockets, alive, closed, conns, told, toHost, toRelay, relay, sent>>

-----------------------------------------------------------------------------
(* #handleHostMessage *)

Serving == loop = "serving" /\ ~closed /\ toHost # <<>>
Received(kind) == Serving /\ Head(toHost).kind = kind /\ toHost' = Tail(toHost)

\* A pong that is rejected closes the socket: what is queued is rejected too, and the server
\* closes the connections whose data that was.
onPing ==
  /\ Received("ping")
  /\ LET failed == {i \in conns : Has(queue, {"data"}, i)} IN
     CASE Writable -> /\ queue' = Append(queue, Control("pong"))
                      /\ UNCHANGED <<loop, conns, server, told, toRelay>>
       [] ~Writable /\ Unawaited -> Dies
       [] OTHER -> /\ loop' = "closing" /\ queue' = <<>> /\ conns' = conns \ failed
                   /\ server' = [i \in Ids |-> IF i \in failed \/ server[i] = "final" THEN "own"
                                               ELSE server[i]]
                   /\ toRelay' = Append(toRelay, Control("ws"))
                   /\ UNCHANGED told
  /\ UNCHANGED <<sockets, alive, closed, relay, sent>>

\* The close of a connection the host does not keep.
Answered(i) ==
  IF Writable THEN queue' = Append(queue, Msg("answer", i)) /\ UNCHANGED <<loop, conns, told, toRelay>>
  ELSE Dies

\* #openConnection: the server accepts, or closes it at once.
openConnection_silent(refused) ==
  /\ Received("open")
  /\ LET i == Head(toHost).id IN
     IF refused THEN server' = [server EXCEPT ![i] = "own"] /\ UNCHANGED conns
     ELSE conns' = conns \cup {i} /\ server' = [server EXCEPT ![i] = "open"]
  /\ UNCHANGED <<loop, sockets, alive, closed, told, queue, toRelay, relay, sent>>
openConnection(refused) ==
  /\ Received("open")
  /\ LET i == Head(toHost).id IN
     IF refused THEN /\ Answered(i)
                     /\ Writable => server' = [server EXCEPT ![i] = "own"]
     ELSE /\ conns' = conns \cup {i} /\ server' = [server EXCEPT ![i] = "open"]
          /\ UNCHANGED <<loop, told, queue, toRelay>>
  /\ UNCHANGED <<sockets, alive, closed, relay, sent>>

\* #remoteCloseConnection
remoteCloseConnection ==
  /\ Received("close")
  /\ LET i == Head(toHost).id IN
     IF i \in conns THEN /\ conns' = conns \ {i}
                         /\ server' = [server EXCEPT ![i] = "told"] /\ told' = [told EXCEPT ![i] = @ + 1]
     ELSE UNCHANGED <<conns, server, told>>
  /\ UNCHANGED <<loop, sockets, alive, closed, queue, toRelay, relay, sent>>

\* Data: for the server, or of a connection that is not there.
onData ==
  /\ Received("data")
  /\ LET i == Head(toHost).id IN
     IF i \in conns THEN UNCHANGED <<loop, conns, server, told, queue, toRelay>>
     ELSE Answered(i) /\ (Writable => UNCHANGED server)
  /\ UNCHANGED <<sockets, alive, closed, relay, sent>>

-----------------------------------------------------------------------------
(* The server's side of a connection. *)

\* #sendData; the server closes a connection whose data is rejected (sendMessage in server.ts),
\* and that close, which is smaller and comes later, may still be queued.
serverSends(i) ==
  LET kept == Append(queue, Msg("close", i)) IN
  /\ server[i] = "open" /\ i \in conns /\ sent < MaxSends
  /\ sent' = sent + 1
  /\ IF Writable THEN queue' = Append(queue, Msg("data", i)) /\ UNCHANGED <<conns, server>>
     ELSE /\ conns' = conns \ {i}
          /\ \/ loop = "serving" /\ queue' = kept /\ server' = [server EXCEPT ![i] = "own"]
             \/ queue' = queue /\ server' = [server EXCEPT ![i] = "mute"]
  /\ UNCHANGED <<loop, sockets, alive, closed, told, toHost, toRelay, relay>>

\* #serverCloseConnection, with or without a final chunk
serverCloses(i, final) ==
  /\ server[i] = "open"
  /\ conns' = conns \ {i}
  /\ IF Writable
     THEN /\ server' = [server EXCEPT ![i] = IF final THEN "final" ELSE "own"]
          /\ queue' = Append(queue, Msg(IF final THEN "final" ELSE "close", i))
     ELSE server' = [server EXCEPT ![i] = "mute"] /\ UNCHANGED queue
  /\ UNCHANGED <<loop, sockets, alive, closed, told, toHost, toRelay, relay, sent>>

-----------------------------------------------------------------------------
(* The relay and its clients. *)

Up == alive /\ \A n \in DOMAIN toHost : toHost[n].kind # "ws"

clientConnects(i) ==
  /\ Up /\ relay[i] = "new"
  /\ relay' = [relay EXCEPT ![i] = "open"]
  /\ toHost' = Append(toHost, Msg("open", i))
  /\ UNCHANGED <<loop, sockets, alive, closed, conns, server, told, queue, toRelay, sent>>
clientSends(i) ==
  /\ Up /\ relay[i] = "open" /\ sent < MaxSends
  /\ toHost' = Append(toHost, Msg("data", i))
  /\ sent' = sent + 1
  /\ UNCHANGED <<loop, sockets, alive, closed, conns, server, told, queue, toRelay, relay>>
clientLeaves(i) ==
  /\ Up /\ relay[i] = "open"
  /\ relay' = [relay EXCEPT ![i] = "closed"]
  /\ toHost' = Append(toHost, Msg("close", i))
  /\ UNCHANGED <<loop, sockets, alive, closed, conns, server, told, queue, toRelay, sent>>
relayPings ==
  /\ Up /\ sent < MaxSends
  /\ toHost' = Append(toHost, Control("ping"))
  /\ sent' = sent + 1
  /\ UNCHANGED <<loop, sockets, alive, closed, conns, server, told, queue, toRelay, relay>>

ClientsClosed == [i \in Ids |-> IF relay[i] = "open" THEN "closed" ELSE relay[i]]

relayReceives ==
  /\ Up /\ toRelay # <<>>
  /\ toRelay' = Tail(toRelay)
  /\ LET m == Head(toRelay) IN
     /\ relay' = CASE m.kind \in {"close", "answer"} -> [relay EXCEPT ![m.id] = "closed"]
                   [] m.kind = "ws"    -> ClientsClosed
                   [] OTHER            -> relay
     /\ alive' = (alive /\ m.kind # "ws")
     /\ toHost' = IF m.kind = "ws" THEN Append(toHost, m) ELSE toHost
  /\ UNCHANGED <<loop, sockets, closed, conns, server, told, queue, sent>>

\* The relay's side of the socket goes away.
relayDrops ==
  /\ Up
  /\ alive' = FALSE /\ relay' = ClientsClosed
  /\ toHost' = Append(toHost, Control("ws"))
  /\ UNCHANGED <<loop, sockets, closed, conns, server, told, queue, toRelay, sent>>

\* A socket that is closing drops what still arrives.
discard ==
  /\ loop = "closing" \/ (loop = "serving" /\ closed)
  /\ toHost # <<>> /\ Head(toHost).kind # "ws"
  /\ toHost' = Tail(toHost)
  /\ UNCHANGED <<loop, sockets, alive, closed, conns, server, told, queue, toRelay, relay, sent>>

-----------------------------------------------------------------------------
Rest == (loop \in {"stopped", "dead"} \/ sockets = MaxSockets) /\ UNCHANGED vars

Host ==
  \/ \E found \in BOOLEAN : resolveAuth(found)
  \/ \E ok \in BOOLEAN : open(ok)
  \/ retry \/ onClose \/ flush \/ onPing \/ remoteCloseConnection \/ onData \/ discard
  \/ \E i \in Ids : closeAfterFinal(i)
  \/ \E refused \in BOOLEAN : (refused => MayRefuse) /\ openConnection(refused)

Next ==
  \/ Host \/ close
  \/ \E i \in Ids : serverSends(i) \/ (\E final \in BOOLEAN : serverCloses(i, final))
  \/ \E i \in Ids : clientConnects(i) \/ clientSends(i) \/ clientLeaves(i)
  \/ relayPings \/ relayReceives \/ relayDrops
  \/ Rest

Spec == Init /\ [][Next]_vars
FairSpec == Spec /\ WF_vars(Host) /\ WF_vars(relayReceives)

-----------------------------------------------------------------------------
(* Properties. *)

\* A client that the relay holds open is open at the host, or the message that
\* makes it so, or closes it, is under way: none waits for an answer nobody
\* will give (#openConnection, #serverCloseConnection).  The exception is the
\* client whose close the writer rejected at its limit: it stays open until it
\* sends something.
NoStrayClient ==
  \A i \in Ids : Up /\ loop = "serving" /\ ~closed /\ relay[i] = "open"
    => \/ i \in conns \/ server[i] \in {"final", "mute"}
       \/ Has(toHost, {"open"}, i)
       \/ Has(queue \o toRelay, {"close", "answer"}, i) \/ Has(toRelay, {"ws"}, "host")

\* Every connection the server has accepted ends once: the server closes it or
\* is told, never both and never twice, whatever ends first
\* (#remoteCloseConnection, #dropConnections).
EndsOnce ==
  \A i \in Ids : /\ told[i] <= 1
                 /\ server[i] \in {"final", "own", "mute"} => told[i] = 0
                 /\ server[i] = "open" => i \in conns

\* What the server sent on a connection reaches the relay before the
\* connection's close: a final chunk is never cut off (OrderedWebSocketWriter).
DataBeforeClose ==
  LET q == toRelay \o queue IN
  \A m, n \in DOMAIN q : m < n /\ q[m].kind \in {"close", "answer"}
    => ~(q[n].kind \in {"data", "final"} /\ q[n].id = q[m].id)

Closed == closed
Stopped == loop \in {"stopped", "dead"}

=============================================================================
