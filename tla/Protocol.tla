------------------------------ MODULE Protocol ------------------------------
(***************************************************************************)
(* One client and the server it connects to: the client's connection       *)
(* lifecycle and its requests and subscriptions (packages/client/src/      *)
(* connection.ts and client.ts), the server's handshake and dispatch       *)
(* (packages/server/src/server.ts) and the endpoint behind it              *)
(* (packages/chord/src/services/provider.ts).                              *)
(*                                                                         *)
(* Each connect makes a new connection, with a stream of messages in each  *)
(* direction that keeps order and may be cut at any moment; what is in the *)
(* streams may still arrive afterwards.  The provider holds one replicated *)
(* value, a counter; a subscription starts with a snapshot of it and       *)
(* continues with one update per change.                                   *)
(***************************************************************************)
EXTENDS Integers, Sequences, FiniteSets, SequencesExt

CONSTANTS MaxConnections, MaxRequests, MaxValue,
          MaxFaults,       \* connections cut and handshakes timed out
          Subscribes       \* whether requests may be subscriptions

VARIABLES client,     \* the lifecycle of the client's Connection
          conn,       \* the connections ever made
          req,        \* the requests ever made; a subscription has the same number
          value,      \* the provider's replicated value
          fault,      \* the client failed its connection over a response or an update
          faults      \* faults left

vars == <<client, conn, req, value, fault, faults>>

Conns == 1..Len(conn)
Reqs  == 1..Len(req)

NewConn == [up |-> <<>>, down |-> <<>>, open |-> TRUE, stage |-> "opening",
            services |-> "none", waiting |-> <<>>]

Init ==
  /\ client = [state |-> "disconnected", id |-> 0, transport |-> FALSE]
  /\ conn = <<>> /\ req = <<>>
  /\ value = 0 /\ fault = FALSE /\ faults = MaxFaults

(***************************************************************************)
(* The client's connection.                                                *)
(***************************************************************************)
isCurrent(i) == client.state # "disconnected" /\ client.id = i

\* #fail and what the client does on its state change: every request still
\* pending is rejected and every listener dropped.
Rejected ==
  [r \in Reqs |-> IF req[r].caller = "waiting"
                  THEN [req[r] EXCEPT !.caller = "rejected", !.pending = FALSE, !.listener = FALSE]
                  ELSE [req[r] EXCEPT !.pending = FALSE, !.listener = FALSE]]

Failed ==
  /\ client' = [client EXCEPT !.state = "disconnected", !.transport = FALSE]
  /\ req' = Rejected

connect ==
  /\ client.state = "disconnected" /\ Len(conn) < MaxConnections
  /\ client' = [state |-> "connecting", id |-> Len(conn) + 1, transport |-> FALSE]
  /\ conn' = Append(conn, NewConn)
  /\ UNCHANGED <<req, value, fault, faults>>

\* The transport is there.  Superseded by a disconnect it is closed unused,
\* otherwise the client says hello.
openTransport(i) ==
  /\ conn[i].stage = "opening"
  /\ IF isCurrent(i)
     THEN /\ client' = [client EXCEPT !.transport = TRUE]
          /\ conn' = [conn EXCEPT ![i].stage = "awaitingHello",
                                  ![i].up = <<[type |-> "hello", id |-> 0]>>]
     ELSE /\ conn' = [conn EXCEPT ![i].stage = "awaitingHello", ![i].open = FALSE]
          /\ UNCHANGED client
  /\ UNCHANGED <<req, value, fault, faults>>

\* The transport cannot be made.
openFails(i) ==
  /\ conn[i].stage = "opening" /\ faults > 0
  /\ faults' = faults - 1
  /\ conn' = [conn EXCEPT ![i].stage = "closed", ![i].open = FALSE]
  /\ IF isCurrent(i) THEN Failed ELSE UNCHANGED <<client, req>>
  /\ UNCHANGED <<value, fault>>

\* client.disconnect, with the transport closed if there is one.
disconnect ==
  /\ client.state # "disconnected"
  /\ Failed
  /\ conn' = IF client.transport THEN [conn EXCEPT ![client.id].open = FALSE] ELSE conn
  /\ UNCHANGED <<value, fault, faults>>

\* The transport reports its end to the connection it was made for.
clientClosed(i) ==
  /\ ~conn[i].open /\ isCurrent(i) /\ client.transport
  /\ Failed
  /\ UNCHANGED <<conn, value, fault, faults>>

(***************************************************************************)
(* Requests, subscriptions and their cancellation.                         *)
(***************************************************************************)
Send(i, m) == [conn EXCEPT ![i].up = IF conn[i].open THEN Append(@, m) ELSE @]

Connected == client.state = "connected"

Request(kind, of) ==
  [kind |-> kind, conn |-> client.id,
   caller |-> "waiting", pending |-> TRUE, listener |-> kind = "subscribe",
   seen |-> <<>>, gap |-> FALSE,
   server |-> "none", cancelled |-> FALSE, of |-> of,
   source |-> FALSE, snapshot |-> 0, encoder |-> FALSE,
   ready |-> kind # "subscribe", buffer |-> <<>>]

request(kind) ==
  LET r == Len(req) + 1
  IN /\ Connected /\ r <= MaxRequests
     /\ kind = "subscribe" => Subscribes
     /\ req' = Append(req, Request(kind, 0))
     /\ conn' = Send(client.id, [type |-> "request", id |-> r])
     /\ UNCHANGED <<client, value, fault, faults>>

\* The caller aborts: it is answered at once, while the request stays known
\* until its response has come.
Aborted(r) == [req EXCEPT ![r].caller = "rejected", ![r].listener = FALSE]

abort(r) ==
  /\ req[r].caller = "waiting"
  /\ req' = Aborted(r)
  /\ conn' = IF Connected THEN Send(client.id, [type |-> "cancel", id |-> r]) ELSE conn
  /\ UNCHANGED <<client, value, fault, faults>>

\* A subscription is disposed: its listener goes first, then the server is told.
dispose(r) ==
  LET u == Len(req) + 1
  IN /\ req[r].kind = "subscribe" /\ req[r].caller = "resolved" /\ req[r].listener
     /\ Connected /\ req[r].conn = client.id /\ u <= MaxRequests
     /\ req' = Append([req EXCEPT ![r].listener = FALSE], Request("unsubscribe", r))
     /\ conn' = Send(client.id, [type |-> "request", id |-> u])
     /\ UNCHANGED <<client, value, fault, faults>>

(***************************************************************************)
(* What the client does with a message of the server.  #handleData drops   *)
(* what comes from a connection that is not the current one.               *)

Heeds(i) == client.state # "disconnected" /\ client.id = i

Responded(m) ==
  LET r == m.id
      q == [req[r] EXCEPT !.pending = FALSE,
                          !.caller = IF @ = "waiting"
                                     THEN IF m.ok THEN "resolved" ELSE "rejected" ELSE @,
                          !.seen = IF m.ok /\ req[r].kind = "subscribe" THEN <<m.v>> ELSE @,
                          !.listener = @ /\ m.ok]
  IN [req EXCEPT ![r] = q]

\* An update for a listener that is there; the decoder refuses a gap.
Updated(m) ==
  [req EXCEPT ![m.id].seen = Append(@, m.v),
              ![m.id].gap = @ \/ req[m.id].seen = <<>> \/ m.v # Last(req[m.id].seen) + 1]

clientReceives(i) ==
  LET m == Head(conn[i].down)
      rest == [conn EXCEPT ![i].down = Tail(@)]
  IN /\ conn[i].down # <<>>
     /\ \/ ~Heeds(i) /\ conn' = rest /\ UNCHANGED <<client, req, fault>>
        \/ /\ Heeds(i) /\ m.type = "hello" /\ client.state = "connecting"
           /\ client' = [client EXCEPT !.state = "connected"]
           /\ conn' = rest /\ UNCHANGED <<req, fault>>
        \/ /\ Heeds(i) /\ m.type = "hello_error" /\ client.state = "connecting"
           /\ Failed /\ conn' = [rest EXCEPT ![client.id].open = FALSE] /\ UNCHANGED fault
        \/ /\ Heeds(i) /\ m.type = "response" /\ Connected /\ req[m.id].pending
           /\ req' = Responded(m) /\ conn' = rest /\ UNCHANGED <<client, fault>>
        \/ /\ Heeds(i) /\ m.type = "update" /\ Connected
           /\ req' = IF req[m.id].listener THEN Updated(m) ELSE req
           /\ conn' = rest /\ UNCHANGED <<client, fault>>
        \/ /\ Heeds(i)
           /\ \/ m.type = "response" /\ (~Connected \/ ~req[m.id].pending)
              \/ m.type = "update" /\ ~Connected
              \/ m.type \in {"hello", "hello_error"} /\ Connected
           /\ Failed /\ conn' = [rest EXCEPT ![client.id].open = FALSE]
           /\ fault' = (fault \/ m.type \in {"response", "update"})
     /\ UNCHANGED <<value, faults>>

(***************************************************************************)
(* The server's side of one connection.                                    *)
(***************************************************************************)
Terminal(i) == conn[i].stage \in {"closing", "closed"}

\* sendMessage writes nothing to a connection that has ended.
Reply(cs, i, m) == [cs EXCEPT ![i].down = IF cs[i].open /\ cs[i].stage # "closed"
                                          THEN Append(@, m) ELSE @]

Held(i, m) == Append(conn[i].waiting, m)

\* handleCancel and the synchronous part of handleRequest.
Dispatched(rs, m) ==
  IF m.type = "cancel"
  THEN [rs EXCEPT ![m.id].cancelled = @ \/ rs[m.id].server = "active"]
  ELSE IF rs[m.id].kind = "subscribe"
  THEN [rs EXCEPT ![m.id].server = "active", ![m.id].source = TRUE, ![m.id].snapshot = value]
  ELSE IF rs[m.id].kind = "unsubscribe"
  THEN [rs EXCEPT ![m.id].server = "active", ![rs[m.id].of].source = FALSE]
  ELSE [rs EXCEPT ![m.id].server = "active"]

serverReceives(i) ==
  LET m == Head(conn[i].up)
      rest == [conn EXCEPT ![i].up = Tail(@)]
  IN /\ conn[i].up # <<>>
     /\ \/ Terminal(i) /\ conn' = rest /\ UNCHANGED req
        \/ /\ conn[i].stage = "awaitingHello" /\ m.type = "hello"
           /\ conn' = [rest EXCEPT ![i].stage = "handshaking", ![i].services = "attaching"]
           /\ UNCHANGED req
        \/ /\ conn[i].stage = "handshaking"
           /\ conn' = [rest EXCEPT ![i].waiting = Held(i, m)] /\ UNCHANGED req
        \/ /\ conn[i].stage = "ready" /\ conn[i].waiting = <<>>
           /\ conn' = rest /\ req' = Dispatched(req, m)
     /\ UNCHANGED <<client, value, fault, faults>>

KeepsServices(i) == conn[i].stage = "handshaking" /\ conn[i].open

attached(i) ==
  /\ conn[i].services = "attaching"
  /\ conn' = IF KeepsServices(i)
             THEN Reply([conn EXCEPT ![i].services = "held"], i, [type |-> "hello", id |-> 0, ok |-> TRUE, v |-> 0])
             ELSE [conn EXCEPT ![i].services = "released"]
  /\ UNCHANGED <<client, req, value, fault, faults>>

\* The hello has been written: the connection is ready.
ready(i) ==
  /\ conn[i].stage = "handshaking" /\ conn[i].services = "held" /\ conn[i].open
  /\ conn' = [conn EXCEPT ![i].stage = "ready"]
  /\ UNCHANGED <<client, req, value, fault, faults>>

\* What was read during the handshake is dispatched, in order.
resume(i) ==
  /\ conn[i].waiting # <<>> /\ conn[i].stage \in {"ready", "closed"}
  /\ conn' = [conn EXCEPT ![i].waiting = Tail(@)]
  /\ req' = IF conn[i].stage = "ready" THEN Dispatched(req, Head(conn[i].waiting)) ELSE req
  /\ UNCHANGED <<client, value, fault, faults>>

handshakeTimeout(i) ==
  /\ conn[i].stage \in {"awaitingHello", "handshaking"} /\ faults > 0
  /\ faults' = faults - 1
  /\ conn' = [Reply(conn, i, [type |-> "hello_error", id |-> 0, ok |-> FALSE, v |-> 0])
                EXCEPT ![i].stage = "closing", ![i].open = FALSE]
  /\ UNCHANGED <<client, req, value, fault>>

\* The connection has ended: what is active on it is aborted, its encoders and
\* its services are given up.
serverClosed(i) ==
  /\ conn[i].stage \notin {"opening", "closed"} /\ ~conn[i].open
  /\ conn' = [conn EXCEPT ![i].stage = "closed",
                          ![i].services = IF @ = "held" THEN "released" ELSE @]
  /\ req' = [r \in Reqs |->
               IF req[r].conn = i
               THEN [req[r] EXCEPT !.cancelled = @ \/ req[r].server = "active",
                                   !.encoder = FALSE, !.source = FALSE]
               ELSE req[r]]
  /\ UNCHANGED <<client, value, fault, faults>>

\* The call has ended, well or with an error; a subscription begins and ends
\* whatever its caller wants by then.
respond(r) ==
  LET i  == req[r].conn
      q  == req[r]
      ok == [req EXCEPT ![r].server = IF q.kind = "subscribe" THEN "draining" ELSE "done",
                        ![r].encoder = q.kind = "subscribe" /\ conn[i].stage # "closed"]
  IN /\ q.server = "active"
     /\ \/ /\ req' = IF q.kind = "unsubscribe"
                     THEN [ok EXCEPT ![q.of].encoder = FALSE] ELSE ok
           /\ conn' = Reply(conn, i, [type |-> "response", id |-> r, ok |-> TRUE, v |-> q.snapshot])
        \/ /\ q.kind = "call"
           /\ req' = [req EXCEPT ![r].server = "done"]
           /\ conn' = Reply(conn, i, [type |-> "response", id |-> r, ok |-> FALSE, v |-> 0])
     /\ UNCHANGED <<client, value, fault, faults>>

\* sendServiceUpdate: only where the subscription has its encoder.
Update(cs, r, v) ==
  IF req[r].encoder THEN Reply(cs, req[r].conn, [type |-> "update", id |-> r, ok |-> TRUE, v |-> v]) ELSE cs

\* The updates that came before the response had been written follow it, one
\* at a time; with none left they go out directly.
drain(r) ==
  /\ req[r].server = "draining"
  /\ IF req[r].buffer = <<>>
     THEN req' = [req EXCEPT ![r].ready = TRUE, ![r].server = "done"] /\ UNCHANGED conn
     ELSE /\ req' = [req EXCEPT ![r].buffer = Tail(@)]
          /\ conn' = Update(conn, r, Head(req[r].buffer))
  /\ UNCHANGED <<client, value, fault, faults>>

Buffered_untilResponse(r) == req[r].server = "active"

Buffered(r) == ~req[r].ready

\* The provider's value changes and every subscriber is called, in one go.
publish ==
  LET S == {r \in Reqs : req[r].source}
      D == {r \in S : ~Buffered(r) /\ req[r].encoder}
  IN /\ value < MaxValue
     /\ value' = value + 1
     /\ req' = [r \in Reqs |-> IF r \in S /\ Buffered(r)
                               THEN [req[r] EXCEPT !.buffer = Append(@, value + 1)] ELSE req[r]]
     /\ conn' = [i \in Conns |->
                   [conn[i] EXCEPT !.down =
                      IF conn[i].open /\ conn[i].stage # "closed"
                      THEN @ \o SetToSeq({[type |-> "update", id |-> r, ok |-> TRUE, v |-> value + 1] :
                                        r \in {d \in D : req[d].conn = i}}) ELSE @]]
     /\ UNCHANGED <<client, fault, faults>>

\* The network cuts a connection; messages under way may still arrive.
cut(i) ==
  /\ conn[i].open /\ conn[i].stage # "opening" /\ faults > 0
  /\ faults' = faults - 1
  /\ conn' = [conn EXCEPT ![i].open = FALSE]
  /\ UNCHANGED <<client, req, value, fault>>

----------------------------------------------------------------------------
Kinds == {"call", "subscribe"}

\* Nothing is under way.
rest ==
  /\ \A i \in Conns : conn[i].up = <<>> /\ conn[i].down = <<>> /\ conn[i].waiting = <<>>
  /\ \A r \in Reqs : req[r].server \notin {"active", "draining"}
  /\ UNCHANGED vars

ClientSide(i) == clientReceives(i) \/ clientClosed(i)

ServerSide(i) ==
  serverReceives(i) \/ attached(i) \/ ready(i) \/ resume(i) \/ serverClosed(i)

Next ==
  \/ connect \/ disconnect \/ publish \/ rest
  \/ \E kind \in Kinds : request(kind)
  \/ \E r \in Reqs : abort(r) \/ dispose(r) \/ respond(r) \/ drain(r)
  \/ \E i \in Conns : openTransport(i) \/ openFails(i) \/ ClientSide(i) \/ ServerSide(i)
                      \/ handshakeTimeout(i) \/ cut(i)

Opens(i) == i \in Conns /\ openTransport(i)
ClientReads(i) == i \in Conns /\ ClientSide(i)
ServerReads(i) == i \in Conns /\ ServerSide(i)
Responds(r) == r \in Reqs /\ respond(r)
Drains(r) == r \in Reqs /\ drain(r)

\* Both sides read what has arrived and hear of a cut; a call comes to an end.
Fairness ==
  /\ \A i \in 1..MaxConnections :
       WF_vars(Opens(i)) /\ WF_vars(ClientReads(i)) /\ WF_vars(ServerReads(i))
  /\ \A r \in 1..MaxRequests : WF_vars(Responds(r)) /\ WF_vars(Drains(r))

Spec == Init /\ [][Next]_vars
FairSpec == Spec /\ Fairness

----------------------------------------------------------------------------
(* The client never has to fail a connection over a response or an update:
   every response finds its request, the aborted ones and those of an
   earlier connection included (#handleMessage, #handleData). *)
NoProtocolFault == ~fault

(* A subscriber decodes its snapshot and then every later value exactly once
   and in order, whatever changes between the call of the provider, the
   response and the updates held back for it (handleRequest). *)
StreamHasNoGap == \A r \in Reqs : ~req[r].gap

(* The services of a connection that has ended are given back, also when it
   ended while they were being attached (finishHandshake, disconnect). *)
ServicesReleased ==
  \A i \in Conns : conn[i].stage = "closed" =>
    conn[i].services \in {"none", "attaching", "released"}

(* Every request is answered: by its response, by the abort or by the end of
   the connection; a request read before the server was ready is not lost. *)
Awaited(r) == r \in Reqs /\ req[r].caller = "waiting"
Answered(r) == r \in Reqs /\ req[r].caller # "waiting"

(* A subscription whose connection lasts ends up with the provider's last
   value: nothing published around its start is lost. *)
UpToDate(r) ==
  r \in Reqs =>
    \/ ~req[r].listener \/ ~conn[req[r].conn].open
    \/ req[r].seen # <<>> /\ Last(req[r].seen) = value

=============================================================================
