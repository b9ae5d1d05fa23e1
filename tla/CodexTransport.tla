--------------------------- MODULE CodexTransport ---------------------------
(***************************************************************************)
(* The transport of the Codex provider: requests over WebSockets that are  *)
(* cached per account, that continue the previous response of their        *)
(* connection with only the new input, and that fall back to SSE.          *)
(*                                                                         *)
(* One session.  Request r adds the input item 10r, its response is the    *)
(* item 10r + 1; the input of a request is any prefix of the conversation  *)
(* and its own item.  Messages that a socket delivers are a sequence, a    *)
(* close being the last of them.                                           *)
(***************************************************************************)
EXTENDS Integers, Sequences, FiniteSets

CONSTANTS MaxRequests,  \* bound on requests
          MaxSockets,   \* bound on connections
          Accounts,     \* authenticated accounts
          Setups,       \* request bodies without their input
          Sessions,     \* whether requests have a session to cache for: subset of BOOLEAN
          MaxRetries,   \* options.maxRetries
          MayClose,     \* the session's resources may be released
          Faults        \* subset of {"abort", "connect", "close", "idle", "forget", "limit", "failed"}

VARIABLES
  req,       \* request -> its state in stream()
  conn,      \* socket -> CachedWebSocketConnection, with the server's side of it
  cache,     \* account -> websocketSessionCache: a socket, 0 for none
  fallback,  \* websocketSseFallbackSessions has the session
  history    \* the conversation

vars == <<req, conn, cache, fallback, history>>

Requests == 1..MaxRequests
Sockets == 1..MaxSockets
NoCont == [base |-> <<>>, setup |-> 0, id |-> 0]
NotSent == [pc |-> "unsent", account |-> 0, setup |-> 0, session |-> FALSE, input |-> <<>>, sock |-> 0,
            entry |-> FALSE, started |-> FALSE, limit |-> FALSE, missing |-> FALSE, aborted |-> FALSE,
            attempt |-> 0, retries |-> 0, got |-> {}]
NoSocket == [state |-> "none", busy |-> FALSE, timer |-> FALSE, old |-> FALSE, cont |-> NoCont,
             serving |-> 0, ctx |-> <<>>, known |-> 0, stage |-> "idle", attempt |-> 0, wire |-> <<>>]

Init ==
  /\ req = [r \in Requests |-> NotSent]
  /\ conn = [s \in Sockets |-> NoSocket]
  /\ cache = [a \in Accounts |-> 0]
  /\ fallback = FALSE
  /\ history = <<>>

Over == {"done", "error", "aborted"}
Closed == [NoSocket EXCEPT !.state = "closed"]
Ended(f) == IF f.pc \in Over THEN [NotSent EXCEPT !.pc = f.pc] ELSE f
Active(r) == req[r].pc \notin Over \cup {"unsent"}
First(r) == req[r].pc = "unsent" /\ \A q \in Requests : q < r => req[q].pc # "unsent"

-----------------------------------------------------------------------------
(* Requests and connections. *)

stream(r, a, setup, session, k) ==
  /\ First(r)
  /\ req' = [req EXCEPT ![r] = [NotSent EXCEPT
       !.pc = IF session /\ fallback THEN "sse" ELSE "acquire",
       !.account = a, !.setup = setup, !.session = session,
       !.input = Append(SubSeq(history, 1, k), 10 * r)]]
  /\ UNCHANGED <<conn, cache, fallback, history>>

\* getCachedWebSocketInputDelta: the input continues the previous one and its response.
Continues_longer(c, r) == c.id # 0 /\ c.setup = req[r].setup /\ Len(req[r].input) >= Len(c.base)
Continues(c, r) ==
  /\ c.id # 0 /\ c.setup = req[r].setup
  /\ Len(req[r].input) >= Len(c.base)
  /\ SubSeq(req[r].input, 1, Len(c.base)) = c.base

\* buildCachedWebSocketRequestBody and socket.send.  The server answers out of
\* the response it knows, or of the whole input.
Sent(r, k, entry) ==
  LET c == k.cont
      delta == entry /\ Continues(c, r)
      n == Len(c.base)
      rest == SubSeq(req[r].input, n + 1, Len(req[r].input))
  IN [k EXCEPT !.serving = r, !.attempt = req[r].attempt + 1,
        !.cont = IF delta THEN c ELSE NoCont,
        !.stage = IF delta /\ c.id # k.known THEN "missing" ELSE "new",
        !.ctx = IF delta THEN k.ctx \o rest ELSE req[r].input]

Streaming(r, s, entry) ==
  [req EXCEPT ![r].pc = "streaming", ![r].sock = s, ![r].entry = entry, ![r].attempt = @ + 1,
              ![r].started = FALSE]

Reusable(s) == conn[s].state = "open"

\* acquireWebSocket, up to its first await: the cached connection is used, is
\* busy, or is given up.
Connecting(r, pc) == req' = [req EXCEPT ![r].pc = pc]
acquireWebSocket(r) ==
  /\ req[r].pc = "acquire" /\ ~req[r].aborted
  /\ LET s == cache[req[r].account] IN
     IF ~req[r].session \/ s = 0
     THEN Connecting(r, IF req[r].session THEN "connecting" ELSE "one-shot") /\ UNCHANGED <<conn, cache>>
     ELSE IF conn[s].busy
     THEN Connecting(r, "one-shot") /\ conn' = [conn EXCEPT ![s].timer = FALSE] /\ UNCHANGED cache
     ELSE IF ~conn[s].old /\ Reusable(s)
     THEN /\ conn' = [conn EXCEPT ![s] = [Sent(r, conn[s], TRUE) EXCEPT !.busy = TRUE, !.timer = FALSE]]
          /\ req' = Streaming(r, s, TRUE)
          /\ UNCHANGED cache
     ELSE /\ Connecting(r, "connecting")
          /\ conn' = [conn EXCEPT ![s] = Closed]
          /\ cache' = [cache EXCEPT ![req[r].account] = 0]
  /\ UNCHANGED <<fallback, history>>

\* connectWebSocket resolves; a connection that is to be kept is cached, over
\* any other that was cached meanwhile.
connectWebSocket(r, s) ==
  /\ req[r].pc \in {"connecting", "one-shot"} /\ ~req[r].aborted
  /\ conn[s].state = "none" /\ \A t \in Sockets : t < s => conn[t].state # "none"
  /\ LET entry == req[r].pc = "connecting" IN
     /\ conn' = [conn EXCEPT ![s] =
          [Sent(r, NoSocket, entry) EXCEPT !.state = "open", !.busy = entry]]
     /\ cache' = IF entry THEN [cache EXCEPT ![req[r].account] = s] ELSE cache
     /\ req' = Streaming(r, s, entry)
  /\ UNCHANGED <<fallback, history>>

-----------------------------------------------------------------------------
(* Ends of an attempt. *)

Uncached(s) == [a \in Accounts |-> IF cache[a] = s THEN 0 ELSE cache[a]]

\* release: kept for the next request, or closed and forgotten.
Released(s, keep) ==
  IF keep /\ Reusable(s)
  THEN [conn EXCEPT ![s] = [@ EXCEPT !.busy = FALSE, !.timer = TRUE, !.serving = 0, !.stage = "idle"]]
  ELSE [conn EXCEPT ![s] = Closed]

\* The catch of stream(): try again on a WebSocket, go on with SSE, or give up.
AfterFailure(f, err) ==
  LET limited == err = "limit" /\ ~f.started IN
  IF f.aborted THEN [f EXCEPT !.pc = "aborted"]
  ELSE IF err = "missing" /\ ~f.missing THEN [f EXCEPT !.pc = "acquire", !.missing = TRUE]
  ELSE IF limited /\ ~f.limit THEN [f EXCEPT !.pc = "acquire", !.limit = TRUE]
  ELSE IF err \in {"missing", "failed", "limit"} /\ ~limited THEN [f EXCEPT !.pc = "error"]
  ELSE [f EXCEPT !.pc = IF f.started THEN "error" ELSE "sse"]

\* recordWebSocketFailure: a failure of the transport turns the session to SSE.
FallbackAfter(f, err) ==
  fallback \/ (f.session /\ ~f.aborted /\ AfterFailure(f, err).pc \in {"sse", "error"}
               /\ ~(err \in {"missing", "failed"} \/ (err = "limit" /\ f.started)))

\* The attempt of r on its socket fails with err.
Fails(r, err) ==
  LET f == [req[r] EXCEPT !.sock = 0] IN
  /\ req' = [req EXCEPT ![r] = Ended(AfterFailure(f, err))]
  /\ fallback' = FallbackAfter(f, err)
  /\ conn' = Released(req[r].sock, FALSE)
  /\ cache' = Uncached(req[r].sock)

\* connectWebSocket rejects: an error, a close or the timeout.
connectFails(r) ==
  /\ "connect" \in Faults
  /\ req[r].pc \in {"connecting", "one-shot"} /\ ~req[r].aborted
  /\ LET f == [req[r] EXCEPT !.started = FALSE] IN
     /\ req' = [req EXCEPT ![r] = Ended(AfterFailure(f, "connection"))]
     /\ fallback' = FallbackAfter(f, "connection")
  /\ UNCHANGED <<conn, cache, history>>

-----------------------------------------------------------------------------
(* The server's side of a socket. *)

\* The answer to the request being served, one message at a time.
serverEmits(s, kind) ==
  /\ conn[s].state = "open" /\ conn[s].serving # 0
  /\ kind \in CASE conn[s].stage = "new"     -> {"created"} \cup (Faults \cap {"limit", "failed"})
                [] conn[s].stage = "created" -> {"text"} \cup (Faults \cap {"failed"})
                [] conn[s].stage = "text"    -> {"completed"} \cup (Faults \cap {"failed"})
                [] conn[s].stage = "missing" -> {"missing"}
                [] OTHER                     -> {}
  /\ LET k == conn[s] IN
     conn' = [conn EXCEPT ![s] = [@ EXCEPT
       !.stage = IF kind \in {"created", "text"} THEN kind ELSE "idle",
       !.wire = Append(@, [kind |-> kind, req |-> k.serving, attempt |-> k.attempt]),
       !.known = IF kind = "completed" THEN k.serving ELSE @,
       !.ctx = IF kind = "completed" THEN Append(@, 10 * k.serving + 1) ELSE @]]
  /\ UNCHANGED <<req, cache, fallback, history>>

\* The server loses the previous response, or closes the connection.
serverForgets(s) ==
  /\ "forget" \in Faults
  /\ conn[s].state = "open" /\ conn[s].known # 0 /\ conn[s].stage = "idle"
  /\ conn' = [conn EXCEPT ![s].known = 0]
  /\ UNCHANGED <<req, cache, fallback, history>>
serverCloses(s) ==
  /\ "close" \in Faults
  /\ conn[s].state = "open" /\ conn[s].stage # "gone"
  /\ conn' = [conn EXCEPT ![s] = [@ EXCEPT !.stage = "gone",
                                           !.wire = Append(@, [kind |-> "close", req |-> 0, attempt |-> 0])]]
  /\ UNCHANGED <<req, cache, fallback, history>>

-----------------------------------------------------------------------------
(* parseWebSocket and processWebSocketStream. *)

Reader(s) == {r \in Requests : req[r].pc = "streaming" /\ req[r].sock = s}

\* A message when nobody reads the socket.
unread(s) ==
  /\ conn[s].state = "open" /\ conn[s].wire # <<>> /\ Reader(s) = {}
  /\ conn' = [conn EXCEPT ![s] =
       IF Head(conn[s].wire).kind = "close" THEN [Closed EXCEPT !.timer = conn[s].timer]
       ELSE [@ EXCEPT !.wire = Tail(@)]]
  /\ UNCHANGED <<req, cache, fallback, history>>

onEvent(r) ==
  LET s == req[r].sock
      e == Head(conn[s].wire)
  IN /\ req[r].pc = "streaming" /\ ~req[r].aborted
     /\ conn[s].wire # <<>> /\ e.kind \in {"created", "text"}
     /\ req' = [req EXCEPT ![r].started = TRUE,
                  ![r].got = IF e.kind = "text" THEN @ \cup {[req |-> e.req, attempt |-> e.attempt]} ELSE @]
     /\ conn' = [conn EXCEPT ![s].wire = Tail(@)]
     /\ UNCHANGED <<cache, fallback, history>>

onError(r) ==
  LET s == req[r].sock
      e == Head(conn[s].wire)
  IN /\ req[r].pc = "streaming" /\ ~req[r].aborted
     /\ conn[s].wire # <<>> /\ e.kind \in {"limit", "missing", "failed", "close"}
     /\ Fails(r, e.kind)
     /\ UNCHANGED history

\* The response is complete: the connection continues with it.
Continuation(r) == [base |-> Append(req[r].input, 10 * r + 1), setup |-> req[r].setup, id |-> r]
onCompleted(r) ==
  LET s == req[r].sock
      k == [conn[s] EXCEPT !.wire = Tail(@)]
  IN /\ req[r].pc = "streaming" /\ ~req[r].aborted
     /\ conn[s].wire # <<>> /\ Head(conn[s].wire).kind = "completed"
     /\ LET keep == req[r].entry IN
        /\ conn' = [Released(s, keep) EXCEPT
                      ![s] = IF @.state = "open" THEN [@ EXCEPT !.wire = k.wire, !.cont = Continuation(r)] ELSE @]
        /\ cache' = IF keep /\ Reusable(s) THEN cache ELSE Uncached(s)
     /\ req' = [req EXCEPT ![r] = Ended([@ EXCEPT !.pc = "done"])]
     /\ history' = Append(req[r].input, 10 * r + 1)
     /\ UNCHANGED fallback

\* Nothing has come for the idle timeout.
idleTimeout(r) ==
  /\ "idle" \in Faults
  /\ req[r].pc = "streaming" /\ ~req[r].aborted
  /\ conn[req[r].sock].wire = <<>>
  /\ Fails(r, "idle")
  /\ UNCHANGED history

abort(r) ==
  /\ "abort" \in Faults
  /\ Active(r) /\ ~req[r].aborted
  /\ req' = [req EXCEPT ![r].aborted = TRUE]
  /\ UNCHANGED <<conn, cache, fallback, history>>

\* An aborted request ends where it waits.
aborts(r) ==
  /\ Active(r) /\ req[r].aborted
  /\ IF req[r].pc = "streaming" THEN Fails(r, "aborted")
     ELSE req' = [req EXCEPT ![r] = Ended([@ EXCEPT !.pc = "aborted"])] /\ UNCHANGED <<conn, cache, fallback>>
  /\ UNCHANGED history

-----------------------------------------------------------------------------
(* SSE. *)

\* The fetch, with its retries.
fetch(r, ok) ==
  /\ req[r].pc = "sse" /\ ~req[r].aborted
  /\ req' = [req EXCEPT ![r] =
       IF ok THEN [@ EXCEPT !.pc = "reading", !.attempt = @ + 1]
       ELSE IF req[r].retries < MaxRetries THEN [@ EXCEPT !.retries = @ + 1]
       ELSE Ended([@ EXCEPT !.pc = "error"])]
  /\ UNCHANGED <<conn, cache, fallback, history>>

\* processStream: content, then the end of the response or a failure.
read(r) ==
  /\ req[r].pc = "reading" /\ ~req[r].aborted
  /\ req' = [req EXCEPT ![r].got = @ \cup {[req |-> r, attempt |-> req[r].attempt]}]
  /\ UNCHANGED <<conn, cache, fallback, history>>
readEnds(r, ok) ==
  /\ req[r].pc = "reading" /\ ~req[r].aborted
  /\ req' = [req EXCEPT ![r] = Ended([@ EXCEPT !.pc = IF ok THEN "done" ELSE "error"])]
  /\ history' = IF ok THEN Append(req[r].input, 10 * r + 1) ELSE history
  /\ UNCHANGED <<conn, cache, fallback>>

-----------------------------------------------------------------------------
(* Time and the end of the session. *)

\* scheduleSessionWebSocketExpiry
idleTimer(s) ==
  /\ conn[s].timer
  /\ IF conn[s].busy THEN conn' = [conn EXCEPT ![s].timer = FALSE] /\ UNCHANGED cache
     ELSE /\ conn' = [conn EXCEPT ![s] = Closed]
          /\ cache' = Uncached(s)
  /\ UNCHANGED <<req, fallback, history>>

\* SESSION_WEBSOCKET_MAX_AGE_MS passes.
ages(s) ==
  /\ conn[s].state = "open" /\ ~conn[s].old /\ s \in {cache[a] : a \in Accounts}
  /\ conn' = [conn EXCEPT ![s].old = TRUE]
  /\ UNCHANGED <<req, cache, fallback, history>>

\* closeOpenAICodexWebSocketSessions; a reader is told of the close.
closeSessions ==
  /\ MayClose
  /\ \E a \in Accounts : cache[a] # 0
  /\ conn' = [s \in Sockets |->
       IF s \notin {cache[a] : a \in Accounts} THEN conn[s]
       ELSE [conn[s] EXCEPT !.timer = FALSE, !.state = "closed", !.stage = "gone",
               !.wire = IF Reader(s) = {} THEN <<>>
                        ELSE Append(@, [kind |-> "close", req |-> 0, attempt |-> 0])]]
  /\ cache' = [a \in Accounts |-> 0]
  /\ UNCHANGED <<req, fallback, history>>

-----------------------------------------------------------------------------
Rest ==
  /\ \A r \in Requests : ~Active(r)
  /\ UNCHANGED vars

Own(r) ==
  \/ acquireWebSocket(r) \/ \E s \in Sockets : connectWebSocket(r, s)
  \/ onEvent(r) \/ onError(r) \/ onCompleted(r) \/ aborts(r)
  \/ \E ok \in BOOLEAN : fetch(r, ok) \/ readEnds(r, ok)

Server(s) == \E kind \in {"created", "text", "completed", "limit", "failed", "missing"} : serverEmits(s, kind)

Next ==
  \/ \E r \in Requests :
       \/ \E a \in Accounts, setup \in Setups, session \in Sessions, k \in 0..Len(history) :
            stream(r, a, setup, session, k)
       \/ Own(r) \/ read(r) \/ connectFails(r) \/ idleTimeout(r) \/ abort(r)
  \/ \E s \in Sockets :
       Server(s) \/ serverForgets(s) \/ serverCloses(s) \/ unread(s) \/ idleTimer(s) \/ ages(s)
  \/ closeSessions
  \/ Rest

Spec == Init /\ [][Next]_vars

\* The client runs and the server answers what it serves.
FairSpec ==
  /\ Spec
  /\ \A r \in Requests : WF_vars(Own(r))
  /\ \A s \in Sockets : WF_vars(Server(s))

-----------------------------------------------------------------------------
(* Properties. *)

\* What the server answers is the whole input of the request, whether it was
\* sent or continues the connection's previous response
\* (getCachedWebSocketInputDelta, entry.continuation).
ContextIsWhole ==
  \A s \in Sockets :
    conn[s].serving # 0 /\ conn[s].stage \in {"new", "created", "text"}
      => conn[s].ctx = req[conn[s].serving].input

\* The content of a message is the answer to its own request, and all of it
\* comes from one attempt (cached.busy, release, websocketStarted).
OwnOutput ==
  \A r \in Requests : \A g \in req[r].got :
    g.req = r /\ \A h \in req[r].got : h = g

\* An open socket is being used, or a timer will close it: none is left open
\* for good, however requests and releases overlap
\* (scheduleSessionWebSocketExpiry).
NoLeakedSocket ==
  \A s \in Sockets : conn[s].state = "open" => Reader(s) # {} \/ conn[s].timer

IsOver(r) == req[r].pc \in Over

=============================================================================
