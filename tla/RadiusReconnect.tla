--------------------------- MODULE RadiusReconnect ---------------------------
(***************************************************************************)
(* RadiusClientReconnect: a client that connects again after it lost its   *)
(* server, and attaches to the session it last had selected.               *)
(***************************************************************************)
EXTENDS Integers, Sequences

CONSTANTS Sessions,      \* sessions of the server
          MaxDrops,      \* bound on lost connections
          MaxAttaches,   \* bound on what the user selects
          MayRemove,     \* sessions may be removed while the client is away
          FailsAtOnce    \* the connection may fail in the chunk that holds the server's hello

NoSession == "none"
VARIABLES
  state,       \* connectionState
  loop,        \* #runReconnect: "none", or where it waits
  desired,     \* #desiredSessionId
  attachment,  \* client.attachment
  requests,    \* attach requests the server has still to handle
  sessions,    \* the server's sessions
  disposed,
  chosen,      \* history variable: the session the user last attached to and has not left
  drops, attaches

vars == <<state, loop, desired, attachment, requests, sessions, disposed, chosen, drops, attaches>>

Init ==
  /\ state = "connected" /\ loop = "none"
  /\ desired = NoSession /\ attachment = NoSession
  /\ requests = <<>> /\ chosen = NoSession
  /\ sessions = Sessions
  /\ disposed = FALSE
  /\ drops = 0 /\ attaches = 0

-----------------------------------------------------------------------------
(* The connection. *)

\* The listener of the connection's state, once attachment and requests are gone.
StartReconnect(l) == IF disposed \/ l # "none" THEN l ELSE "delay"

\* The listener of the attachment.
DesiredAfter(a, connected) == IF a # NoSession \/ connected THEN a ELSE desired

Disconnected ==
  /\ state' = "disconnected"
  /\ attachment' = NoSession
  /\ requests' = <<>>
  /\ desired' = IF attachment = NoSession THEN desired ELSE DesiredAfter(NoSession, FALSE)

drop ==
  /\ drops < MaxDrops
  /\ state = "connected" /\ (loop = "resume" => FailsAtOnce)
  /\ Disconnected
  /\ loop' = IF loop = "reattach" THEN "delay" ELSE StartReconnect(loop)
  /\ drops' = drops + 1
  /\ UNCHANGED <<sessions, disposed, chosen, attaches>>

\* client.reconnect() after the delay
reconnect ==
  /\ loop = "delay"
  /\ IF disposed THEN loop' = "none" /\ UNCHANGED state
     ELSE loop' = "connect" /\ state' = "connecting"
  /\ UNCHANGED <<desired, attachment, requests, sessions, disposed, chosen, drops, attaches>>

\* The handshake resolves; the loop goes on in a later turn.
handshake ==
  /\ state = "connecting"
  /\ state' = "connected" /\ loop' = "resume"
  /\ UNCHANGED <<desired, attachment, requests, sessions, disposed, chosen, drops, attaches>>
connectFails ==
  /\ state = "connecting" /\ drops < MaxDrops
  /\ state' = "disconnected" /\ loop' = "delay"
  /\ drops' = drops + 1
  /\ UNCHANGED <<desired, attachment, requests, sessions, disposed, chosen, attaches>>

resume ==
  /\ loop = "resume"
  /\ IF desired = NoSession THEN loop' = "none" /\ UNCHANGED requests
     ELSE IF state = "connected" THEN loop' = "reattach" /\ requests' = Append(requests, [session |-> desired, again |-> TRUE])
     ELSE loop' = "delay" /\ UNCHANGED requests
  /\ UNCHANGED <<state, desired, attachment, sessions, disposed, chosen, drops, attaches>>

-----------------------------------------------------------------------------
(* Attachments. *)

select(s) ==
  /\ attaches < MaxAttaches
  /\ state = "connected" /\ loop # "resume"
  /\ s \in sessions
  /\ requests' = Append(requests, [session |-> s, again |-> FALSE])
  /\ attaches' = attaches + 1
  /\ UNCHANGED <<state, loop, desired, attachment, sessions, disposed, chosen, drops>>

\* The server handles a request: the attachment changes, or the session is not
\* there; then a reattachment gives the connection up.
attach ==
  /\ requests # <<>>
  /\ LET q == Head(requests) IN
     IF q.session \in sessions
     THEN /\ attachment' = q.session /\ desired' = DesiredAfter(q.session, TRUE)
          /\ chosen' = IF q.again THEN chosen ELSE q.session
          /\ requests' = Tail(requests)
          /\ loop' = IF q.again THEN "none" ELSE loop
          /\ UNCHANGED state
     ELSE /\ IF q.again THEN Disconnected /\ loop' = "delay"
             ELSE requests' = Tail(requests) /\ UNCHANGED <<state, loop, desired, attachment>>
          /\ UNCHANGED chosen
  /\ UNCHANGED <<sessions, disposed, drops, attaches>>

detach ==
  /\ state = "connected" /\ attachment # NoSession /\ requests = <<>>
  /\ attachment' = NoSession /\ desired' = DesiredAfter(NoSession, TRUE) /\ chosen' = NoSession
  /\ UNCHANGED <<state, loop, requests, sessions, disposed, drops, attaches>>

\* A session is removed; a client attached to it is told.
remove(s) ==
  /\ s \in sessions
  /\ (state = "connected" /\ loop = "none" /\ requests = <<>>) \/ MayRemove
  /\ sessions' = sessions \ {s}
  /\ IF state = "connected" /\ attachment = s
     THEN attachment' = NoSession /\ desired' = DesiredAfter(NoSession, TRUE) /\ chosen' = NoSession
     ELSE UNCHANGED <<attachment, desired, chosen>>
  /\ UNCHANGED <<state, loop, requests, disposed, drops, attaches>>

dispose ==
  /\ ~disposed
  /\ disposed' = TRUE
  /\ Disconnected
  /\ loop' = "none"
  /\ UNCHANGED <<sessions, chosen, drops, attaches>>

Back == disposed \/ (state = "connected" /\ loop = "none")

Rest == Back /\ UNCHANGED vars

Work == reconnect \/ handshake \/ resume \/ attach

Next ==
  \/ Work \/ drop \/ connectFails \/ detach \/ dispose
  \/ \E s \in Sessions : select(s) \/ remove(s)
  \/ Rest

Spec == Init /\ [][Next]_vars
FairSpec == Spec /\ WF_vars(Work)

-----------------------------------------------------------------------------
(* Properties. *)

\* A client that has lost its server, and is not disposed of, is going to
\* connect again (#startReconnect, #runReconnect).
DisconnectedIsRetried == state = "disconnected" /\ ~disposed => loop # "none"

\* Once connected again, the client is attached to the session its user last
\* attached to, as long as that session is there (#desiredSessionId).
RestoresLast ==
  state = "connected" /\ loop = "none" /\ requests = <<>> /\ chosen \in sessions \cup {NoSession}
    => attachment = chosen

=============================================================================
