----------------------------- MODULE EventWatch -----------------------------
(***************************************************************************)
(* Replication of a lane to watchers (packages/agent/src/harness/events.ts, *)
(* Lane.watch and the publishing end of Lane.command): the global delivery *)
(* tail, buffered watchers and their resnapshot protocol.                  *)
(*                                                                         *)
(* The lane's state is the number of events published so far and event n   *)
(* turns state n - 1 into state n, so a replica that misses or repeats an  *)
(* event shows it.  A "rebase" event (navigation_end) cannot be folded:    *)
(* the client answers it by calling resnapshot() inside its listener.      *)
(* handler_error events change no state and are left out.                  *)
(***************************************************************************)
EXTENDS Naturals, Sequences, SequencesExt, FiniteSets

CONSTANTS
  Null,
  Watchers,       \* WatchHandles, each created at most once
  MaxVersion,     \* bound: events published
  MaxResnapshots  \* bound: resnapshot() calls per watcher from outside its listener

VARIABLES
  version, \* lane state: number of events published
  line,    \* watcher whose capture holds the session's mutation line, or Null
  tail,    \* HarnessEventBus.deliveryTail: bound events and barriers not yet delivered
  closed,  \* HarnessEventBus.closedError is set
  watch    \* per watcher: BufferedEventWatcher and the call its client awaits

vars == <<version, line, tail, closed, watch>>

\* `capture': "wanted" before the capture's job runs, "reading" while it holds the
\* line, "done" after; `captured': the state it cloned; `inside': the listener
\* itself awaits the resnapshot; `failed': a resnapshot was rejected; `torn': the
\* replica missed or repeated an event.
NoWatch ==
  [st |-> "none", snap |-> Null, buffer |-> <<>>, queue |-> <<>>, epoch |-> 0,
   phase |-> "none", held |-> <<>>, capture |-> "none", captured |-> Null,
   inside |-> FALSE, failed |-> FALSE, torn |-> FALSE, calls |-> 0]

Init ==
  /\ version = 0 /\ line = Null /\ tail = <<>> /\ closed = FALSE
  /\ watch = [w \in Watchers |-> NoWatch]

-----------------------------------------------------------------------------
(* Publishing.                                                             *)

\* watchListeners of the bus.
Listening == {w \in Watchers : watch[w].st \in {"buffering", "started"}}

BoundEvent(n, type) == [kind |-> "event", n |-> n, type |-> type, to |-> Listening]
Barrier(w) == [kind |-> "barrier", to |-> {w}]

\* A committing job of the line: it publishes the projection and, in the same
\* turn, binds the current listeners to its batch of events.
emitBatch(types) ==
  /\ ~closed /\ line = Null
  /\ version + Len(types) <= MaxVersion
  /\ version' = version + Len(types)
  /\ tail' = tail \o [i \in DOMAIN types |-> BoundEvent(version + i, types[i])]
  /\ UNCHANGED <<line, closed, watch>>

close == ~closed /\ closed' = TRUE /\ UNCHANGED <<version, line, tail, watch>>

\* BufferedEventWatcher.push
push(r, e) ==
  CASE r.st = "unsubscribed"   -> r
    [] r.phase = "dropping"    -> r
    [] r.phase = "holding"     -> [r EXCEPT !.held = Append(@, e)]
    [] r.st = "buffering"      -> [r EXCEPT !.buffer = Append(@, [e EXCEPT !.epoch = r.epoch])]
    [] OTHER                   -> [r EXCEPT !.queue = Append(@, [e EXCEPT !.epoch = r.epoch])]

Event(item) == [n |-> item.n, type |-> item.type, epoch |-> 0]

\* deliver: the event at the head of the tail reaches one more of its recipients.
deliver(w) ==
  /\ tail # <<>> /\ Head(tail).kind = "event" /\ w \in Head(tail).to
  /\ watch' = [watch EXCEPT ![w] = push(@, Event(Head(tail)))]
  /\ tail' = [tail EXCEPT ![1].to = @ \ {w}]
  /\ UNCHANGED <<version, line, closed>>

\* The next delivery starts once every listener of this one returned.
delivered ==
  /\ tail # <<>> /\ Head(tail).kind = "event" /\ Head(tail).to = {}
  /\ tail' = Tail(tail)
  /\ UNCHANGED <<version, line, closed, watch>>

-----------------------------------------------------------------------------
(* Watching.                                                               *)

\* A capture is of the state at which its job runs: it clones the projection and
\* reads the storage that hangs on it while no commit can intervene.
captureLaneSnapshot == version

\* Lane.watch, on the line: listen first, clone the state, then read storage.
beginWatch(w) ==
  /\ ~closed /\ line = Null /\ watch[w].st = "none"
  /\ line' = w
  /\ watch' = [watch EXCEPT ![w].st = "buffering", ![w].captured = captureLaneSnapshot, ![w].capture = "reading"]
  /\ UNCHANGED <<version, tail, closed>>

endWatch(w) ==
  /\ line = w /\ watch[w].phase = "none"
  /\ line' = Null
  /\ watch' = [watch EXCEPT ![w].snap = watch[w].captured, ![w].capture = "none"]
  /\ UNCHANGED <<version, tail, closed>>

start(w) ==
  /\ watch[w].st = "buffering" /\ watch[w].snap # Null
  /\ watch' = [watch EXCEPT ![w].st = "started", ![w].buffer = <<>>, ![w].queue = watch[w].buffer]
  /\ UNCHANGED <<version, line, tail, closed>>

unsubscribe(w) ==
  /\ w \in Listening /\ watch[w].snap # Null
  /\ watch' = [watch EXCEPT ![w].st = "unsubscribed", ![w].buffer = <<>>]
  /\ UNCHANGED <<version, line, tail, closed>>

\* resnapshot(), synchronous part: queued deliveries of the old epoch are void.
startResnapshot(r, inside) ==
  [r EXCEPT !.epoch = @ + 1, !.phase = "dropping", !.held = <<>>, !.capture = "wanted", !.inside = inside]

\* The client's listener: reduceLaneSnapshot on the handle's snapshot, or a
\* resnapshot from inside the listener where the reducer says "rebase".
fold(r, e) ==
  IF e.type = "rebase" /\ r.phase = "none" THEN startResnapshot(r, TRUE)
  ELSE [r EXCEPT !.snap = e.n, !.torn = @ \/ e.n # r.snap + 1]

\* The watcher's own delivery tail: stale epochs and unsubscribed handles are skipped.
runListener(w) ==
  LET r == watch[w]
      e == Head(r.queue)
      popped == [r EXCEPT !.queue = Tail(@)]
  IN /\ r.queue # <<>> /\ ~r.inside
     /\ watch' = [watch EXCEPT ![w] =
          IF r.st = "started" /\ e.epoch = r.epoch THEN fold(popped, e) ELSE popped]
     /\ UNCHANGED <<version, line, tail, closed>>

resnapshot(w) ==
  /\ w \in Listening /\ watch[w].snap # Null /\ watch[w].phase = "none"
  /\ watch[w].calls < MaxResnapshots
  /\ watch' = [watch EXCEPT ![w] = [startResnapshot(@, FALSE) EXCEPT !.calls = @ + 1]]
  /\ UNCHANGED <<version, line, tail, closed>>

\* The capture's job runs on the line and holds it while it reads.
beginCapture(w) ==
  /\ ~closed /\ line = Null /\ watch[w].capture = "wanted"
  /\ line' = w
  /\ watch' = [watch EXCEPT ![w].capture = "reading", ![w].captured = captureLaneSnapshot]
  /\ UNCHANGED <<version, tail, closed>>

\* markBoundary, still on the line: a barrier joins the delivery tail.
endCapture(w) ==
  /\ line = w /\ watch[w].phase # "none"
  /\ line' = Null
  /\ tail' = Append(tail, Barrier(w))
  /\ watch' = [watch EXCEPT ![w].capture = "done"]
  /\ UNCHANGED <<version, closed>>

\* markResnapshotBoundary
reachBarrier(w) ==
  /\ tail # <<>> /\ Head(tail) = Barrier(w)
  /\ tail' = Tail(tail)
  /\ watch' = [watch EXCEPT ![w].phase = IF @ = "dropping" THEN "holding" ELSE @]
  /\ UNCHANGED <<version, line, closed>>

\* The held events go where push() now puts them.
release(r) ==
  LET free == [r EXCEPT !.phase = "none", !.held = <<>>, !.capture = "none", !.inside = FALSE]
  IN  FoldLeft(push, free, r.held)

endResnapshot(w) ==
  /\ watch[w].capture = "done" /\ watch[w].phase = "holding"
  /\ watch' = [watch EXCEPT ![w] = [release(@) EXCEPT !.snap = watch[w].captured]]
  /\ UNCHANGED <<version, line, tail, closed>>

\* The capture is rejected because the harness closed: resnapshot() throws.
failResnapshot(w) ==
  /\ closed /\ watch[w].capture = "wanted"
  /\ watch' = [watch EXCEPT ![w] = [release(@) EXCEPT !.failed = TRUE]]
  /\ UNCHANGED <<version, line, tail, closed>>

-----------------------------------------------------------------------------
Progress(w) ==
  \/ deliver(w) \/ runListener(w) \/ reachBarrier(w)
  \/ endWatch(w) \/ beginCapture(w) \/ endCapture(w) \/ endResnapshot(w) \/ failResnapshot(w)

\* Nothing is under way: hosts and clients may do nothing more.
Quiet ==
  /\ tail = <<>> /\ line = Null
  /\ \A w \in Watchers : watch[w].queue = <<>> /\ watch[w].phase = "none"
  /\ UNCHANGED vars

Next ==
  \/ \E types \in SeqOf({"plain", "rebase"}, 2) \ {<<>>} : emitBatch(types)
  \/ close
  \/ delivered
  \/ \E w \in Watchers :
       \/ beginWatch(w) \/ start(w) \/ unsubscribe(w) \/ resnapshot(w)
       \/ Progress(w)
  \/ Quiet

Spec == Init /\ [][Next]_vars

\* Listeners and storage reads return; jobs of the line run.
FairSpec == Spec /\ WF_vars(delivered) /\ \A w \in Watchers : WF_vars(Progress(w)) /\ SF_vars(beginCapture(w))

-----------------------------------------------------------------------------
\* A handle whose resnapshot was not rejected folds every event once and in
\* order: snapshot plus delivered events have no gap and no duplicate, whenever
\* it was registered, started or resnapshotted.
ReplicaHasNoGap ==
  \A w \in Watchers : watch[w].torn => watch[w].failed

CaughtUp(w) == watch[w].st = "started" /\ ~watch[w].failed => watch[w].snap = version

=============================================================================
