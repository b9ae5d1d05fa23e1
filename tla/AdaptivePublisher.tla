-------------------------- MODULE AdaptivePublisher -------------------------
(***************************************************************************)
(* The throttle in front of tool progress and streamed output              *)
(* (packages/agent/src/harness/utils/adaptive-publisher.ts).  The producer *)
(* state is one of a few values; an update is the pair of baselines it leads from and *)
(* to, so a consumer that applies updates shows whether one was lost or     *)
(* delivered twice.  Time is reduced to whether the interval bought by the  *)
(* last publication is over.                                               *)
(***************************************************************************)
EXTENDS Naturals

CONSTANTS
  Values,       \* states of the producer
  MaxFaults     \* bound: deliveries that throw or reenter the producer

VARIABLES
  value,     \* the producer's state
  published, \* #published: baseline of the next update
  dirty,     \* #dirty
  hot,       \* now < #nextEmitAt
  timer,     \* #timer is armed
  disposed,  \* #disposed
  consumer,  \* what the updates the consumer got add up to
  torn,      \* history: an update did not start at the consumer's state
  faults     \* deliveries that threw or reentered so far

vars == <<value, published, dirty, hot, timer, disposed, consumer, torn, faults>>

Init ==
  /\ value = 0 /\ published = 0 /\ consumer = 0
  /\ dirty = FALSE /\ hot = FALSE /\ timer = FALSE /\ disposed = FALSE
  /\ torn = FALSE /\ faults = 0

\* The consumer applies the update from the old baseline to `to'.
Apply(from, to) == consumer' = to /\ torn' = (torn \/ from # consumer)

\* flush past its tests: nothing to send clears the mark; otherwise the baseline
\* is committed, an interval is bought and the update delivered.  The consumer
\* may throw after applying it, or reenter the producer: markDirty() then finds
\* the interval open and arms the timer.
Publish(now) ==
  /\ published' = now
  /\ IF now = published
     THEN dirty' = FALSE /\ timer' = FALSE /\ value' = now /\ UNCHANGED <<hot, consumer, torn, faults>>
     ELSE /\ Apply(published, now)
          /\ hot' = TRUE
          /\ \/ value' = now /\ dirty' = FALSE /\ timer' = FALSE /\ UNCHANGED faults
             \/ /\ faults < MaxFaults /\ faults' = faults + 1
                /\ \/ value' = now /\ dirty' = FALSE /\ timer' = FALSE
                   \/ value' \in Values /\ dirty' = TRUE /\ timer' = TRUE

\* A mutation followed by markDirty().
markDirty(v) ==
  /\ ~disposed
  /\ IF ~hot THEN Publish(v) /\ UNCHANGED disposed
     ELSE /\ value' = v /\ dirty' = TRUE /\ timer' = TRUE
          /\ UNCHANGED <<published, hot, disposed, consumer, torn, faults>>

\* flush(), flush(true) and the timer's callback.
flush(force) ==
  /\ ~disposed /\ dirty
  /\ IF ~force /\ hot
     THEN timer' = TRUE /\ UNCHANGED <<value, published, dirty, hot, consumer, torn, faults>>
     ELSE Publish(value)
  /\ UNCHANGED disposed

fireTimer ==
  /\ timer /\ ~hot
  /\ IF ~dirty THEN timer' = FALSE /\ UNCHANGED <<value, published, dirty, hot, disposed, consumer, torn, faults>>
     ELSE flush(FALSE)

dispose ==
  /\ ~disposed
  /\ disposed' = TRUE /\ timer' = FALSE
  /\ UNCHANGED <<value, published, dirty, hot, consumer, torn, faults>>

\* The interval bought by the last publication ends.
elapse == hot /\ hot' = FALSE /\ UNCHANGED <<value, published, dirty, timer, disposed, consumer, torn, faults>>

\* No mutation is due, nothing is pending.
Rest == (disposed \/ ~dirty) /\ UNCHANGED vars

Next ==
  \/ \E v \in Values : markDirty(v)
  \/ \E force \in BOOLEAN : flush(force)
  \/ fireTimer \/ dispose \/ elapse \/ Rest

\* Timers fire and time passes; nothing obliges the producer to call again.
Spec == Init /\ [][Next]_vars /\ WF_vars(fireTimer) /\ WF_vars(elapse)

-----------------------------------------------------------------------------
\* Updates are differences: whatever throws or reenters while one is delivered,
\* each starts exactly where the consumer is.
UpdatesChain == ~torn /\ consumer = published

Outdated == dirty
Published == consumer = value \/ disposed

=============================================================================
