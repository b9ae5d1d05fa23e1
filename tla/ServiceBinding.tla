--------------------------- MODULE ServiceBinding ---------------------------
(***************************************************************************)
(* A remote service of Chord from its providers to one consumer binding    *)
(* (packages/chord/src/services/provider.ts, consumer.ts, instances.ts,    *)
(* state.ts).  Each target (a session the client may be attached to) has a *)
(* provider; instances of a keyed service are spawned and closed there, a  *)
(* singleton is replaced and withdrawn, and the replicated state of an     *)
(* instance changes.  The consumer is rebound when the target changes; the *)
(* subscriptions it made for earlier revisions end on their own time.      *)
(*                                                                         *)
(* A subscription's transport keeps order: its snapshot, then the updates, *)
(* which are delivered once it is activated (see Protocol).                *)
(***************************************************************************)
EXTENDS Integers, Sequences, FiniteSets

CONSTANTS Targets, Keys,
          Keyed,             \* a keyed service, or a singleton (with one key)
          MaxChanges,        \* changes at the providers
          MaxRebinds, MaxObservers,
          ObserveAnytime     \* observers may come while a rebind is under way, as the code
                             \* allows; FALSE restricts the callers of observe

VARIABLES prov,       \* the instances of each provider
          changes,    \* changes made so far
          sub,        \* the subscriptions ever made
          cons,       \* the consumer's binding
          rebinds,    \* rebind calls still under way
          fault       \* an assertion of the consumer failed

vars == <<prov, changes, sub, cons, rebinds, fault>>

Subs == 1..Len(sub)

\* No instance: a key that is not known.
None == [gen |-> 0, seq |-> 0]

Live(t) == {k \in Keys : prov[t][k].live}

Init ==
  /\ prov = [t \in Targets |-> [k \in Keys |-> [gen |-> 1, seq |-> 0, live |-> ~Keyed]]]
  /\ changes = 0
  /\ sub = <<>> /\ rebinds = {} /\ fault = FALSE
  /\ cons = [target |-> CHOOSE t \in Targets : TRUE, bound |-> TRUE, rev |-> 0,
             observers |-> 0, calls |-> 0, moves |-> 0, starting |-> 0, sub |-> 0,
             inst |-> [k \in Keys |-> None], from |-> [k \in Keys |-> 0]]

(***************************************************************************)
(* The provider.                                                           *)
(***************************************************************************)
\* #emit: every subscriber of the provider, in the order of its changes.
Emitted(t, m) ==
  [s \in Subs |-> IF sub[s].target = t /\ sub[s].source
                  THEN [sub[s] EXCEPT !.chan = Append(@, m)] ELSE sub[s]]

change(t, k, i, type) ==
  /\ changes < MaxChanges /\ changes' = changes + 1
  /\ prov' = [prov EXCEPT ![t][k] = i]
  /\ sub' = Emitted(t, [type |-> type, key |-> k, gen |-> i.gen, seq |-> i.seq])
  /\ UNCHANGED <<cons, rebinds, fault>>

\* spawn, or provide and replace for a singleton: a new generation, whose
\* state begins its sequence afresh.
spawn(t, k) ==
  /\ Keyed => ~prov[t][k].live
  /\ change(t, k, [gen |-> prov[t][k].gen + 1, seq |-> 0, live |-> TRUE], "spawned")

\* The close returned by spawn, or withdraw.
closeInstance(t, k) ==
  prov[t][k].live /\ change(t, k, [prov[t][k] EXCEPT !.live = FALSE], "closed")

publish(t, k) ==
  prov[t][k].live /\ change(t, k, [prov[t][k] EXCEPT !.seq = @ + 1], "state")

\* subscribe and activate, with the snapshot taken between; a singleton must
\* have its provider.
answer(s) ==
  LET t == sub[s].target
  IN /\ sub[s].phase = "requested"
     /\ sub' = IF ~Keyed /\ Live(t) = {}
               THEN [sub EXCEPT ![s].phase = "failed"]
               ELSE [sub EXCEPT ![s].phase = "answered", ![s].source = TRUE,
                                ![s].snap = [k \in Keys |-> IF k \in Live(t)
                                                            THEN [gen |-> prov[t][k].gen,
                                                                  seq |-> prov[t][k].seq]
                                                            ELSE None]]
     /\ UNCHANGED <<prov, changes, cons, rebinds, fault>>

(***************************************************************************)
(* The consumer.                                                           *)
(***************************************************************************)
Subscription(rev) ==
  [target |-> cons'.target, rev |-> rev, phase |-> "requested", source |-> FALSE,
   snap |-> [k \in Keys |-> None], chan |-> <<>>]

\* What a subscription made for revision rev may still do.
Current_bound(rev) == cons.bound /\ cons.observers > 0

Current(rev) == cons.rev = rev /\ cons.bound /\ cons.observers > 0

\* Whether an observer starts the binding.
Starts == cons.bound /\ cons.starting = 0

\* use, once, or observe.  The first one makes the binding; a later observer
\* of a keyed service starts the binding when no start is known.  One that
\* comes while a rebind waits for the old subscription finds none, since it
\* was cleared, and the rebind then starts a second one of the same revision.
observe ==
  /\ cons.calls < MaxObservers
  /\ ObserveAnytime \/ rebinds = {}
  /\ Keyed \/ cons.calls = 0
  /\ IF Starts
     THEN /\ cons' = [cons EXCEPT !.calls = @ + 1, !.observers = @ + 1, !.starting = Len(sub) + 1]
          /\ sub' = Append(sub, Subscription(cons.rev))
     ELSE /\ cons' = [cons EXCEPT !.calls = @ + 1, !.observers = @ + 1]
          /\ UNCHANGED sub
  /\ UNCHANGED <<prov, changes, rebinds, fault>>

Closing(s) == IF s = 0 THEN sub ELSE [sub EXCEPT ![s].phase = "closing"]

Cleared == [cons EXCEPT !.rev = @ + 1, !.sub = 0, !.starting = 0,
                        !.inst = [k \in Keys |-> None]]

\* The last observer goes, and the binding with it; or the binding is disposed.
close ==
  /\ cons.observers = 1
  /\ cons' = [Cleared EXCEPT !.observers = 0]
  /\ sub' = Closing(cons.sub)
  /\ UNCHANGED <<prov, changes, rebinds, fault>>

\* Another observer remains.
unobserve ==
  /\ Keyed /\ cons.observers > 1
  /\ cons' = [cons EXCEPT !.observers = @ - 1]
  /\ UNCHANGED <<prov, changes, sub, rebinds, fault>>

Queued(s) == sub[s].chan

Overtaken(s) == [sub EXCEPT ![s].phase = "closing"]

\* The instances the answer came with.
Snapshot(s) == sub[s].snap

\* subscribe has resolved: the subscription is installed, or closed when it
\* comes for a revision that has passed.  #spawn refuses a generation that is
\* already live.
started(s) ==
  LET q == Snapshot(s)
      known == {k \in Keys : q[k].gen # 0}
      repeats == Keyed /\ \E k \in known : cons.inst[k].gen = q[k].gen
  IN /\ sub[s].phase = "answered"
     /\ IF ~Current(sub[s].rev)
        THEN sub' = Overtaken(s) /\ UNCHANGED <<cons, fault>>
        ELSE IF repeats
        THEN /\ fault' = TRUE /\ cons' = [cons EXCEPT !.sub = s]
             /\ sub' = [sub EXCEPT ![s].phase = "stuck"]
        ELSE /\ cons' = [cons EXCEPT !.sub = s,
                                     !.inst = [k \in Keys |-> IF k \in known THEN q[k] ELSE @[k]],
                                     !.from = [k \in Keys |-> IF k \in known THEN s ELSE @[k]]]
             /\ sub' = [sub EXCEPT ![s].phase = "live", ![s].chan = Queued(s)] /\ UNCHANGED fault
     /\ UNCHANGED <<prov, changes, rebinds>>

\* One update.  A keyed state update for another generation is dropped, a gap
\* in the sequence clears the replica, and a late close of an older generation
\* leaves the newer one alone.
SameInstance(m) == cons.inst[m.key].gen = m.gen

Applied(m) ==
  CASE m.type = "spawned" -> [gen |-> m.gen, seq |-> m.seq]
    [] m.type = "closed"  -> IF Keyed /\ ~SameInstance(m) THEN cons.inst[m.key] ELSE None
    [] m.type = "state"   -> IF ~SameInstance(m) THEN cons.inst[m.key]
                             ELSE IF m.seq = cons.inst[m.key].seq + 1
                             THEN [gen |-> m.gen, seq |-> m.seq] ELSE None

\* An update does not fit what the consumer holds.
Misfit(m) ==
  \/ Keyed /\ m.type = "spawned" /\ SameInstance(m)
  \/ m.type = "state" /\ SameInstance(m) /\ m.seq # cons.inst[m.key].seq + 1
  \/ ~Keyed /\ m.type = "state" /\ ~SameInstance(m)

deliver(s) ==
  LET m == Head(sub[s].chan)
  IN /\ sub[s].phase \in {"live", "closing"} /\ sub[s].chan # <<>>
     /\ sub' = [sub EXCEPT ![s].chan = Tail(@)]
     /\ IF Current(sub[s].rev)
        THEN /\ cons' = [cons EXCEPT !.inst[m.key] = IF Misfit(m) THEN None ELSE Applied(m),
                                     !.from[m.key] = s]
             /\ fault' = (fault \/ Misfit(m))
        ELSE UNCHANGED <<cons, fault>>
     /\ UNCHANGED <<prov, changes, rebinds>>

\* The transport has closed the subscription.
closed(s) ==
  /\ sub[s].phase = "closing"
  /\ sub' = [sub EXCEPT ![s].phase = "closed", ![s].source = FALSE, ![s].chan = <<>>,
                      ![s].snap = [k \in Keys |-> None]]
  /\ UNCHANGED <<prov, changes, cons, rebinds, fault>>

\* rebind: what was known is cleared at once; the rest waits for the old
\* subscription to be closed.
rebind(b, t) ==
  /\ cons.calls > 0 /\ cons.moves < MaxRebinds
  /\ LET c == IF cons.observers > 0 THEN Cleared ELSE cons
     IN cons' = [c EXCEPT !.bound = b, !.target = t, !.moves = @ + 1]
  /\ IF cons.observers > 0
     THEN /\ sub' = Closing(cons.sub)
          /\ rebinds' = rebinds \cup {[rev |-> cons'.rev, bound |-> b, wait |-> cons.sub]}
     ELSE UNCHANGED <<sub, rebinds>>
  /\ UNCHANGED <<prov, changes, fault>>

\* The keyed binding looks again before it starts; a singleton subscribes and
\* finds out afterwards.
Restarts(p) == p.bound /\ (Keyed => Current(p.rev))

rebound(p) ==
  /\ p \in rebinds /\ (p.wait # 0 => sub[p.wait].phase = "closed")
  /\ rebinds' = rebinds \ {p}
  /\ IF Restarts(p)
     THEN /\ cons' = [cons EXCEPT !.starting = IF Keyed \/ p.rev = cons.rev THEN Len(sub) + 1 ELSE @]
          /\ sub' = Append(sub, Subscription(p.rev))
     ELSE UNCHANGED <<cons, sub>>
  /\ UNCHANGED <<prov, changes, fault>>

----------------------------------------------------------------------------
Provider(t, k) == spawn(t, k) \/ closeInstance(t, k) \/ publish(t, k)

Steps(s) == answer(s) \/ started(s) \/ deliver(s) \/ closed(s)

Quiet ==
  /\ rebinds = {}
  /\ \A s \in Subs : /\ sub[s].phase \notin {"requested", "answered", "closing"}
                     /\ sub[s].phase = "live" => sub[s].chan = <<>>

rest == Quiet /\ UNCHANGED vars

Next ==
  \/ \E t \in Targets, k \in Keys : Provider(t, k)
  \/ observe \/ unobserve \/ close \/ rest
  \/ \E b \in BOOLEAN, t \in Targets : rebind(b, t)
  \/ \E s \in Subs : Steps(s)
  \/ \E p \in rebinds : rebound(p)

Spec == Init /\ [][Next]_vars

----------------------------------------------------------------------------
(* What the consumer shows always comes from a subscription of the current
   revision, so from the target it is bound to: updates that an earlier
   subscription still delivers are dropped. *)
NoStaleReplica ==
  \A k \in Keys : cons.inst[k] # None =>
    cons.from[k] # 0 /\ sub[cons.from[k]].rev = cons.rev /\ cons.bound

(* When nothing is under way a bound consumer with observers holds exactly the
   live instances of its target, at their last sequence.  This and the next two
   need observers that do not come while a rebind is under way. *)
ReplicaIsCurrent ==
  (Quiet /\ cons.sub # 0) =>
    \A k \in Keys : cons.inst[k] = IF k \in Live(sub[cons.sub].target)
                                   THEN [gen |-> prov[sub[cons.sub].target][k].gen,
                                         seq |-> prov[sub[cons.sub].target][k].seq]
                                   ELSE None

(* When nothing is under way the providers serve no subscription but the one
   the consumer holds: rebinds that overtake each other leave none behind. *)
NoOrphans ==
  Quiet => \A s \in Subs : sub[s].source => s = cons.sub

(* The consumer's assertions hold: no live generation is repeated and no
   sequence has a gap. *)
NoMisfit == ~fault
=============================================================================
