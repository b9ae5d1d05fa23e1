------------------------------ MODULE FacetHost ------------------------------
(***************************************************************************)
(* Chord's facet host: facets are set up, ordered by what they require,    *)
(* activated, reloaded in place and disposed, and any of their callbacks   *)
(* may fail.                                                               *)
(*                                                                         *)
(* Every facet provides one singleton service, known by the facet's name,  *)
(* and one keyed service of which it may spawn an instance; a facet        *)
(* requires the services of others.  An instance of a facet is a pair of   *)
(* facet and version: version 0 is activated with the host, each reload    *)
(* makes the next one.  One step of the model is what the kernel does      *)
(* between two awaits.                                                     *)
(***************************************************************************)
EXTENDS Integers, Sequences, FiniteSets, SequencesExt

CONSTANTS Facets,       \* a sequence: the facets in the order they are given
          MaxReloads,   \* bound on reloads
          MaxFailures   \* bound on callbacks that fail

VARIABLES
  phase,     \* GenerationPhase
  requires,  \* facet -> the facets whose service it requires
  order,     \* activationOrder
  current,   \* #facets: facet -> version, or None
  inst,      \* <<facet, version>> -> [st, access, ready]: its FacetLifecycle
  slot,      \* facet -> the version its singleton handles are bound to, or None
  staged,    \* instances whose facet has spawned a keyed service instance
  connected, \* instances whose spawner has its installer
  keyed,     \* keyed service instances in the registry, by who spawned them
  step,      \* what the kernel's operation awaits
  todo,      \* instances it still has to activate or dispose
  errs,      \* whether a disposal failed
  reloads,   \* number of reloads so far
  failures   \* number of callbacks that have failed

vars == <<phase, requires, order, current, inst, slot, staged, connected, keyed, step, todo,
          errs, reloads, failures>>

FacetSet == {Facets[i] : i \in DOMAIN Facets}
None == -1
Versions == 0..MaxReloads
NoLifecycle == [st |-> "none", access |-> FALSE, ready |-> FALSE]

Init ==
  /\ phase = "setup"
  /\ requires \in [FacetSet -> SUBSET FacetSet]
  /\ order = <<>>
  /\ current = [f \in FacetSet |-> None]
  /\ inst = [i \in FacetSet \X Versions |-> NoLifecycle]
  /\ slot = [f \in FacetSet |-> None]
  /\ staged = {}
  /\ connected = {}
  /\ keyed = {}
  /\ step = "activate"
  /\ todo = <<>>
  /\ errs = FALSE
  /\ reloads = 0
  /\ failures = 0

Fails ==
  /\ failures < MaxFailures
  /\ failures' = failures + 1
Succeeds == UNCHANGED failures

-----------------------------------------------------------------------------
(* The order of activation. *)

\* Facets whose requirements are all placed are taken in turn.
topologicalOrder(reqs) ==
  LET Needs(f) == reqs[f] \ {f}
      Ready(s) == SelectSeq(Facets, LAMBDA f : Cardinality(Needs(f)) = 0)
      Visit(acc, n) ==
        IF acc.ready = <<>> THEN acc
        ELSE LET id    == Head(acc.ready)
                 left  == [f \in FacetSet |-> acc.left[f] - (IF id \in Needs(f) THEN 1 ELSE 0)]
                 fresh == SelectSeq(Facets, LAMBDA f : id \in Needs(f) /\ left[f] = 0)
             IN  [ready |-> Tail(acc.ready) \o fresh, left |-> left,
                  order |-> Append(acc.order, id)]
      start == [ready |-> Ready(Facets), left |-> [f \in FacetSet |-> Cardinality(Needs(f))],
                order |-> <<>>]
  IN  FoldLeft(Visit, start, Facets).order

\* The instances of the host, last activated first.
DisposalOrder ==
  LET ids == Reverse(IF order # <<>> THEN order ELSE Facets)
  IN  SelectSeq([k \in DOMAIN ids |-> <<ids[k], current[ids[k]]>>], LAMBDA i : i[2] # None)

-----------------------------------------------------------------------------
(* One facet's lifecycle. *)

\* Facets of the sequence fs are set up in turn; the k-th fails, or none (k = 0).
SetUp(fs, v, k) ==
  [i \in DOMAIN inst |->
     IF \E n \in DOMAIN fs : fs[n] = i[1] /\ i[2] = v /\ (k = 0 \/ n <= k)
     THEN [st |-> IF k # 0 /\ fs[k] = i[1] THEN "setting_up" ELSE "prepared",
           access |-> FALSE, ready |-> FALSE]
     ELSE inst[i]]

\* FacetLifecycle.activate up to the first await of a callback.
BeginActivation(i) ==
  inst' = [inst EXCEPT ![i] = [st |-> "active", access |-> TRUE, ready |-> FALSE]]

\* An active facet spawns the instance of its keyed service; it goes to the
\* registry when the facet's provision is connected.
spawn(i) ==
  /\ inst[i].st = "active"
  /\ i \notin staged
  /\ staged' = staged \cup {i}
  /\ keyed' = IF i \in connected THEN keyed \cup {i} ELSE keyed
  /\ UNCHANGED <<phase, requires, connected, order, current, inst, slot, step, todo, errs, reloads, failures>>

\* The facet closes it again.
close(i) ==
  /\ i \in staged
  /\ staged' = staged \ {i}
  /\ keyed' = keyed \ {i}
  /\ UNCHANGED <<phase, requires, connected, order, current, inst, slot, step, todo, errs, reloads, failures>>

\* FacetLifecycle.dispose of the next instance: its effects run, in reverse.
BeginDisposal ==
  /\ todo # <<>> /\ inst[Head(todo)].st \notin {"disposing", "dead"}
  /\ inst' = [inst EXCEPT ![Head(todo)].st = "disposing"]
  /\ UNCHANGED <<phase, requires, connected, order, current, slot, staged, keyed, step, todo, errs, reloads, failures>>

\* They have run, whether or not one threw.
EndDisposal ==
  /\ todo # <<>>
  /\ inst[Head(todo)].st = "disposing"
  /\ inst' = [inst EXCEPT ![Head(todo)] = [@ EXCEPT !.st = "dead", !.access = FALSE]]
  /\ staged' = staged \ {Head(todo)}
  /\ keyed' = keyed \ {Head(todo)}
  /\ todo' = Tail(todo)
  /\ \/ Succeeds /\ UNCHANGED errs
     \/ Fails /\ errs' = TRUE
  /\ UNCHANGED <<phase, requires, connected, order, current, slot, step, reloads>>

AlreadyDead ==
  /\ todo # <<>> /\ inst[Head(todo)].st = "dead"
  /\ todo' = Tail(todo)
  /\ UNCHANGED <<phase, requires, connected, order, current, inst, slot, staged, keyed, step, errs, reloads, failures>>

disposeNext ==
  /\ step \in {"terminate", "unstage", "retire"}
  /\ BeginDisposal \/ EndDisposal \/ AlreadyDead

-----------------------------------------------------------------------------
(* FacetKernel.activate. *)

terminate(disposals) ==
  /\ phase' = "disposing"
  /\ step' = "terminate"
  /\ todo' = disposals

\* Setup of all facets runs without an await.
activate(k) ==
  LET made == IF k = 0 THEN Facets ELSE SubSeq(Facets, 1, k)
  IN  /\ step = "activate" /\ phase = "setup"
      /\ inst' = SetUp(Facets, 0, k)
      /\ current' = [f \in FacetSet |-> IF \E n \in DOMAIN made : made[n] = f THEN 0 ELSE None]
      /\ IF k = 0
         THEN /\ Succeeds
              /\ phase' = "assembling"
              /\ step' = "resolve"
              /\ UNCHANGED todo
         ELSE /\ Fails
              /\ terminate(Reverse([n \in DOMAIN made |-> <<made[n], 0>>]))
      /\ UNCHANGED <<requires, connected, order, slot, staged, keyed, errs, reloads>>

\* The catalogues are there: validate, assemble the providers, bind the slots.
assemble ==
  /\ step = "resolve"
  /\ LET ids == topologicalOrder(requires)
     IN  \/ /\ Succeeds
            /\ Len(ids) = Len(Facets)
            /\ order' = ids
            /\ slot' = [f \in FacetSet |-> 0]
            /\ connected' = {<<f, 0>> : f \in FacetSet}
            /\ phase' = "connecting"
            /\ step' = "connect"
            /\ UNCHANGED todo
         \/ \* a cycle, or a catalogue that fails
            /\ IF Len(ids) # Len(Facets) THEN Succeeds ELSE Fails
            /\ terminate(DisposalOrder)
            /\ UNCHANGED <<order, slot, connected>>
  /\ UNCHANGED <<requires, current, inst, staged, keyed, errs, reloads>>

connect ==
  /\ step = "connect"
  /\ \/ /\ Succeeds
        /\ phase' = "activating"
        /\ step' = "start"
        /\ todo' = [n \in DOMAIN order |-> <<order[n], 0>>]
     \/ /\ Fails
        /\ terminate(DisposalOrder)
  /\ UNCHANGED <<requires, connected, order, current, inst, slot, staged, keyed, errs, reloads>>

\* A reload that failed before the cutover disposes all it has made.
Candidates == SelectSeq([n \in DOMAIN order |-> <<order[n], reloads>>],
                        LAMBDA i : inst[i].st # "none")

startNext ==
  /\ step \in {"start", "startCandidates"}
  /\ todo # <<>> /\ inst[Head(todo)].st = "prepared"
  /\ BeginActivation(Head(todo))
  /\ UNCHANGED <<phase, requires, connected, order, current, slot, staged, keyed, step, todo, errs, reloads, failures>>

unstage_activatedOnly ==
  /\ step' = "unstage"
  /\ todo' = SelectSeq(Reverse(Candidates), LAMBDA i : inst[i].st # "prepared")
  /\ UNCHANGED phase
unstage ==
  /\ step' = "unstage"
  /\ todo' = Reverse(Candidates)
  /\ UNCHANGED phase

startedNext ==
  /\ step \in {"start", "startCandidates"}
  /\ todo # <<>> /\ inst[Head(todo)].st = "active"
  /\ \/ /\ Succeeds
        /\ inst' = [inst EXCEPT ![Head(todo)].ready = TRUE]
        /\ todo' = Tail(todo)
        /\ UNCHANGED <<phase, step>>
     \/ /\ Fails
        /\ UNCHANGED inst
        /\ IF step = "start" THEN terminate(DisposalOrder) ELSE unstage
  /\ UNCHANGED <<requires, connected, order, current, slot, staged, keyed, errs, reloads>>

activated ==
  /\ step = "start" /\ todo = <<>>
  /\ phase' = "active"
  /\ step' = "idle"
  /\ UNCHANGED <<requires, connected, order, current, inst, slot, staged, keyed, todo, errs, reloads, failures>>

-----------------------------------------------------------------------------
(* FacetKernel.reload of the facets fs. *)

reload(fs, k) ==
  LET ids == SelectSeq(Facets, LAMBDA f : f \in fs)
  IN  /\ phase = "active" /\ step = "idle"
      /\ reloads < MaxReloads
      /\ k <= Len(ids)
      /\ reloads' = reloads + 1
      /\ phase' = "reloading"
      /\ inst' = SetUp(ids, reloads + 1, k)
      /\ IF k = 0
         THEN /\ Succeeds
              /\ step' = "startCandidates"
              /\ todo' = SelectSeq([n \in DOMAIN order |-> <<order[n], reloads + 1>>],
                                   LAMBDA i : i[1] \in fs)
         ELSE /\ Fails
              /\ step' = "unstage"
              /\ todo' = Reverse([n \in 1..k |-> <<ids[n], reloads + 1>>])
      /\ UNCHANGED <<requires, connected, order, current, slot, staged, keyed, errs>>

\* The service handles of all facets are revoked; then everything is disposed.
abort ==
  /\ inst' = [i \in DOMAIN inst |-> [inst[i] EXCEPT !.access = FALSE]]
  /\ terminate(DisposalOrder)

unstaged ==
  /\ step = "unstage" /\ todo = <<>>
  /\ IF errs THEN abort
     ELSE /\ phase' = "active"
          /\ step' = "idle"
          /\ UNCHANGED <<inst, todo>>
  /\ UNCHANGED <<requires, connected, order, current, slot, staged, keyed, errs, reloads, failures>>

cutover ==
  LET ids == {f \in FacetSet : inst[<<f, reloads>>].st # "none"}
  IN  /\ step = "startCandidates" /\ todo = <<>>
      /\ current' = [f \in FacetSet |-> IF f \in ids THEN reloads ELSE current[f]]
      /\ slot' = [f \in FacetSet |-> IF f \in ids THEN reloads ELSE slot[f]]
      /\ step' = "retire"
      /\ todo' = Reverse(SelectSeq([n \in DOMAIN order |-> <<order[n], current[order[n]]>>],
                                   LAMBDA i : i[1] \in ids))
      /\ UNCHANGED <<phase, requires, connected, order, inst, staged, keyed, errs, reloads, failures>>

\* They are retired: the candidates' keyed instances go to the registry.
retired ==
  /\ step = "retire" /\ todo = <<>>
  /\ IF errs
     THEN /\ abort
          /\ UNCHANGED <<keyed, connected>>
     ELSE /\ phase' = "active"
          /\ step' = "idle"
          /\ connected' = connected \cup {i \in DOMAIN inst : i[2] = reloads /\ current[i[1]] = reloads}
          /\ keyed' = keyed \cup {i \in staged : i[2] = reloads}
          /\ UNCHANGED <<inst, todo>>
  /\ UNCHANGED <<requires, order, current, slot, staged, errs, reloads, failures>>

-----------------------------------------------------------------------------
(* FacetKernel.dispose. *)

dispose ==
  /\ phase = "active" /\ step = "idle"
  /\ terminate(DisposalOrder)
  /\ UNCHANGED <<requires, connected, order, current, inst, slot, staged, keyed, errs, reloads, failures>>

\* Registry, bindings, slots and provider go after the facets.
terminated ==
  /\ step = "terminate" /\ todo = <<>>
  /\ phase' = "dead"
  /\ step' = "none"
  /\ current' = [f \in FacetSet |-> None]
  /\ slot' = [f \in FacetSet |-> None]
  /\ keyed' = {}
  /\ UNCHANGED <<requires, connected, order, inst, staged, todo, errs, reloads, failures>>

-----------------------------------------------------------------------------

Kernel ==
  \/ \E k \in 0..Len(Facets) : activate(k)
  \/ assemble \/ connect \/ startNext \/ startedNext \/ activated
  \/ cutover \/ retired \/ unstaged
  \/ disposeNext \/ terminated

Next ==
  \/ Kernel
  \/ \E fs \in SUBSET FacetSet \ {{}} : \E k \in 0..Len(Facets) : reload(fs, k)
  \/ dispose
  \/ \E i \in DOMAIN inst : spawn(i) \/ close(i)

Spec == Init /\ [][Next]_vars

(* The kernel goes on: callbacks of the facets return or throw.            *)
FairSpec == Spec /\ WF_vars(Kernel)

-----------------------------------------------------------------------------
(* Properties. *)

(* Whoever may use a service finds it working: while a facet has access to *)
(* its handles, in its activation and in its disposal too, every service   *)
(* it requires is bound to an instance that has been activated and that is *)
(* not being disposed, through reloads and failures (FacetKernel).         *)
HandleIsReady ==
  \A i \in DOMAIN inst : inst[i].access =>
    \A g \in requires[i[1]] \ {i[1]} :
      slot[g] # None /\ inst[<<g, slot[g]>>].ready /\ inst[<<g, slot[g]>>].st = "active"

(* A host that is active is exactly one generation: every facet's current  *)
(* instance is active and bound, and what other reloads made, successful   *)
(* or not, is disposed and has left nothing in the registry.               *)
SettledIsExact ==
  phase = "active" =>
    \A i \in DOMAIN inst :
      IF current[i[1]] = i[2]
      THEN inst[i].st = "active" /\ slot[i[1]] = i[2] /\ (i \in staged => i \in keyed)
      ELSE inst[i].st \in {"none", "dead"} /\ i \notin keyed

(* A host that is dead, after a failed start, a failed reload or dispose,  *)
(* has disposed every facet it ever set up.                                *)
DeadIsEmpty ==
  phase = "dead" => \A i \in DOMAIN inst : inst[i].st \in {"none", "dead"} /\ i \notin staged

(* The registry never holds two instances of a keyed service at once (its  *)
(* spawn refuses a second one), although a reload has the old and the new  *)
(* facet active together.                                                  *)
OneInstancePerKey == \A i, j \in keyed : i[1] = j[1] => i = j

AtRest == phase \in {"active", "dead"}

=============================================================================
