------------------------ MODULE OperationLifecycle ------------------------
(***************************************************************************)
(* What a lane promises about its operations, whatever happens inside a    *)
(* pass: one is open at a time; it ends once, with one immutable status; a *)
(* recorded cancellation is never withdrawn and ends as "aborted"; only a   *)
(* recorded cancellation does.  Modules Harness and Structural implement it; *)
(* only a structural operation is ever declined.                           *)
(***************************************************************************)
CONSTANT Ops    \* operation ids

VARIABLE phase  \* phase of each operation

Open == {"running", "cancelling"}
Ended == {"completed", "failed", "declined", "aborted"}
Phases == {"absent"} \cup Open \cup Ended

Init == phase = [op \in Ops |-> "absent"]

Accept(op) ==
  /\ phase[op] = "absent"
  /\ \A other \in Ops : phase[other] \notin Open
  /\ phase' = [phase EXCEPT ![op] = "running"]

Cancel(op) ==
  /\ phase[op] = "running"
  /\ phase' = [phase EXCEPT ![op] = "cancelling"]

Settle(op) ==
  \/ /\ phase[op] = "running"
     /\ \E status \in Ended \ {"aborted"} : phase' = [phase EXCEPT ![op] = status]
  \/ /\ phase[op] = "cancelling"
     /\ phase' = [phase EXCEPT ![op] = "aborted"]

Next == \E op \in Ops : Accept(op) \/ Cancel(op) \/ Settle(op)

Spec == Init /\ [][Next]_phase
=============================================================================
