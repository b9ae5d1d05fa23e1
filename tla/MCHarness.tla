------------------------------ MODULE MCHarness -----------------------------
(***************************************************************************)
(* Two small instances of the harness for TLC: structural operations of     *)
(* hosts that wait for a retry or do not, and run operations whose tools,   *)
(* retries and cancellations interleave.                                   *)
(***************************************************************************)
EXTENDS Structural

CONSTANTS m1, n1, gpt, gone, t1, t2

MCInitialConfig == [model |-> gpt, tools |-> ToolNames]
OneSetting == {[steering |-> "one", followUp |-> "one", execution |-> "parallel"]}
EachSetting == {[steering |-> "one", followUp |-> "one", execution |-> x] : x \in {"parallel", "sequential"}}
Callers == {[wait |-> w, poll |-> FALSE, resumed |-> FALSE] : w \in BOOLEAN}
Reply(stop, calls, retryable) == [stop |-> stop, calls |-> calls, retryable |-> retryable, validHandle |-> TRUE]
PlainAnswer == {Reply("stop", <<>>, FALSE)}
CallsAndErrors == {Reply("toolUse", <<t1, t2>>, FALSE), Reply("error", <<>>, TRUE)}
OneOutcome == {[terminate |-> TRUE, added |-> {}, metered |-> FALSE]}
Alike == Permutations(OpIds)

\* Run operations alone.
RunSpec == StructuralInit /\ [][Next /\ UNCHANGED nav]_svars

\* A summary stands for the whole branch the lane left, and a structural operation
\* moves the branch exactly when it completes (lane.ts acceptNavigation,
\* structural.ts publishStructuralOutcome).
StructuralWorkIsExact == SummaryCoversAbandoned /\ StructuralResultsExact
=============================================================================
