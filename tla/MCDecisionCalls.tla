--------------------------- MODULE MCDecisionCalls ---------------------------
(* Small instances of DecisionCalls for TLC. *)
EXTENDS DecisionCalls, TLC

CONSTANTS d1, d2, s1, s2

\* Both decisions read s1, the second s2 too.
SharedInputs == [d \in Decisions |-> IF d = d1 THEN {s1} ELSE {s1, s2}]
==============================================================================
