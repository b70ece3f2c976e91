------------------------------ MODULE MCAgentRun ------------------------------
(* Small instances of AgentRun for TLC. *)
EXTENDS AgentRun, TLC

CONSTANTS p1, p2, t1, t2, j1, c1, s1

\* A tool, a conditional judgment over its output, a tool after the judgment, and
\* an independent choice over the candidates of p1, beside a second provider.
GraphOrder == <<t1, c1, j1, t2>>
GraphDependsOn == t1 :> {} @@ c1 :> {} @@ j1 :> {t1} @@ t2 :> {j1}
GraphEvidence == t1 :> {} @@ c1 :> {s1} @@ j1 :> {t1} @@ t2 :> {j1}
OneChoice == c1 :> p1
ChoiceSubjects == c1 :> "claim"
===============================================================================
