---------------------------- MODULE MCPlannerLoop ----------------------------
(* Small instances of PlannerLoop for TLC. *)
EXTENDS PlannerLoop, TLC

CONSTANTS s1, a, b, c, chain, cycle, pair

\* A plan listed in another order than its dependencies, one with a cycle, and one
\* whose second step uses a step it does not declare.
MCSteps == chain :> <<c, a, b>> @@ cycle :> <<a, b>> @@ pair :> <<a, b>>

MCDependsOn ==
  chain :> (a :> {} @@ b :> {a} @@ c :> {a, b})
  @@ cycle :> (a :> {b} @@ b :> {a})
  @@ pair :> (a :> {} @@ b :> {})

MCUses ==
  chain :> (a :> {s1} @@ b :> {a} @@ c :> {s1})
  @@ cycle :> (a :> {} @@ b :> {})
  @@ pair :> (a :> {s1} @@ b :> {a})
==============================================================================
