--------------------------- MODULE MCArtifactRecipe ---------------------------
(* Small instances of ArtifactRecipe for TLC. *)
EXTENDS ArtifactRecipe, TLC

CONSTANTS draft1, draft2, draft3, draft4, lint, style, judge

\* An optional style check between two required ones.
MCDeterministic == <<style, lint>>
MCSemantic == <<judge>>
MCSupports == lint :> {"body"} @@ style :> {"title"} @@ judge :> {"body"}
===============================================================================
