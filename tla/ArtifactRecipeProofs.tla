------------------------- MODULE ArtifactRecipeProofs -------------------------
(***************************************************************************)
(* What the recipe keeps for any checks, contract and generator: semantic  *)
(* checks only after the exact ones of the same artifact passed, and a     *)
(* result only on its own, current evidence; and that every step gets on.  *)
(***************************************************************************)
EXTENDS ArtifactRecipe, TLAPS

\* Findings are only added, and the ones of a plan whose required checks all
\* passed name each of them for the current artifact.
LEMMA PassedAreFound ==
  ASSUME Failing = {}
  PROVE  \A c \in RequiredChecks \cap Range(Plan) : <<current, c>> \in Found.passed
  <1>1. \A c \in RequiredChecks \cap Range(Plan) : outcomes[c] = "passed"
    BY DEF Failing
  <1> QED
    BY <1>1 DEF Found

\* A plan the recipe looks at has findings of its own artifact when the next stage
\* begins, and goes back to the generator otherwise.
LEMMA LookKeeps ==
  ASSUME ExactChecksFirst, LookAtChecks
  PROVE  ExactChecksFirst'
  <1>1. findings.passed \subseteq findings'.passed /\ current' = current
    BY DEF LookAtChecks, Found
  <1>2. CASE Failing # {}
    BY <1>2 DEF LookAtChecks, GoesTo, ExactChecksFirst
  <1>3. CASE Failing = {} /\ stage = "semantic"
    <2>1. \A c \in RequiredChecks \cap Range(Deterministic) : <<current, c>> \in findings.passed
      BY <1>3 DEF ExactChecksFirst
    <2> QED
      BY <2>1, <1>1 DEF ExactChecksFirst
  <1>4. CASE Failing = {} /\ stage = "deterministic"
    <2>1. Plan = Deterministic /\ findings' = Found
      BY <1>4 DEF Plan, LookAtChecks
    <2> QED
      BY <1>1, <1>4, <2>1, PassedAreFound DEF ExactChecksFirst
  <1> QED
    BY <1>2, <1>3, <1>4 DEF LookAtChecks

\* A new artifact starts with its exact checks, if there are any.
LEMMA GenerateKeeps ==
  ASSUME ExactChecksFirst, NEW a, Generate(a)
  PROVE  ExactChecksFirst'
  <1>1. CASE a \in digests
    BY <1>1 DEF Generate, GoesTo, ExactChecksFirst
  <1>2. CASE a \notin digests /\ Deterministic # <<>>
    BY <1>2 DEF Generate, GoesTo, FirstStage, ExactChecksFirst
  <1>3. CASE Deterministic = <<>>
    <2>1. Range(Deterministic) = {}
      BY <1>3 DEF Range
    <2> QED
      BY <2>1 DEF ExactChecksFirst
  <1> QED
    BY <1>1, <1>2, <1>3

\* The other steps leave the stage, the artifact and the findings, or stop.
LEMMA StepKeeps == ExactChecksFirst /\ [Next]_vars => ExactChecksFirst'
  <1> SUFFICES ASSUME ExactChecksFirst, [Next]_vars PROVE ExactChecksFirst'
    OBVIOUS
  <1>1. ASSUME NEW a \in Artifacts, Generate(a) PROVE ExactChecksFirst'
    BY <1>1, GenerateKeeps
  <1>2. CASE LookAtChecks
    BY <1>2, LookKeeps
  <1>3. CASE GeneratorFails \/ EngineStops
    BY <1>3 DEF GeneratorFails, EngineStops, GoesTo, ExactChecksFirst
  <1>4. ASSUME UNCHANGED <<stage, current, findings>> PROVE ExactChecksFirst'
    BY <1>4 DEF ExactChecksFirst
  <1> QED
    BY <1>1, <1>2, <1>3, <1>4
    DEF Next, Advance, RunCheck, Complete, Invalidate, Finished, vars

\* Semantic checks, which call the model, run only on an artifact that passed all
\* required exact ones itself (planner.next and _checks of the recipe).
THEOREM ExactChecksComeFirst == Spec => []ExactChecksFirst
  <1>1. Init => ExactChecksFirst
    BY DEF Init, ExactChecksFirst
  <1> QED
    BY <1>1, StepKeeps, PTL DEF Spec

\* A run completes with the current artifact, which passed every required check
\* itself, on records that are current in that step (accepts of the recipe).
THEOREM AcceptedOnOwnEvidence == Spec => AcceptedOnItsOwnEvidence
  <1> DEFINE A == result'.how = "completed" /\ result.how # "completed" =>
                    /\ result'.value = current /\ Current(current, Artifact)
                    /\ \A c \in RequiredChecks :
                         <<current, c>> \in findings.passed /\ Current(current, c)
  <1>1. [Next]_vars => [A]_vars
    <2> SUFFICES ASSUME [Next]_vars, result'.how = "completed", result.how # "completed"
                 PROVE  A
      OBVIOUS
    <2>1. CASE Complete
      BY <2>1, SMTT(30) DEF Complete, Ends, Accepts
    <2>2. ASSUME NEW a \in Artifacts, Generate(a) PROVE FALSE
      BY <2>2 DEF Generate, Ends
    <2>3. CASE GeneratorFails \/ LookAtChecks \/ EngineStops
      BY <2>3 DEF GeneratorFails, LookAtChecks, EngineStops, Ends
    <2>4. CASE UNCHANGED result
      BY <2>4
    <2> QED
      BY <2>1, <2>2, <2>3, <2>4 DEF Next, Advance, RunCheck, Invalidate, Finished, vars
  <1> QED
    BY <1>1, PTL DEF Spec, AcceptedOnItsOwnEvidence

-----------------------------------------------------------------------------
(* Progress, as far as it can be stated of steps. *)

\* The stages in the order in which one artifact passes through them: what sends
\* it back to the generator comes after the checks.
Stage ==
  [deterministic |-> 0, semantic |-> 1, generation |-> 2, complete |-> 3, stopped |-> 4]

\* A new artifact, a later stage of this one, another check of its plan, or the end.
GetsOn ==
  \/ revisions' = revisions + 1
  \/ revisions' = revisions /\ Stage[stage'] > Stage[stage]
  \/ revisions' = revisions /\ stage' = stage /\ position' = position + 1
  \/ result.how = "none" /\ result'.how # "none"

\* Every step of the recipe gets it on; the host leaves it where it is.
Advances ==
  /\ Advance \/ EngineStops => GetsOn
  /\ GetsOn \/ UNCHANGED <<revisions, stage, position, result>>

\* Nothing of this goes on without end: artifacts are limited, and so are checks.
Bounded ==
  /\ stage \in DOMAIN Stage
  /\ revisions \in 0..MaxRevisions /\ (stage = "generation" => revisions < MaxRevisions)
  /\ stage \in {"deterministic", "semantic"} =>
       position \in 1..(Len(Plan) + 1) /\ (running => position <= Len(Plan))

\* The bounds hold at the start, ...
LEMMA StartsBounded == Init => Bounded
BY RecipeAssumption DEF Init, Bounded, Stage

\* A stage is entered only for a plan with checks in it.
LEMMA FirstStages ==
  ASSUME NEW next \in {"deterministic", "semantic", "generation", "complete", "stopped"},
         GoesTo(next),
         next = "deterministic" => Deterministic # <<>>,
         next = "semantic" => Semantic # <<>>,
         revisions' \in 0..MaxRevisions,
         next = "generation" => revisions' < MaxRevisions
  PROVE  Bounded'
<1>1. Len(Deterministic) \in Nat /\ Len(Semantic) \in Nat
  BY RecipeAssumption
<1>2. /\ Deterministic # <<>> => Len(Deterministic) >= 1
      /\ Semantic # <<>> => Len(Semantic) >= 1
  BY RecipeAssumption
<1>3. stage' = next /\ position' = 1
  BY DEF GoesTo
<1>4. stage' = "deterministic" => Len(Plan)' = Len(Deterministic)
  BY DEF Plan
<1>5. stage' = "semantic" => Len(Plan)' = Len(Semantic)
  BY DEF Plan
<1> QED BY <1>1, <1>2, <1>3, <1>4, <1>5 DEF Bounded, Stage

\* ... and after every step.
LEMMA StaysBounded == Bounded /\ [Next]_vars => Bounded'
<1> SUFFICES ASSUME Bounded, [Next]_vars PROVE Bounded'
  OBVIOUS
<1>0. MaxRevisions \in Nat
  BY RecipeAssumption
<1>1. ASSUME NEW a \in Artifacts, Generate(a)
      PROVE  Bounded'
  <2>1. revisions \in 0..MaxRevisions /\ revisions < MaxRevisions
    BY <1>1 DEF Generate, Bounded
  <2>2. CASE a \in digests
    BY <1>1, <2>1, <2>2, FirstStages DEF Generate
  <2>3. CASE a \notin digests
    BY <1>0, <1>1, <2>1, <2>3, FirstStages DEF Generate, FirstStage
  <2> QED BY <2>2, <2>3
<1>2. CASE GeneratorFails \/ EngineStops
  BY <1>2, FirstStages DEF GeneratorFails, EngineStops, Bounded
<1>3. ASSUME NEW verdict \in Verdicts, RunCheck(verdict)
      PROVE  Bounded'
  <2>1. /\ stage \in {"deterministic", "semantic"} /\ stage' = stage /\ revisions' = revisions
        /\ position \in 1..Len(Plan) /\ position' = position + 1
        /\ running' => position < Len(Plan)
    <3>1. Len(Plan) \in Nat
      BY RecipeAssumption DEF Plan
    <3>2. /\ stage \in {"deterministic", "semantic"} /\ running /\ stage' = stage
          /\ revisions' = revisions /\ position' = position + 1
          /\ running' => position < Len(Plan)
      BY <1>3 DEF RunCheck
    <3>3. position \in 1..(Len(Plan) + 1) /\ position <= Len(Plan)
      BY <3>2 DEF Bounded
    <3> QED BY <3>1, <3>2, <3>3
  <2>2. Len(Plan) \in Nat /\ Len(Plan)' = Len(Plan)
    BY <2>1, RecipeAssumption DEF Plan
  <2> QED BY <2>1, <2>2 DEF Bounded
<1>4. CASE LookAtChecks
  BY <1>4, FirstStages DEF LookAtChecks, Bounded
<1>5. CASE UNCHANGED <<stage, running, position, revisions>>
  BY <1>5 DEF Bounded, Plan
<1> QED BY <1>1, <1>2, <1>3, <1>4, <1>5 DEF Next, Advance, Complete, Invalidate, Finished, vars

\* Every step of the recipe leads to a later artifact, stage or check, or ends it.
LEMMA EveryStepAdvances ==
  ASSUME Bounded, [Next]_vars
  PROVE  Advances
<1>1. ASSUME NEW a \in Artifacts, Generate(a)
      PROVE  GetsOn
  BY <1>1 DEF Generate, GoesTo, GetsOn, Stage
<1>2. ASSUME GeneratorFails
      PROVE  GetsOn
  BY <1>2 DEF GeneratorFails, GoesTo, GetsOn, Stage
<1>3. ASSUME NEW verdict \in Verdicts, RunCheck(verdict)
      PROVE  GetsOn
  BY <1>3 DEF RunCheck, GetsOn
<1>4. ASSUME LookAtChecks
      PROVE  GetsOn
  BY <1>4 DEF LookAtChecks, GoesTo, GetsOn, Stage
<1>5. ASSUME Complete \/ EngineStops
      PROVE  GetsOn
  BY <1>5 DEF Complete, EngineStops, Ends, GetsOn
<1>6. ASSUME ~ (Advance \/ EngineStops)
      PROVE  UNCHANGED <<revisions, stage, position, result>>
  BY <1>6 DEF Next, Invalidate, Finished, vars
<1> QED BY <1>1, <1>2, <1>3, <1>4, <1>5, <1>6 DEF Advances, Advance

\* Whatever the generator, the checks and the host do, each step leads to a new
\* artifact, of which there are at most MaxRevisions, to a later stage or check of
\* the one at hand, or to the end (the retries of GenerateVerifyRecipe's planner).
THEOREM RecipeGetsOn == Spec => []Bounded /\ [][Advances]_vars
<1>1. Bounded /\ [Next]_vars => [Advances]_vars
  BY EveryStepAdvances
<1> QED BY <1>1, StartsBounded, StaysBounded, PTL DEF Spec
=============================================================================
