---------------------------- MODULE ArtifactRecipe ----------------------------
(***************************************************************************)
(* GenerateVerifyRecipe (artifacts.py): a generator proposes an artifact,  *)
(* deterministic then semantic checks look at it, required failures go     *)
(* back to the generator, and a result is accepted only with the findings  *)
(* and the evidence of its own revision.                                   *)
(*                                                                         *)
(* The recipe's planner is driven by PlannerEngine.run, of which this      *)
(* module keeps what it relies on: the steps of a plan run in order and    *)
(* the first that does not complete ends the plan (PlannerLoop has the     *)
(* rest).  The host may invalidate any record meanwhile.                   *)
(*                                                                         *)
(* A definition named for a defect (AcceptsEarlierFindings, ...) is the    *)
(* one below it with a seeded fault, kept to show that a property detects  *)
(* it.                                                                     *)
(***************************************************************************)
EXTENDS Integers, Sequences, FiniteSets, SequencesExt

CONSTANTS
  Artifacts,        \* what the generator may return, by digest
  Deterministic, Semantic,   \* sequences of check ids, in the order declared
  RequiredChecks, RequiredFields,   \* the completion contract
  Supports,         \* [check ids -> sets of fields]
  MaxRevisions,
  MaxInvalidations  \* bound on the invalidations by the host

Checks == Range(Deterministic) \cup Range(Semantic)

ASSUME RecipeAssumption ==
  /\ Deterministic \in Seq(Range(Deterministic)) /\ Semantic \in Seq(Range(Semantic))
  /\ IsInjective(Deterministic \o Semantic)
  /\ RequiredChecks \subseteq Checks /\ RequiredChecks # {}
  /\ Supports \in [Checks -> SUBSET UNION {Supports[c] : c \in Checks}]
  /\ RequiredFields \subseteq UNION {Supports[c] : c \in RequiredChecks}
  /\ MaxRevisions \in Nat \ {0} /\ MaxInvalidations \in Nat

\* Records of the store: the artifact of a revision, and what a check of it left,
\* with the sources its finding names.
Artifact == "artifact"
Records == Artifacts \X (Checks \cup {Artifact})

VARIABLES
  stage,       \* planner.stage
  running,     \* whether the engine is executing the plan of the stage
  position,    \* the check of that plan that is next
  outcomes,    \* what each check of the plan returned
  current,     \* planner.current
  digests,     \* planner.digests
  revisions,   \* Len(planner.revisions)
  findings,    \* planner.findings: the passed ones and those with evidence, per revision
  stale,       \* records that were invalidated
  result,      \* how the run ended, and with what value
  changes

vars == <<stage, running, position, outcomes, current, digests, revisions, findings, stale,
          result, changes>>

NoArtifact == "no artifact"
Absent == "absent"
Verdicts == {"passed", "failed", "errored"}

\* Evidence of a check derives from its artifact.
Current(a, of) == <<a, of>> \notin stale /\ <<a, Artifact>> \notin stale

Plan == IF stage = "deterministic" THEN Deterministic ELSE Semantic

Ends(how, value) == result' = [how |-> how, value |-> value]

\* _checks: the plan of the stage that follows, on the current artifact.
GoesTo(next) ==
  /\ stage' = next
  /\ running' = (next \in {"generation", "deterministic", "semantic"})
  /\ position' = 1
  /\ outcomes' = [c \in Checks |-> Absent]

-----------------------------------------------------------------------------
Init ==
  /\ stage = "generation" /\ running = TRUE /\ position = 1
  /\ outcomes = [c \in Checks |-> Absent]
  /\ current = NoArtifact /\ digests = {} /\ revisions = 0
  /\ findings = [passed |-> {}, evidenced |-> {}]
  /\ stale = {} /\ changes = 0
  /\ result = [how |-> "none", value |-> NoArtifact]

FirstStage ==
  IF Deterministic # <<>> THEN "deterministic" ELSE IF Semantic # <<>> THEN "semantic" ELSE "complete"

Generate(a) ==
  /\ stage = "generation" /\ running
  /\ IF a \in digests
     THEN /\ GoesTo("stopped") /\ Ends("no_progress", NoArtifact)
          /\ UNCHANGED <<current, digests, revisions>>
     ELSE /\ digests' = digests \cup {a}
          /\ current' = a
          /\ revisions' = revisions + 1
          /\ GoesTo(FirstStage)
          /\ UNCHANGED result
  /\ UNCHANGED <<findings, stale, changes>>

\* The generator's step did not complete, or its value is not a stable one.
GeneratorFails ==
  /\ stage = "generation" /\ running
  /\ Ends("missing_capability", NoArtifact) \/ Ends("unaccepted", NoArtifact)
  /\ GoesTo("stopped")
  /\ UNCHANGED <<current, digests, revisions, findings, stale, changes>>

\* A check runs on the record of the artifact, which must be current; the first
\* step that does not complete ends the plan.
RunCheckUntilAnswered(verdict) ==
  LET check == Plan[position] IN
  /\ stage \in {"deterministic", "semantic"} /\ running
  /\ verdict # "errored" => Current(current, Artifact)
  /\ outcomes' = [outcomes EXCEPT ![check] = verdict]
  /\ position' = IF verdict = "errored" THEN position ELSE position + 1
  /\ running' = (position' <= Len(Plan))
  /\ UNCHANGED <<stage, current, digests, revisions, findings, stale, result, changes>>

RunCheck(verdict) ==
  LET check == Plan[position] IN
  /\ stage \in {"deterministic", "semantic"} /\ running
  /\ verdict # "errored" => Current(current, Artifact)
  /\ outcomes' = [outcomes EXCEPT ![check] = verdict]
  /\ position' = position + 1
  /\ running' = (verdict # "errored" /\ position < Len(Plan))
  /\ UNCHANGED <<stage, current, digests, revisions, findings, stale, result, changes>>

Failing == {c \in RequiredChecks \cap Range(Plan) : outcomes[c] # "passed"}

Found ==
  [passed |-> findings.passed
                \cup {<<current, c>> : c \in {d \in Range(Plan) : outcomes[d] = "passed"}},
   evidenced |-> findings.evidenced
                \cup {<<current, c>> : c \in {d \in Range(Plan) : outcomes[d] \in {"passed", "failed"}}}]

LookAtChecksOfLastRun ==
  /\ stage \in {"deterministic", "semantic"} /\ ~ running
  /\ findings' = Found
  /\ GoesTo(IF \E c \in RequiredChecks \cap Range(Plan) : outcomes[c] = "failed" THEN "generation"
            ELSE IF stage = "deterministic" /\ Semantic # <<>> THEN "semantic" ELSE "complete")
  /\ UNCHANGED <<result, current, digests, revisions, stale, changes>>

LookAtChecks ==
  /\ stage \in {"deterministic", "semantic"} /\ ~ running
  /\ findings' = Found
  /\ \/ Failing # {} /\ revisions >= MaxRevisions
        /\ GoesTo("stopped") /\ Ends("revisions", NoArtifact)
     \/ Failing # {} /\ revisions < MaxRevisions
        /\ GoesTo("generation") /\ UNCHANGED result
     \/ Failing = {} /\ stage = "deterministic" /\ Semantic # <<>>
        /\ GoesTo("semantic") /\ UNCHANGED result
     \/ Failing = {} /\ (stage = "semantic" \/ Semantic = <<>>)
        /\ GoesTo("complete") /\ UNCHANGED result
  /\ UNCHANGED <<current, digests, revisions, stale, changes>>

\* accepts(): findings and evidence of this revision only.
AcceptsEarlierFindings ==
  /\ Current(current, Artifact)
  /\ \A c \in RequiredChecks :
       \E a \in digests : <<a, c>> \in findings.passed /\ Current(a, c)

Accepts ==
  /\ Current(current, Artifact)
  /\ \A c \in RequiredChecks : <<current, c>> \in findings.passed /\ Current(current, c)
  /\ RequiredFields \subseteq
       UNION {Supports[c] : c \in {d \in RequiredChecks : <<current, d>> \in findings.passed}}

Complete ==
  /\ stage = "complete" /\ result.how = "none"
  /\ IF Accepts THEN Ends("completed", current) ELSE Ends("unaccepted", NoArtifact)
  /\ UNCHANGED <<stage, running, position, outcomes, current, digests, revisions, findings,
                 stale, changes>>

\* The engine meets a planner limit or the deadline between two steps.
EngineStops ==
  /\ result.how = "none"
  /\ Ends("budget", NoArtifact)
  /\ GoesTo("stopped")
  /\ UNCHANGED <<current, digests, revisions, findings, stale, changes>>

Invalidate(record) ==
  /\ result.how = "none" /\ changes < MaxInvalidations
  /\ record \in (digests \X {Artifact}) \cup findings.evidenced
       \cup {<<current, c>> : c \in {d \in Checks : outcomes[d] \in {"passed", "failed"}}}
  /\ record \notin stale
  /\ stale' = stale \cup {record}
  /\ changes' = changes + 1
  /\ UNCHANGED <<stage, running, position, outcomes, current, digests, revisions, findings,
                 result>>

Advance ==
  \/ (\E a \in Artifacts : Generate(a)) \/ GeneratorFails
  \/ (\E verdict \in Verdicts : RunCheck(verdict)) \/ LookAtChecks \/ Complete

Finished == result.how # "none" /\ UNCHANGED vars

Next ==
  \/ Advance \/ EngineStops
  \/ \E record \in Records : Invalidate(record)
  \/ Finished

Spec == Init /\ [][Next]_vars

\* The generator and the checks return.
FairSpec == Spec /\ WF_vars(Advance)

-----------------------------------------------------------------------------
(* Properties. *)

\* The result of a completed run passed every required check itself, on evidence
\* of its own revision that is current when it is accepted, whatever passed or
\* failed for earlier artifacts and whatever the host invalidated in between.
AcceptedOnItsOwnEvidence ==
  [][result'.how = "completed" /\ result.how # "completed" =>
       /\ result'.value = current /\ Current(current, Artifact)
       /\ \A c \in RequiredChecks : <<current, c>> \in findings.passed /\ Current(current, c)]_vars

\* Semantic checks, which call the model, run only on an artifact whose required
\* deterministic checks all passed: a check that errored or never ran counts as
\* failed.
ExactChecksFirst ==
  stage \in {"semantic", "complete"} =>
    \A c \in RequiredChecks \cap Range(Deterministic) : <<current, c>> \in findings.passed

\* The loop of generations ends.
RecipeEnds == <>(result.how # "none")
===============================================================================
