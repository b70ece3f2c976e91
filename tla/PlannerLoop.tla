----------------------------- MODULE PlannerLoop -----------------------------
(***************************************************************************)
(* PlannerEngine.run (planning.py): an untrusted planner proposes plans,   *)
(* results, questions or a handoff; each plan is validated, put in         *)
(* dependency order and executed step by step, every step a run of its     *)
(* own, until a result passes the host's validator or a limit is met.      *)
(*                                                                         *)
(* Planner calls and revisions are admitted by the UsageLedger the run     *)
(* shares with others.  The host may invalidate evidence and cancel.       *)
(*                                                                         *)
(* A definition named for a defect (StepRetries, ...) is the one below it  *)
(* with a seeded fault, kept to show that a property detects it.           *)
(***************************************************************************)
EXTENDS Integers, Sequences, FiniteSets, SequencesExt

CONSTANTS
  Sources,          \* permitted_evidence, and what steps may refer to by id
  Plans,            \* the plans the planner may propose
  StepsOf,          \* [Plans -> sequences of step ids]
  DependsOn,        \* [Plans -> [step ids -> sets of step ids]]
  Uses,             \* [Plans -> [step ids -> sets of steps and sources]]: its arguments
  Admissible,       \* plans with known capabilities and host-controlled arguments
  PlannerCalls, PlanRevisions,   \* RunLimits
  Deadline,
  MaxTime,          \* bound on the clock
  MaxOthers,        \* bound on the admissions of other users of the ledger
  MaxInvalidations, \* bound on the invalidations by the host
  MayCancel         \* whether the run may be cancelled

ASSUME PlannerLimitsAssumption ==
  /\ PlannerCalls \in Nat /\ PlanRevisions \in Nat /\ Deadline \in Nat /\ MaxTime \in Nat
  /\ MaxOthers \in Nat /\ MaxInvalidations \in Nat
ASSUME PlansAssumption ==
  /\ Admissible \subseteq Plans
  /\ \A plan \in Plans :
       /\ IsInjective(StepsOf[plan]) /\ StepsOf[plan] \in Seq(Range(StepsOf[plan]))
       /\ DOMAIN DependsOn[plan] = Range(StepsOf[plan])
       /\ DOMAIN Uses[plan] = Range(StepsOf[plan])

VARIABLES
  active, operations, attempts, calls, children, measured, now, reply,   \* the ledger
  pc,          \* where run is
  turns,       \* Len(planner_usage)
  revision,
  seen,        \* the plans of fingerprints
  plan,        \* the plan of this revision
  position,    \* the step of it that is next or running
  refs,        \* step_refs: steps of this revision that completed
  stale,       \* sources and steps of this revision that were invalidated
  failures,    \* outcomes that did not complete, of all revisions
  result, changes

ledger == <<active, operations, attempts, calls, children, measured, now, reply>>
execution == <<plan, position, refs, failures>>
vars == <<ledger, pc, turns, revision, seen, execution, stale, result, changes>>

CallIds == {"run", "other"} \X (1..(PlannerCalls + PlanRevisions + MaxOthers + 1))

Ledger == INSTANCE UsageLedger WITH
  Operations <- CallIds, AttemptIds <- {}, Classes <- {"planner", "revision"},
  ChildRuns <- {}, Measurements <- {"counted"}, NoMeasurement <- "nothing",
  ClassLimit <- [class \in {"planner", "revision"} |->
                   IF class = "planner" THEN PlannerCalls ELSE PlanRevisions],
  ConcurrentOperations <- 0, ProviderAttempts <- 0, SubmittedQuestions <- 0,
  ChildDepth <- 0, ChildRunLimit <- 0, MaxQuestions <- 0, MaxDepth <- 0

-----------------------------------------------------------------------------
(* _validate_plan: in each round the steps whose dependencies were all ordered in
   earlier rounds, as the plan lists them; what no round reaches is a cycle. *)

Ready(p, done) ==
  {step \in Range(StepsOf[p]) \ done : DependsOn[p][step] \subseteq done}

AsListed(p, ready) ==
  LET listed[i \in 0..Len(StepsOf[p])] ==
        IF i = 0 THEN <<>>
        ELSE IF StepsOf[p][i] \in ready THEN Append(listed[i - 1], StepsOf[p][i])
        ELSE listed[i - 1]
  IN listed[Len(StepsOf[p])]

OrderedAsGiven(p) == StepsOf[p]

Ordered(p) ==
  LET rounds[n \in 0..Len(StepsOf[p])] ==
        IF n = 0 THEN <<>>
        ELSE LET ordered == rounds[n - 1]
             IN ordered \o AsListed(p, Ready(p, Range(ordered)))
  IN rounds[Len(StepsOf[p])]

Valid(p) ==
  /\ p \in Admissible
  /\ \A step \in Range(StepsOf[p]) :
       DependsOn[p][step] \subseteq Range(StepsOf[p]) \ {step}
  /\ Range(Ordered(p)) = Range(StepsOf[p])

-----------------------------------------------------------------------------
Step == Ordered(plan)[position]

\* A step's evidence derives from the evidence of its arguments.
Derived(x) ==
  {y \in Sources \cup refs :
     \A C \in SUBSET (Sources \cup refs) :
       (x \in C /\ \A z \in C \cap refs : Uses[plan][z] \subseteq C) => y \in C}

Current(x) == Derived(x) \cap stale = {}

\* A StepValue needs a completed step of this revision that is declared a
\* dependency; every reference needs a current record.
ArgumentsBind ==
  \A x \in Uses[plan][Step] :
    /\ x \notin Sources => x \in refs /\ x \in DependsOn[plan][Step]
    /\ Current(x)

Ends(how) == pc' = "ended" /\ result' = how

Goes(to) == pc' = to /\ UNCHANGED result

-----------------------------------------------------------------------------
Init ==
  /\ Ledger!Init
  /\ pc = "admit" /\ result = "none"
  /\ turns = 0 /\ revision = 0 /\ seen = {}
  /\ plan = "none" /\ position = 0 /\ refs = {} /\ failures = 0
  /\ stale = {} /\ changes = 0

AdmitCall ==
  /\ pc = "admit"
  /\ Ledger!AdmitNamed("planner", <<"run", turns + 1>>, Deadline)
  /\ IF reply' = "ok" THEN Goes("project") ELSE Ends("budget")
  /\ UNCHANGED <<turns, revision, seen, execution, stale, changes>>

\* A permitted record that is not current raises out of run.
Project ==
  /\ pc = "project"
  /\ IF Sources \cap stale = {} THEN Goes("planning") ELSE Ends("error")
  /\ UNCHANGED <<ledger, turns, revision, seen, execution, stale, changes>>

\* The turn came in time: it is measured, then looked at.
PlannerReturns ==
  /\ pc = "planning" /\ now < Deadline
  /\ Ledger!Record(<<"run", turns + 1>>, "observed", "counted")
  /\ turns' = turns + 1
  /\ Goes("respond")
  /\ UNCHANGED <<revision, seen, execution, stale, changes>>

PlannerLateUnmeasured ==
  /\ pc = "planning"
  /\ turns' = turns + 1
  /\ Ends("budget")
  /\ UNCHANGED <<ledger, revision, seen, execution, stale, changes>>

\* The deadline interrupts the planner, or it raises DeadlineExceededError itself.
PlannerLate ==
  /\ pc = "planning"
  /\ Ledger!Record(<<"run", turns + 1>>, "unknown", "counted")
  /\ turns' = turns + 1
  /\ Ends("budget")
  /\ UNCHANGED <<revision, seen, execution, stale, changes>>

\* A planner that raises BudgetExhaustedError itself is taken for the ledger: run
\* ends as for a limit, and the turn is not measured.
PlannerRefuses ==
  /\ pc = "planning"
  /\ Ends("planner_budget")
  /\ UNCHANGED <<ledger, turns, revision, seen, execution, stale, changes>>

\* The planner, the validator or a malformed response raises out of run.
CallbackRaises ==
  /\ pc \in {"planning", "respond", "validating"}
  /\ Ends("error")
  /\ UNCHANGED <<ledger, turns, revision, seen, execution, stale, changes>>

ProposeResult ==
  /\ pc = "respond"
  /\ Goes("validating")
  /\ UNCHANGED <<ledger, turns, revision, seen, execution, stale, changes>>

\* "budget" when the validator is late or raises an error of the ledger.
ResultValidated ==
  /\ pc = "validating"
  /\ \/ now < Deadline /\ (Ends("completed") \/ Ends("unaccepted"))
     \/ Ends("budget")
  /\ UNCHANGED <<ledger, turns, revision, seen, execution, stale, changes>>

AskOrHandOff ==
  /\ pc = "respond"
  /\ Ends("clarification") \/ Ends("handoff")
  /\ UNCHANGED <<ledger, turns, revision, seen, execution, stale, changes>>

ProposeForgetting(p) ==
  /\ pc = "respond"
  /\ IF p \in seen
     THEN Ends("no_progress") /\ UNCHANGED <<revision, seen, plan, position, refs, stale>>
     ELSE /\ seen' = {p}
          /\ revision' = revision + 1
          /\ plan' = p /\ position' = 1 /\ refs' = {} /\ stale' = stale \cap Sources
          /\ Goes("revising")
  /\ UNCHANGED <<ledger, turns, failures, changes>>

Propose(p) ==
  /\ pc = "respond"
  /\ IF p \in seen
     THEN Ends("no_progress") /\ UNCHANGED <<revision, seen, plan, position, refs, stale>>
     ELSE /\ seen' = seen \cup {p}
          /\ revision' = revision + 1
          /\ plan' = p /\ position' = 1 /\ refs' = {} /\ stale' = stale \cap Sources
          /\ Goes("revising")
  /\ UNCHANGED <<ledger, turns, failures, changes>>

\* An invalid plan is an outcome the planner is told of.
AdmitRevision ==
  /\ pc = "revising"
  /\ Ledger!AdmitNamed("revision", <<"run", revision>>, Deadline)
  /\ IF reply' # "ok"
     THEN Ends("budget") /\ UNCHANGED failures
     ELSE /\ Goes(IF Valid(plan) THEN "stepping" ELSE "admit")
          /\ failures' = failures + (IF Valid(plan) THEN 0 ELSE 1)
  /\ UNCHANGED <<turns, revision, seen, plan, position, refs, stale, changes>>

RevisionDone ==
  /\ pc = "stepping" /\ position > Len(StepsOf[plan])
  /\ Goes("admit")
  /\ UNCHANGED <<ledger, turns, revision, seen, execution, stale, changes>>

StartStep ==
  /\ pc = "stepping" /\ position <= Len(StepsOf[plan])
  /\ IF now >= Deadline THEN Ends("budget") /\ UNCHANGED failures
     ELSE IF ArgumentsBind THEN Goes("running") /\ UNCHANGED failures
     ELSE Goes("admit") /\ failures' = failures + 1
  /\ UNCHANGED <<ledger, turns, revision, seen, plan, position, refs, stale, changes>>

\* An argument of a wrong type, a path its record does not have, or a definition the
\* Runtime refuses raises out of run.
StepRaises ==
  /\ pc = "stepping" /\ position <= Len(StepsOf[plan]) /\ now < Deadline
  /\ Ends("error")
  /\ UNCHANGED <<ledger, turns, revision, seen, execution, stale, changes>>

\* The Runtime completes a step only over current evidence.
StepCompletes ==
  /\ pc = "running"
  /\ \A x \in Uses[plan][Step] : Current(x)
  /\ refs' = refs \cup {Step}
  /\ position' = position + 1
  /\ Goes("stepping")
  /\ UNCHANGED <<ledger, turns, revision, seen, plan, failures, stale, changes>>

\* Any other end of a step ends the revision.
StepRetries ==
  /\ pc = "running"
  /\ Goes("stepping")
  /\ UNCHANGED <<ledger, turns, revision, seen, execution, stale, changes>>

StepStops ==
  /\ pc = "running"
  /\ Goes("admit")
  /\ failures' = failures + 1
  /\ UNCHANGED <<ledger, turns, revision, seen, plan, position, refs, stale, changes>>

Cancel ==
  /\ MayCancel /\ pc \in {"planning", "validating", "running"}
  /\ Ends("cancelled")
  /\ UNCHANGED <<ledger, turns, revision, seen, execution, stale, changes>>

-----------------------------------------------------------------------------
(* The host, the other users of the ledger, and time. *)

Invalidate(x) ==
  /\ pc # "ended" /\ changes < MaxInvalidations /\ x \notin stale
  /\ stale' = stale \cup {x}
  /\ changes' = changes + 1
  /\ UNCHANGED <<ledger, pc, turns, revision, seen, execution, result>>

OtherAdmits(class, n) ==
  /\ pc # "ended"
  /\ Ledger!AdmitNamed(class, <<"other", n>>, Deadline)
  /\ UNCHANGED <<pc, turns, revision, seen, execution, stale, result, changes>>

Tick ==
  /\ pc # "ended"
  /\ Ledger!Tick
  /\ UNCHANGED <<pc, turns, revision, seen, execution, stale, result, changes>>

Advance ==
  \/ AdmitCall \/ Project \/ PlannerReturns \/ PlannerLate \/ PlannerRefuses \/ CallbackRaises
  \/ ProposeResult \/ ResultValidated \/ AskOrHandOff \/ (\E p \in Plans : Propose(p))
  \/ AdmitRevision \/ RevisionDone \/ StartStep \/ StepRaises \/ StepCompletes \/ StepStops

Finished == pc = "ended" /\ UNCHANGED vars

Next ==
  \/ Advance \/ Cancel
  \/ \E x \in Sources \cup refs : Invalidate(x)
  \/ \E class \in {"planner", "revision"}, n \in 1..MaxOthers : OtherAdmits(class, n)
  \/ Tick
  \/ Finished

Spec == Init /\ [][Next]_vars

\* The awaited callbacks and runs return; the clock need not advance.
FairSpec == Spec /\ WF_vars(Advance)

-----------------------------------------------------------------------------
(* Properties. *)

Results == {"none", "completed", "unaccepted", "budget", "clarification", "handoff",
            "no_progress", "error", "cancelled", "planner_budget"}

TypeOK ==
  /\ Ledger!TypeOK
  /\ pc \in {"admit", "project", "planning", "respond", "validating", "revising", "stepping",
             "running", "ended"}
  /\ turns \in 0..PlannerCalls /\ revision \in 0..(PlanRevisions + 1) /\ seen \subseteq Plans
  /\ plan \in Plans \cup {"none"} /\ position \in Nat /\ failures \in 0..turns
  /\ stale \subseteq Sources \cup refs
  /\ result \in Results /\ changes \in 0..MaxInvalidations

\* No plan is executed twice in a run, whatever came between: every revision is
\* of a plan of its own, and each one took a turn of the planner.
EveryRevisionIsNew == revision = Cardinality(seen) /\ revision <= turns

\* A step starts in time, after everything it depends on completed in the same
\* revision, over current evidence (the ordering of _validate_plan, the break of
\* run and the checks of _execute_step, in the face of invalidations between).
StepsStartReady ==
  [][pc' = "running" /\ pc # "running" =>
       /\ now < Deadline
       /\ DependsOn[plan][Step] \subseteq refs
       /\ \A x \in Uses[plan][Step] : x \in Sources \cup refs /\ Current(x)]_vars

\* Every call of the planner is measured once, the one the deadline interrupts as
\* unknown; only a planner that raised, with an error of its own or one of the
\* ledger's that run then reports as a limit, or a cancelled run, leaves its last
\* call unmeasured.
TurnsMeasured ==
  LET kinds(n) == {kind \in {"observed", "unknown"} : measured[<<<<"run", n>>, kind>>] # "nothing"}
      admitted == {n \in 1..PlannerCalls : <<"run", n>> \in calls["planner"]}
  IN /\ \A n \in 1..turns : Cardinality(kinds(n)) = 1
     /\ pc = "ended" /\ result \notin {"error", "cancelled", "planner_budget"} =>
          admitted = 1..turns
     /\ admitted \subseteq 1..(turns + 1)

\* The loop ends even if no time passes: plans run out, or planner calls do.
PlannerLoopEnds == <>(pc = "ended")
==============================================================================
