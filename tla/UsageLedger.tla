----------------------------- MODULE UsageLedger -----------------------------
(***************************************************************************)
(* UsageLedger (limits.py): the one admission and usage record shared by   *)
(* every caller, run and child run.  Its lock is never held across an      *)
(* await, so each call is one step; callers come in any order, with any    *)
(* identity and any deadline of their own, and repeat calls they made.     *)
(*                                                                         *)
(* The submitted questions of an attempt are numbered from 1: what the     *)
(* code computes as a sum over the attempts is the number of such pairs.   *)
(*                                                                         *)
(* A definition named for a defect (CallReplyOneMore, ...) is the one      *)
(* below it with a seeded fault, kept to show that a property detects it.  *)
(***************************************************************************)
EXTENDS Integers, FiniteSets

CONSTANTS
  Operations,       \* ids of operations
  AttemptIds,       \* ids of provider attempts
  Classes,          \* the counted kinds of call: tool, write, investigation, planner, revision
  CallIds,          \* ids of such calls
  ChildRuns,        \* ids of child runs
  Measurements,     \* token counts that can be recorded
  NoMeasurement,
  ConcurrentOperations, ProviderAttempts, SubmittedQuestions,    \* RunLimits
  ClassLimit,       \* [Classes -> Nat]
  ChildDepth, ChildRunLimit,
  MaxQuestions,     \* bound on the questions of one attempt
  MaxDepth,         \* bound on the depth of a child run
  MaxTime           \* bound on the clock

ASSUME LimitsAssumption ==
  /\ ConcurrentOperations \in Nat /\ ProviderAttempts \in Nat /\ SubmittedQuestions \in Nat
  /\ ClassLimit \in [Classes -> Nat] /\ ChildDepth \in Nat /\ ChildRunLimit \in Nat
ASSUME BoundsAssumption == MaxQuestions \in Nat /\ MaxDepth \in Nat /\ MaxTime \in Nat
ASSUME MeasurementAssumption == NoMeasurement \notin Measurements

VARIABLES
  active,       \* _active
  operations,   \* _operations
  attempts,     \* _attempt_questions: questions of each attempt, 0 if not admitted
  calls,        \* the admitted ids of each class
  children,     \* _child_runs: depth of each child run, 0 if not admitted
  measured,     \* _measurements
  now,
  reply         \* what the last call answered

vars == <<active, operations, attempts, calls, children, measured, now, reply>>

Kinds == {"observed", "unknown", "estimated", "reserved", "released"}
Replies == {"ok", "admission", "budget", "deadline"}

-----------------------------------------------------------------------------
(* Answers of the admission calls, in the order of the code's checks. *)

OperationReply(id, deadline) ==
  IF now >= deadline THEN "deadline"
  ELSE IF id \in operations THEN "admission"
  ELSE IF Cardinality(active) >= ConcurrentOperations THEN "budget"
  ELSE "ok"

Admitted == {id \in AttemptIds : attempts[id] # 0}

\* One pair for each question of each admitted attempt.
Submitted == {p \in AttemptIds \X (1..MaxQuestions) : p[2] <= attempts[p[1]]}

AttemptReply(id, questions, deadline) ==
  IF now >= deadline THEN "deadline"
  ELSE IF attempts[id] # 0 THEN IF attempts[id] = questions THEN "ok" ELSE "admission"
  ELSE IF Cardinality(Admitted) >= ProviderAttempts THEN "budget"
  ELSE IF Cardinality(Submitted) + questions > SubmittedQuestions THEN "budget"
  ELSE "ok"

CallReplyOneMore(class, id, deadline) ==
  IF now >= deadline THEN "deadline"
  ELSE IF id \in calls[class] THEN "ok"
  ELSE IF Cardinality(calls[class]) > ClassLimit[class] THEN "budget"
  ELSE "ok"

CallReply(class, id, deadline) ==
  IF now >= deadline THEN "deadline"
  ELSE IF id \in calls[class] THEN "ok"
  ELSE IF Cardinality(calls[class]) >= ClassLimit[class] THEN "budget"
  ELSE "ok"

AdmittedChildren == {run \in ChildRuns : children[run] # 0}

ChildReply(run, depth, deadline) ==
  IF now >= deadline THEN "deadline"
  ELSE IF children[run] # 0 THEN IF children[run] = depth THEN "ok" ELSE "admission"
  ELSE IF depth > ChildDepth THEN "budget"
  ELSE IF Cardinality(AdmittedChildren) >= ChildRunLimit THEN "budget"
  ELSE "ok"

-----------------------------------------------------------------------------
Init ==
  /\ active = {}
  /\ operations = {}
  /\ attempts = [id \in AttemptIds |-> 0]
  /\ calls = [class \in Classes |-> {}]
  /\ children = [run \in ChildRuns |-> 0]
  /\ measured = [m \in Operations \X Kinds |-> NoMeasurement]
  /\ now = 0
  /\ reply = "ok"

EnterOperation(id, deadline) ==
  /\ reply' = OperationReply(id, deadline)
  /\ \/ reply' = "ok" /\ active' = active \cup {id} /\ operations' = operations \cup {id}
     \/ reply' # "ok" /\ UNCHANGED <<active, operations>>
  /\ UNCHANGED <<attempts, calls, children, measured, now>>

LeaveOperation(id) ==
  /\ id \in active
  /\ active' = active \ {id}
  /\ UNCHANGED <<operations, attempts, calls, children, measured, now, reply>>

AdmitProviderAttempt(id, questions, deadline) ==
  /\ reply' = AttemptReply(id, questions, deadline)
  /\ attempts' = [attempts EXCEPT ![id] = IF reply' = "ok" THEN questions ELSE @]
  /\ UNCHANGED <<active, operations, calls, children, measured, now>>

\* admit_tool_attempt, admit_write, admit_investigation, admit_planner_call and
\* admit_plan_revision are one admission on sets of their own.
AdmitNamed(class, id, deadline) ==
  /\ reply' = CallReply(class, id, deadline)
  /\ calls' = [calls EXCEPT ![class] = IF reply' = "ok" THEN @ \cup {id} ELSE @]
  /\ UNCHANGED <<active, operations, attempts, children, measured, now>>

AdmitChildRun(run, depth, deadline) ==
  /\ reply' = ChildReply(run, depth, deadline)
  /\ children' = [children EXCEPT ![run] = IF reply' = "ok" THEN depth ELSE @]
  /\ UNCHANGED <<active, operations, attempts, calls, measured, now>>

\* _record: record_usage, record_estimate and reserve_usage.
Record(id, kind, m) ==
  /\ kind # "released"
  /\ \/ /\ measured[<<id, kind>>] \in {NoMeasurement, m}
        /\ reply' = "ok"
        /\ measured' = [measured EXCEPT ![<<id, kind>>] = m]
     \/ /\ measured[<<id, kind>>] \notin {NoMeasurement, m}
        /\ reply' = "admission"
        /\ UNCHANGED measured
  /\ UNCHANGED <<active, operations, attempts, calls, children, now>>

ReleaseReservation(id) ==
  /\ \/ /\ measured[<<id, "reserved">>] # NoMeasurement
        /\ reply' = "ok"
        /\ measured' = [measured EXCEPT ![<<id, "released">>] = measured[<<id, "reserved">>]]
     \/ /\ measured[<<id, "reserved">>] = NoMeasurement
        /\ reply' = "admission"
        /\ UNCHANGED measured
  /\ UNCHANGED <<active, operations, attempts, calls, children, now>>

Tick ==
  /\ now < MaxTime
  /\ now' = now + 1
  /\ UNCHANGED <<active, operations, attempts, calls, children, measured, reply>>

Deadlines == 0..(MaxTime + 1)

Call ==
  \/ \E id \in Operations, deadline \in Deadlines : EnterOperation(id, deadline)
  \/ \E id \in Operations : LeaveOperation(id)
  \/ \E id \in AttemptIds, questions \in 1..MaxQuestions, deadline \in Deadlines :
       AdmitProviderAttempt(id, questions, deadline)
  \/ \E class \in Classes, id \in CallIds, deadline \in Deadlines :
       AdmitNamed(class, id, deadline)
  \/ \E run \in ChildRuns, depth \in 1..MaxDepth, deadline \in Deadlines :
       AdmitChildRun(run, depth, deadline)
  \/ \E id \in Operations, kind \in Kinds, m \in Measurements : Record(id, kind, m)
  \/ \E id \in Operations : ReleaseReservation(id)

Next == Call \/ Tick

Spec == Init /\ [][Next]_vars

-----------------------------------------------------------------------------
TypeOK ==
  /\ active \subseteq operations /\ operations \subseteq Operations
  /\ attempts \in [AttemptIds -> 0..MaxQuestions]
  /\ calls \in [Classes -> SUBSET CallIds]
  /\ children \in [ChildRuns -> 0..MaxDepth]
  /\ measured \in [Operations \X Kinds -> Measurements \cup {NoMeasurement}]
  /\ now \in 0..MaxTime
  /\ reply \in Replies

\* However the callers interleave and repeat their calls, and whatever questions
\* each attempt carries, no limit of RunLimits is ever exceeded.
LimitsHold ==
  /\ Cardinality(active) <= ConcurrentOperations
  /\ Cardinality(Admitted) <= ProviderAttempts
  /\ Cardinality(Submitted) <= SubmittedQuestions
  /\ \A class \in Classes : Cardinality(calls[class]) <= ClassLimit[class]
  /\ Cardinality(AdmittedChildren) <= ChildRunLimit
  /\ \A run \in ChildRuns : children[run] <= ChildDepth

\* A released reservation is worth what was reserved, in whatever order the two
\* are repeated.
ReleasesMatch ==
  \A id \in Operations :
    measured[<<id, "released">>] \in {NoMeasurement, measured[<<id, "reserved">>]}

\* What was admitted or measured under an identity is final: an operation that
\* left never runs again, an attempt keeps its questions, a child run its depth,
\* a counted call stays counted, a measurement keeps its value.
IdentitiesAreFinal ==
  [][/\ \A id \in operations : id \in operations' /\ (id \in active' => id \in active)
     /\ \A id \in Admitted : attempts'[id] = attempts[id]
     /\ \A class \in Classes : calls[class] \subseteq calls'[class]
     /\ \A run \in AdmittedChildren : children'[run] = children[run]
     /\ \A m \in Operations \X Kinds :
          measured[m] # NoMeasurement => measured'[m] = measured[m]]_vars
=============================================================================
