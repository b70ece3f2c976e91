---------------------------- MODULE DecisionCalls ----------------------------
(***************************************************************************)
(* DecisionClient.evaluate (decisions.py) with TypeSafeProvider.evaluate   *)
(* (provider.py) below it: concurrent decisions over shared evidence, each *)
(* an operation of one UsageLedger, whose provider attempts are admitted   *)
(* one by one, retried after transient failures, measured once, and whose  *)
(* answer is used only if its inputs are still current.                    *)
(*                                                                         *)
(* The ledger's own steps are those of UsageLedger.  Code between two      *)
(* awaits may be split here where the code reads the clock again.          *)
(*                                                                         *)
(* A definition named for a defect (LeaveUnmeasured, ...) is the one       *)
(* below it with a seeded fault, kept to show that a property detects it.  *)
(***************************************************************************)
EXTENDS Integers, FiniteSets

CONSTANTS
  Decisions, Sources,
  InputsOf,         \* [Decisions -> SUBSET Sources]
  MaxAttempts,      \* TypeSafeProvider(max_attempts)
  Deadline,         \* of the decision context
  ConcurrentOperations, ProviderAttempts, SubmittedQuestions,   \* RunLimits
  MaxDelay,         \* bound on the delay before a retry
  MaxTime           \* bound on the clock

ASSUME DecisionsAssumption == InputsOf \in [Decisions -> SUBSET Sources]
ASSUME DecisionLimitsAssumption ==
  /\ MaxAttempts \in Nat \ {0} /\ Deadline \in Nat /\ MaxDelay \in Nat /\ MaxTime \in Nat
  /\ ConcurrentOperations \in Nat /\ ProviderAttempts \in Nat /\ SubmittedQuestions \in Nat

AttemptIds == Decisions \X (1..MaxAttempts)

VARIABLES
  active, operations, attempts, calls, children, measured, now, reply,   \* the ledger
  at,         \* where each decision is
  number,     \* its attempt
  timeout,    \* what it gives every attempt, computed once
  until,      \* when the timer of its await fires
  outcome,    \* how it ends
  sent,       \* attempts that reached the provider
  recorded,   \* decisions with a ModelJudgment in the store
  changed     \* sources that changed

ledger == <<active, operations, attempts, calls, children, measured, now, reply>>
progress == <<number, timeout, until>>
store == <<recorded, changed>>
vars == <<ledger, at, progress, outcome, sent, store>>

Ledger == INSTANCE UsageLedger WITH
  Operations <- Decisions, Classes <- {}, CallIds <- {}, ChildRuns <- {},
  Measurements <- {"counted"}, NoMeasurement <- "nothing",
  ClassLimit <- [class \in {} |-> 0], ChildDepth <- 0, ChildRunLimit <- 0,
  MaxQuestions <- 1, MaxDepth <- 0

InputsCurrent(d) == InputsOf[d] \cap changed = {}

Goes(d, to) == at' = [at EXCEPT ![d] = to]

\* How d ends, once it left its ledger operation.
Leaves(d, how) == Goes(d, "leaving") /\ outcome' = [outcome EXCEPT ![d] = how]

Ends(d, how) == Goes(d, "out") /\ outcome' = [outcome EXCEPT ![d] = how]

-----------------------------------------------------------------------------
Init ==
  /\ Ledger!Init
  /\ at = [d \in Decisions |-> "idle"]
  /\ number = [d \in Decisions |-> 0]
  /\ timeout = [d \in Decisions |-> 0]
  /\ until = [d \in Decisions |-> 0]
  /\ outcome = [d \in Decisions |-> "none"]
  /\ sent = {} /\ recorded = {} /\ changed = {}

\* Inputs that are not current raise before the ledger knows of the decision.
RefuseStale(d) ==
  /\ at[d] = "idle" /\ ~ InputsCurrent(d)
  /\ Ends(d, "inputs")
  /\ UNCHANGED <<ledger, progress, sent, store>>

Start(d) ==
  /\ at[d] = "idle" /\ InputsCurrent(d)
  /\ Ledger!EnterOperation(d, Deadline)
  /\ IF reply' = "ok" THEN Goes(d, "entered") /\ UNCHANGED outcome ELSE Ends(d, "refused")
  /\ UNCHANGED <<progress, sent, store>>

\* The time left is given to the provider, which gives it to every attempt.
Begin(d) ==
  /\ at[d] = "entered"
  /\ IF now < Deadline
     THEN /\ Goes(d, "admitting")
          /\ timeout' = [timeout EXCEPT ![d] = Deadline - now]
          /\ number' = [number EXCEPT ![d] = 1]
          /\ UNCHANGED outcome
     ELSE Leaves(d, "refused") /\ UNCHANGED <<timeout, number>>
  /\ UNCHANGED <<ledger, until, sent, store>>

\* An admitted attempt is sent; a refusal raises out of the provider, whatever
\* the attempts before it spent.
Admit(d) ==
  /\ at[d] = "admitting"
  /\ Ledger!AdmitProviderAttempt(<<d, number[d]>>, 1, Deadline)
  /\ IF reply' = "ok"
     THEN /\ Goes(d, "calling")
          /\ until' = [until EXCEPT ![d] = now + timeout[d]]
          /\ sent' = sent \cup {<<d, number[d]>>}
          /\ UNCHANGED outcome
     ELSE Leaves(d, "refused") /\ UNCHANGED <<until, sent>>
  /\ UNCHANGED <<number, timeout, store>>

Answer(d) ==
  /\ at[d] = "calling"
  /\ Leaves(d, "answered")
  /\ UNCHANGED <<ledger, progress, sent, store>>

\* An error that is not retryable, or an answer that does not fit the question.
Fail(d) ==
  /\ at[d] = "calling"
  /\ Leaves(d, "provider")
  /\ UNCHANGED <<ledger, progress, sent, store>>

Retry(d) ==
  /\ at[d] = "calling" /\ number[d] < MaxAttempts
  /\ \E delay \in 0..MaxDelay : until' = [until EXCEPT ![d] = now + delay]
  /\ Goes(d, "sleeping")
  /\ UNCHANGED <<ledger, number, timeout, outcome, sent, store>>

WakeWithoutAdmission(d) ==
  /\ at[d] = "sleeping" /\ now >= until[d]
  /\ number' = [number EXCEPT ![d] = @ + 1]
  /\ Goes(d, "calling")
  /\ until' = [until EXCEPT ![d] = now + timeout[d]]
  /\ sent' = sent \cup {<<d, number'[d]>>}
  /\ UNCHANGED <<ledger, timeout, outcome, store>>

WakeUncounted(d) ==
  /\ at[d] = "sleeping" /\ now >= until[d]
  /\ Goes(d, "admitting")
  /\ UNCHANGED <<ledger, progress, outcome, sent, store>>

Wake(d) ==
  /\ at[d] = "sleeping" /\ now >= until[d]
  /\ number' = [number EXCEPT ![d] = @ + 1]
  /\ Goes(d, "admitting")
  /\ UNCHANGED <<ledger, timeout, until, outcome, sent, store>>

Cancel(d) ==
  /\ at[d] \in {"calling", "sleeping"}
  /\ Leaves(d, "cancelled")
  /\ UNCHANGED <<ledger, progress, sent, store>>

\* Answers and provider errors are measured; refusals and cancellations are not.
LeaveUnmeasured(d) ==
  /\ at[d] = "leaving"
  /\ Ledger!LeaveOperation(d)
  /\ Goes(d, IF outcome[d] = "answered" THEN "measuring" ELSE "out")
  /\ UNCHANGED <<progress, outcome, sent, store>>

Leave(d) ==
  /\ at[d] = "leaving"
  /\ Ledger!LeaveOperation(d)
  /\ Goes(d, IF outcome[d] \in {"answered", "provider"} THEN "measuring" ELSE "out")
  /\ UNCHANGED <<progress, outcome, sent, store>>

MeasureError(d) ==
  /\ at[d] = "measuring" /\ outcome[d] = "provider"
  /\ Ledger!Record(d, "unknown", "counted")
  /\ Goes(d, "out")
  /\ UNCHANGED <<progress, outcome, sent, store>>

\* A late answer is kept as history; it is a result only over current inputs.
ConcludeUnchecked(d) ==
  /\ at[d] = "measuring" /\ outcome[d] = "answered"
  /\ \E kind \in {"observed", "unknown"} : Ledger!Record(d, kind, "counted")
  /\ recorded' = recorded \cup {d}
  /\ Ends(d, "decided")
  /\ UNCHANGED <<progress, sent, changed>>

Conclude(d) ==
  /\ at[d] = "measuring" /\ outcome[d] = "answered"
  /\ \E kind \in {"observed", "unknown"} : Ledger!Record(d, kind, "counted")
  /\ recorded' = recorded \cup {d}
  /\ Ends(d, IF InputsCurrent(d) THEN "decided" ELSE "stale")
  /\ UNCHANGED <<progress, sent, changed>>

-----------------------------------------------------------------------------
(* The host changes a source, and time passes up to the next timer.  An attempt is
   admitted at the instant its timeout is computed or its delay is over. *)

Change(e) ==
  /\ e \notin changed
  /\ changed' = changed \cup {e}
  /\ UNCHANGED <<ledger, at, progress, outcome, sent, recorded>>

Tick ==
  /\ \A d \in Decisions :
       at[d] # "admitting" /\ (at[d] \in {"calling", "sleeping"} => now < until[d])
  /\ Ledger!Tick
  /\ UNCHANGED <<at, progress, outcome, sent, store>>

Step(d) ==
  \/ RefuseStale(d) \/ Start(d) \/ Begin(d) \/ Admit(d) \/ Answer(d) \/ Fail(d) \/ Retry(d)
  \/ Wake(d) \/ Leave(d) \/ MeasureError(d) \/ Conclude(d)

Finished == (\A d \in Decisions : at[d] = "out") /\ UNCHANGED vars

Next ==
  \/ \E d \in Decisions : Step(d) \/ Cancel(d)
  \/ \E e \in Sources : Change(e)
  \/ Tick
  \/ Finished

Spec == Init /\ [][Next]_vars

\* asyncio runs what is ready, the SDK raises when a call's time is over, time passes.
FairSpec == Spec /\ WF_vars(Tick) /\ \A d \in Decisions : WF_vars(Step(d))

-----------------------------------------------------------------------------
(* Properties. *)

TypeOK ==
  /\ Ledger!TypeOK
  /\ at \in [Decisions -> {"idle", "entered", "admitting", "calling", "sleeping", "leaving",
                           "measuring", "out"}]
  /\ number \in [Decisions -> 0..MaxAttempts]
  /\ timeout \in [Decisions -> 0..Deadline]
  /\ until \in [Decisions -> Nat]
  /\ outcome \in [Decisions -> {"none", "inputs", "refused", "answered", "provider", "cancelled",
                                "decided", "stale"}]
  /\ sent \subseteq AttemptIds /\ recorded \subseteq Decisions /\ changed \subseteq Sources

\* Whatever fails and is retried, no request reaches the provider without an
\* admission of its own: the requests of all decisions together stay within the
\* limits, and those of one decision are its attempts 1, 2, ... in order.
RequestsAdmitted ==
  /\ \A id \in sent : attempts[id] = 1
  /\ Cardinality(sent) <= ProviderAttempts /\ Cardinality(sent) <= SubmittedQuestions
  /\ \A id \in sent : id[2] > 1 => <<id[1], id[2] - 1>> \in sent

\* A decision is measured exactly once when the provider answered it or failed
\* it, as unknown if it failed, and never when it was refused or cancelled
\* (record_usage in evaluate and in its except clause).
MeasuredOnce ==
  \A d \in Decisions :
    LET kinds == {kind \in {"observed", "unknown"} : measured[<<d, kind>>] # "nothing"} IN
    /\ at[d] = "out" =>
         (Cardinality(kinds) = IF outcome[d] \in {"decided", "stale", "provider"} THEN 1 ELSE 0)
    /\ outcome[d] = "provider" => "observed" \notin kinds

\* A decision is returned only over inputs that did not change from before it
\* was sent until it returned; an answer that came too late is kept on record.
DecidedOverCurrentInputs ==
  [][\A d \in Decisions : outcome[d] = "answered" /\ outcome'[d] # "answered" =>
       d \in recorded' /\ (outcome'[d] = "decided" => InputsOf[d] \cap changed' = {})]_vars

\* Every decision that starts ends, whatever its retries.
DecisionsEnd == \A d \in Decisions : at[d] # "idle" ~> at[d] = "out"

\* "Every class of work has a finite budget and a monotonic deadline" (README.md):
\* no request is still under way after the deadline of its decision.
RequestsWithinDeadline == \A d \in Decisions : at[d] = "calling" => now <= Deadline
==============================================================================
