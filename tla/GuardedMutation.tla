--------------------------- MODULE GuardedMutation ---------------------------
(***************************************************************************)
(* Runtime._execute_mutation and _reconcile_mutation (runtime.py) run by   *)
(* concurrent tasks that share one UsageLedger: the gates before a write,  *)
(* the durable records around it, the dispatch, and what is recorded of    *)
(* every outcome, with cancellation, failing host callbacks, a clock, and  *)
(* evidence and arguments that change while the task awaits.               *)
(*                                                                         *)
(* A task is at an await (its pc) or between two; what the code does       *)
(* between two awaits is one step.                                         *)
(*                                                                         *)
(* A definition named for a defect (DispatchBeforeIntent, ...) is no part  *)
(* of the specification: it is the one below it with a seeded fault, kept  *)
(* to show that a property detects it.                                     *)
(***************************************************************************)
EXTENDS Integers, FiniteSets

CONSTANTS
  Runs,                  \* tasks executing a mutation tool, one each
  Runtimes,              \* Runtime objects, each with its own semaphore
  Operations,            \* operation ids (idempotency keys)
  RuntimeOf,             \* [Runs -> Runtimes]
  OperationOf,           \* [Runs -> Operations]
  HostChoices,           \* what hosts may supply: a set of subsets of Features
  ConcurrentOperations,  \* RunLimits.concurrent_operations
  ToolAttempts,          \* RunLimits.tool_attempts
  WriteLimit,            \* RunLimits.writes
  Deadline,              \* RunContext.deadline
  MaxTime,               \* bound on the clock
  MaxVersion,            \* bound on the changes of the action a task would build
  MaxCancels,            \* bound on cancellations of one task
  StoreMayFail           \* whether intent_store.record may raise

Features == {"authorizer", "intent_store", "durable_required", "checkpoint", "reconcile"}

ASSUME SharingAssumption ==
  RuntimeOf \in [Runs -> Runtimes] /\ OperationOf \in [Runs -> Operations]
ASSUME HostAssumption == HostChoices \subseteq SUBSET Features
ASSUME LimitsAssumption ==
  ConcurrentOperations \in Nat /\ ToolAttempts \in Nat /\ WriteLimit \in Nat
ASSUME BoundsAssumption ==
  /\ Deadline \in Nat /\ MaxTime \in Nat /\ MaxVersion \in Nat /\ MaxCancels \in Nat
  /\ StoreMayFail \in BOOLEAN

VARIABLES
  host,          \* the callbacks and contract flags in force, fixed at the start
  accepted,      \* the judgments bound to the arguments have acceptance records
  pc,            \* the await each task is at
  proposal,      \* version of the action digest the task proposed
  grant,         \* the authorization it holds
  pending,       \* why the record it is saving is saved
  live,          \* version of the action the task would build now
  fresh,         \* whether the evidence and acceptance it uses are current
  durable,       \* the last record of the task the intent store took
  local,         \* the ExecutionReference in the run's evidence store
  outcome,       \* how the node ended
  wire,          \* the task's request at the service
  sent,          \* version of the action handed to the tool
  slot,          \* tasks holding a permit of their runtime's semaphore
  operations,    \* ledger._operations
  active,        \* ledger._active
  toolAttempts,  \* ledger._tool_attempts
  writes,        \* ledger._writes
  now,
  cancels

approval == <<proposal, grant>>
gate == <<slot, active>>
ledger == <<operations, toolAttempts, writes>>
service == <<wire, sent>>
environment == <<live, fresh, now>>
config == <<host, accepted>>

vars == <<config, pc, approval, pending, environment, durable, local, outcome,
          service, gate, ledger, cancels>>

NoVersion == -1
Versions == 0..MaxVersion
NoGrant == [version |-> NoVersion, expires |-> 0]

Saving == {"propose", "approve", "intent", "abandon",
           "save_unknown", "save_success", "save_failed"}
Asking == {"checkpoint", "authorize", "reauthorize", "queued"}
BeforeDispatch == {"prepare", "propose", "checkpoint", "authorize", "approve",
                   "reauthorize", "queued", "intent", "abandon"}
Awaits == BeforeDispatch \cup Saving \cup {"calling", "reconcile", "done"}
Outcomes == {"none", "completed", "permission_denial", "unaccepted_judgment",
             "stale_source", "budget", "busy", "admission", "failed",
             "unknown_outcome", "cancelled"}

-----------------------------------------------------------------------------
(* Moving between awaits. *)

Go(r, to) ==
  /\ pc' = [pc EXCEPT ![r] = to]
  /\ UNCHANGED outcome

\* Leaving the "async with" block: the ledger slot, then the permit.
Release(r) ==
  /\ slot' = slot \ {r}
  /\ active' = IF r \in slot THEN active \ {OperationOf[r]} ELSE active

\* The node ends: an exception or a receipt leaves _execute_mutation.
End(r, how) ==
  /\ pc' = [pc EXCEPT ![r] = "done"]
  /\ outcome' = [outcome EXCEPT ![r] = how]
  /\ Release(r)

Note(r, state) == local' = [local EXCEPT ![r] = state]

\* The record a task at this await is saving.
RecordAt(r) ==
  CASE pc[r] = "propose" -> "proposed"
    [] pc[r] = "approve" -> "authorized"
    [] pc[r] = "intent" -> "in_flight"
    [] pc[r] = "save_unknown" -> "unknown"
    [] pc[r] = "save_success" -> "succeeded"
    [] OTHER -> "failed"

\* _persist_write: the store takes the record at some moment of the await, and
\* then the call returns.  Without a store there is nothing to await, unless
\* the mutation contract requires one.
StoreTakes(r) ==
  /\ pc[r] \in Saving
  /\ "intent_store" \in host
  /\ durable[r] # RecordAt(r)
  /\ durable' = [durable EXCEPT ![r] = RecordAt(r)]
  /\ UNCHANGED <<config, pc, approval, pending, environment, local, outcome,
                 service, gate, ledger, cancels>>

SaveReturns(r) ==
  IF "intent_store" \in host THEN durable[r] = RecordAt(r)
                             ELSE "durable_required" \notin host

\* Whether or not the store took the record.
SaveRaises(r) == StoreMayFail /\ "intent_store" \in host

-----------------------------------------------------------------------------
Init ==
  /\ host \in HostChoices
  /\ accepted \in [Runs -> BOOLEAN]
  /\ pc = [r \in Runs |-> "prepare"]
  /\ proposal = [r \in Runs |-> NoVersion]
  /\ grant = [r \in Runs |-> NoGrant]
  /\ pending = [r \in Runs |-> "none"]
  /\ live = [r \in Runs |-> 0]
  /\ fresh = [r \in Runs |-> TRUE]
  /\ durable = [r \in Runs |-> "none"]
  /\ local = [r \in Runs |-> "none"]
  /\ outcome = [r \in Runs |-> "none"]
  /\ wire = [r \in Runs |-> "idle"]
  /\ sent = [r \in Runs |-> NoVersion]
  /\ slot = {}
  /\ operations = {}
  /\ active = {}
  /\ toolAttempts = {}
  /\ writes = {}
  /\ now = 0
  /\ cancels = [r \in Runs |-> 0]

\* The checks before the first await: an authorizer, acceptance of every bound
\* judgment, current evidence (whose error is not an Unresolved here).
PrepareError(r) ==
  IF "authorizer" \notin host THEN "permission_denial"
  ELSE IF ~ accepted[r] THEN "unaccepted_judgment"
  ELSE IF ~ fresh[r] THEN "failed"
  ELSE "none"

Prepare(r) ==
  /\ pc[r] = "prepare"
  /\ \/ /\ PrepareError(r) = "none"
        /\ proposal' = [proposal EXCEPT ![r] = live[r]]
        /\ Go(r, "propose")
        /\ UNCHANGED gate
     \/ /\ PrepareError(r) # "none"
        /\ End(r, PrepareError(r))
        /\ UNCHANGED proposal
  /\ UNCHANGED <<config, grant, pending, environment, durable, local, service,
                 ledger, cancels>>

PersistProposed(r) ==
  /\ pc[r] = "propose"
  /\ SaveReturns(r)
  /\ Go(r, IF "checkpoint" \in host THEN "checkpoint" ELSE "authorize")
  /\ UNCHANGED <<config, approval, pending, environment, durable, local, service, gate,
                 ledger, cancels>>

\* A mutation that requires durable intent is refused by a host without a store.
RefuseWithoutStore(r) ==
  /\ pc[r] = "propose"
  /\ "intent_store" \notin host /\ "durable_required" \in host
  /\ End(r, "permission_denial")
  /\ UNCHANGED <<config, approval, pending, environment, durable, local, service,
                 ledger, cancels>>

\* A store error before the dispatch fails the tool.
PersistFails(r) ==
  /\ pc[r] \in {"propose", "approve", "intent"}
  /\ SaveRaises(r)
  /\ End(r, "failed")
  /\ UNCHANGED <<config, approval, pending, environment, durable, local, service, ledger, cancels>>

\* The required checkpoint accepts the exact action, or fails closed.
Checkpoint(r) ==
  /\ pc[r] = "checkpoint"
  /\ \/ Go(r, "authorize") /\ UNCHANGED gate
     \/ End(r, "unaccepted_judgment")
  /\ UNCHANGED <<config, approval, pending, environment, durable, local, service,
                 ledger, cancels>>

\* The authorizer permits the proposed action until some later time, or the
\* task is denied: the callback raised, refused, or returned a record for
\* another action or already expired.
Authorize(r) ==
  /\ pc[r] \in {"authorize", "reauthorize"}
  /\ \/ /\ \E expires \in (now + 1)..(MaxTime + 1) :
             grant' = [grant EXCEPT ![r] = [version |-> proposal[r], expires |-> expires]]
        /\ Go(r, IF pc[r] = "authorize" THEN "approve" ELSE "queued")
        /\ UNCHANGED gate
     \/ End(r, "permission_denial") /\ UNCHANGED grant
  /\ UNCHANGED <<config, proposal, pending, environment, durable, local, service,
                 ledger, cancels>>

\* current_action: rebuild the action from live inputs and compare.
ActionErrorIgnoringDigest(r) ==
  IF now >= Deadline THEN "budget"
  ELSE IF ~ fresh[r] THEN "stale_source"
  ELSE IF ~ (now < grant[r].expires) THEN "permission_denial"
  ELSE "none"

ActionError(r) ==
  IF now >= Deadline THEN "budget"
  ELSE IF ~ fresh[r] \/ live[r] # proposal[r] THEN "stale_source"
  ELSE IF ~ (grant[r].version = live[r] /\ now < grant[r].expires)
       THEN "permission_denial"
  ELSE "none"

Approve(r) ==
  /\ pc[r] = "approve"
  /\ SaveReturns(r)
  /\ \/ ActionError(r) = "none" /\ Go(r, "reauthorize") /\ UNCHANGED gate
     \/ ActionError(r) # "none" /\ End(r, ActionError(r))
  /\ UNCHANGED <<config, approval, pending, environment, durable, local, service, ledger, cancels>>

-----------------------------------------------------------------------------
(* Admission: the semaphore, then the ledger's own slot and counts. *)

PermitFree(r) ==
  Cardinality({s \in slot : RuntimeOf[s] = RuntimeOf[r]}) < ConcurrentOperations

\* UsageLedger.operation: ids are never reused, a full ledger refuses.
OperationErrorReusingIds(r) ==
  IF now >= Deadline THEN "budget"
  ELSE IF OperationOf[r] \in active THEN "admission"
  ELSE IF Cardinality(active) >= ConcurrentOperations THEN "busy"
  ELSE "none"

OperationError(r) ==
  IF now >= Deadline THEN "budget"
  ELSE IF OperationOf[r] \in operations THEN "admission"
  ELSE IF Cardinality(active) >= ConcurrentOperations THEN "busy"
  ELSE "none"

\* An id that was counted before is admitted again at no cost.
ToolsLeft(r) == OperationOf[r] \in toolAttempts \/ Cardinality(toolAttempts) < ToolAttempts

WritesLeftOneMore(r) == OperationOf[r] \in writes \/ Cardinality(writes) <= WriteLimit

WritesLeft(r) == OperationOf[r] \in writes \/ Cardinality(writes) < WriteLimit

\* A refusal inside the block leaves it; the operation id, and an attempt that
\* was counted, stay used.
Admit(r) ==
  LET op == OperationOf[r] IN
  /\ pc[r] = "queued"
  /\ PermitFree(r)
  /\ \/ /\ OperationError(r) # "none"
        /\ End(r, OperationError(r))
        /\ UNCHANGED ledger
     \/ /\ OperationError(r) = "none"
        /\ operations' = operations \cup {op}
        /\ toolAttempts' = IF ToolsLeft(r) THEN toolAttempts \cup {op} ELSE toolAttempts
        /\ \/ /\ ToolsLeft(r) /\ WritesLeft(r)
              /\ writes' = writes \cup {op}
              /\ slot' = slot \cup {r}
              /\ active' = active \cup {op}
              /\ Go(r, "intent")
           \/ /\ ~ (ToolsLeft(r) /\ WritesLeft(r))
              /\ End(r, "budget")
              /\ UNCHANGED writes
  /\ UNCHANGED <<config, approval, pending, environment, durable, local, service, cancels>>

-----------------------------------------------------------------------------
(* The dispatch, in the block. *)

\* Revalidate, then call the tool: nothing is awaited in between.
DispatchWithoutRecheck(r) ==
  /\ pc[r] = "intent"
  /\ SaveReturns(r)
  /\ now < Deadline
  /\ wire' = [wire EXCEPT ![r] = "sent"]
  /\ sent' = [sent EXCEPT ![r] = live[r]]
  /\ Go(r, "calling")
  /\ UNCHANGED <<config, approval, pending, environment, durable, local, gate, ledger, cancels>>

DispatchBeforeIntent(r) ==
  /\ pc[r] = "intent"
  /\ ActionError(r) = "none"
  /\ wire' = [wire EXCEPT ![r] = "sent"]
  /\ sent' = [sent EXCEPT ![r] = live[r]]
  /\ Go(r, "calling")
  /\ UNCHANGED <<config, approval, pending, environment, durable, local, gate, ledger, cancels>>

Dispatch(r) ==
  /\ pc[r] = "intent"
  /\ SaveReturns(r)
  /\ ActionError(r) = "none"
  /\ wire' = [wire EXCEPT ![r] = "sent"]
  /\ sent' = [sent EXCEPT ![r] = live[r]]
  /\ Go(r, "calling")
  /\ UNCHANGED <<config, approval, pending, environment, durable, local, gate, ledger, cancels>>

\* The deadline passes between the revalidation and the computation of the
\* call's timeout: _call raises, and the error is treated as ambiguous.
DispatchTooLate(r) ==
  /\ pc[r] = "intent"
  /\ SaveReturns(r)
  /\ ActionError(r) = "none"
  /\ now + 1 >= Deadline /\ now < MaxTime
  /\ now' = now + 1
  /\ pending' = [pending EXCEPT ![r] = "ambiguous"]
  /\ Go(r, "save_unknown")
  /\ UNCHANGED <<config, approval, live, fresh, durable, local, service, gate, ledger, cancels>>

Abandon(r) ==
  /\ pc[r] = "intent"
  /\ SaveReturns(r)
  /\ ActionError(r) # "none"
  /\ pending' = [pending EXCEPT ![r] = ActionError(r)]
  /\ Go(r, "abandon")
  /\ UNCHANGED <<config, approval, environment, durable, local, service, gate, ledger, cancels>>

SaveAbandoned(r) ==
  /\ pc[r] = "abandon"
  /\ SaveReturns(r) \/ SaveRaises(r)
  /\ Note(r, "failed")
  /\ End(r, pending[r])
  /\ UNCHANGED <<config, approval, pending, environment, durable, service, ledger, cancels>>

\* A valid receipt: the block is left before the receipt is recorded.
CallReturns(r) ==
  /\ pc[r] = "calling"
  /\ \/ wire[r] = "applied" /\ Go(r, "save_success")
     \/ wire[r] = "dropped" /\ Go(r, "save_failed")
     \/ Go(r, "save_unknown")
  /\ pending' = [pending EXCEPT ![r] = "receipt"]
  /\ Release(r)
  /\ UNCHANGED <<config, approval, environment, durable, local, service, ledger, cancels>>

\* EffectNotStartedError: an honest tool raises it only when nothing was sent.
EffectNotStarted(r) ==
  /\ pc[r] = "calling"
  /\ wire[r] = "dropped"
  /\ pending' = [pending EXCEPT ![r] = "not_started"]
  /\ Go(r, "save_failed")
  /\ UNCHANGED <<config, approval, environment, durable, local, service, gate, ledger, cancels>>

\* Any other error, a timeout or an invalid receipt, whatever the service does.
CallRaisesAsFailure(r) ==
  /\ pc[r] = "calling"
  /\ pending' = [pending EXCEPT ![r] = "ambiguous"]
  /\ Go(r, "save_failed")
  /\ UNCHANGED <<config, approval, environment, durable, local, service, gate, ledger, cancels>>

CallRaises(r) ==
  /\ pc[r] = "calling"
  /\ pending' = [pending EXCEPT ![r] = "ambiguous"]
  /\ Go(r, "save_unknown")
  /\ UNCHANGED <<config, approval, environment, durable, local, service, gate, ledger, cancels>>

-----------------------------------------------------------------------------
(* Recording what is known of the outcome. *)

SaveUnknown(r) ==
  /\ pc[r] = "save_unknown"
  /\ \/ /\ pending[r] = "cancelled"
        /\ SaveReturns(r) \/ SaveRaises(r)
        /\ Note(r, "unknown")
        /\ End(r, "cancelled")
     \/ /\ pending[r] = "ambiguous"
        /\ SaveReturns(r) \/ SaveRaises(r)
        /\ Go(r, "reconcile")
        /\ UNCHANGED <<local, gate>>
     \/ /\ pending[r] = "receipt"
        /\ SaveReturns(r)
        /\ Go(r, "reconcile")
        /\ UNCHANGED <<local, gate>>
     \/ /\ pending[r] = "receipt"
        /\ SaveRaises(r)
        /\ End(r, "failed")
        /\ UNCHANGED local
  /\ UNCHANGED <<config, approval, pending, environment, durable, service, ledger, cancels>>

ReconcileByResending(r) ==
  /\ pc[r] = "reconcile"
  /\ wire' = [wire EXCEPT ![r] = "sent"]
  /\ Go(r, "calling")
  /\ UNCHANGED <<config, approval, pending, environment, durable, local, sent,
                 gate, ledger, cancels>>

Reconcile(r) ==
  /\ pc[r] = "reconcile"
  /\ \/ /\ "reconcile" \in host
        /\ \/ wire[r] = "applied" /\ Go(r, "save_success")
           \/ wire[r] \in {"idle", "dropped"} /\ Go(r, "save_failed")
        /\ UNCHANGED <<local, gate>>
     \/ /\ Note(r, "unknown")
        /\ End(r, "unknown_outcome")
  /\ UNCHANGED <<config, approval, pending, environment, durable, service, ledger, cancels>>

SaveSuccess(r) ==
  /\ pc[r] = "save_success"
  /\ \/ /\ SaveReturns(r)
        /\ Note(r, "succeeded")
        /\ End(r, "completed")
     \/ /\ SaveRaises(r)
        /\ Note(r, "unknown")
        /\ End(r, "unknown_outcome")
  /\ UNCHANGED <<config, approval, pending, environment, durable, service, ledger, cancels>>

SaveFailed(r) ==
  /\ pc[r] = "save_failed"
  /\ \/ SaveReturns(r) /\ Note(r, "failed")
     \/ SaveRaises(r) /\ UNCHANGED local
  /\ End(r, "failed")
  /\ UNCHANGED <<config, approval, pending, environment, durable, service, ledger, cancels>>

\* CancelledError is raised at whatever the task awaits.  It is no Exception:
\* only the call and the lookup have a handler for it.
Cancel(r) ==
  /\ cancels[r] < MaxCancels
  /\ cancels' = [cancels EXCEPT ![r] = @ + 1]
  /\ \/ /\ pc[r] \in Asking
        /\ End(r, "cancelled")
        /\ UNCHANGED <<pending, local>>
     \/ /\ pc[r] \in Saving /\ "intent_store" \in host
        /\ End(r, "cancelled")
        /\ UNCHANGED <<pending, local>>
     \/ /\ pc[r] = "calling"
        /\ pending' = [pending EXCEPT ![r] = "cancelled"]
        /\ Go(r, "save_unknown")
        /\ UNCHANGED <<local, gate>>
     \/ /\ pc[r] = "reconcile" /\ "reconcile" \in host
        /\ Note(r, "unknown")
        /\ End(r, "cancelled")
        /\ UNCHANGED pending
  /\ UNCHANGED <<config, approval, environment, durable, service, ledger>>

-----------------------------------------------------------------------------
(* The service and the world outside the task. *)

Serve(r) ==
  /\ wire[r] = "sent"
  /\ \E result \in {"applied", "dropped"} : wire' = [wire EXCEPT ![r] = result]
  /\ UNCHANGED <<config, pc, approval, pending, environment, durable, local,
                 outcome, sent, gate, ledger, cancels>>

Invalidate(r) ==
  /\ pc[r] \in BeforeDispatch /\ fresh[r]
  /\ fresh' = [fresh EXCEPT ![r] = FALSE]
  /\ UNCHANGED <<config, pc, approval, pending, live, now, durable, local,
                 outcome, service, gate, ledger, cancels>>

ChangeAction(r) ==
  /\ pc[r] \in BeforeDispatch /\ live[r] < MaxVersion
  /\ live' = [live EXCEPT ![r] = @ + 1]
  /\ UNCHANGED <<config, pc, approval, pending, fresh, now, durable, local,
                 outcome, service, gate, ledger, cancels>>

Tick ==
  /\ now < MaxTime
  /\ now' = now + 1
  /\ UNCHANGED <<config, pc, approval, pending, live, fresh, durable, local,
                 outcome, service, gate, ledger, cancels>>

Step(r) ==
  \/ StoreTakes(r) \/ Prepare(r) \/ PersistProposed(r) \/ RefuseWithoutStore(r) \/ PersistFails(r)
  \/ Checkpoint(r) \/ Authorize(r) \/ Approve(r) \/ Admit(r)
  \/ Dispatch(r) \/ DispatchTooLate(r) \/ Abandon(r) \/ SaveAbandoned(r)
  \/ CallReturns(r) \/ EffectNotStarted(r) \/ CallRaises(r)
  \/ SaveUnknown(r) \/ Reconcile(r) \/ SaveSuccess(r) \/ SaveFailed(r)

\* Every task has ended; only the world goes on.
Finished ==
  /\ \A r \in Runs : pc[r] = "done"
  /\ UNCHANGED vars

Next ==
  \/ \E r \in Runs : Step(r) \/ Cancel(r) \/ Serve(r) \/ Invalidate(r) \/ ChangeAction(r)
  \/ Tick
  \/ Finished

Spec == Init /\ [][Next]_vars

\* Tasks run and host callbacks return; nobody owes a cancellation, a change or
\* an answer of the service.
FairSpec == Spec /\ \A r \in Runs : WF_vars(Step(r))

-----------------------------------------------------------------------------
(* Invariants. *)

Intents == {"none", "proposed", "authorized", "in_flight",
            "succeeded", "failed", "unknown"}

TypeOK ==
  /\ host \in SUBSET Features /\ accepted \in [Runs -> BOOLEAN]
  /\ pc \in [Runs -> Awaits]
  /\ proposal \in [Runs -> Versions \cup {NoVersion}]
  /\ grant \in [Runs -> [version : Versions \cup {NoVersion}, expires : 0..(MaxTime + 1)]]
  /\ pending \in [Runs -> Outcomes \cup {"receipt", "ambiguous", "not_started"}]
  /\ live \in [Runs -> Versions] /\ fresh \in [Runs -> BOOLEAN]
  /\ durable \in [Runs -> Intents]
  /\ local \in [Runs -> {"none", "succeeded", "failed", "unknown"}]
  /\ outcome \in [Runs -> Outcomes]
  /\ wire \in [Runs -> {"idle", "sent", "applied", "dropped"}]
  /\ sent \in [Runs -> Versions \cup {NoVersion}]
  /\ slot \subseteq Runs
  /\ operations \subseteq Operations /\ active \subseteq Operations
  /\ toolAttempts \subseteq Operations /\ writes \subseteq Operations
  /\ now \in 0..MaxTime
  /\ cancels \in [Runs -> 0..MaxCancels]

\* Whoever reads only the intent store after a crash knows of every effect that
\* may exist: with a store, a request the service may hold or has performed has
\* a record saying so (in flight, unknown or succeeded), and a record that says
\* "failed before effect" is true.
WriteAheadIntent ==
  "intent_store" \in host =>
    \A r \in Runs :
      wire[r] \in {"sent", "applied"} => durable[r] \in {"in_flight", "unknown", "succeeded"}

\* What the tool is called with is the very action that was proposed to the
\* authorizer and permitted by the last answer, though arguments and sources may
\* change during every await.
ApprovedActionOnly ==
  \A r \in Runs :
    sent[r] # NoVersion => sent[r] = proposal[r] /\ sent[r] = grant[r].version

\* Every record and result is true: success, in the store, in the run's evidence
\* or as the node's result, only of an effect that was performed, and failure
\* before effect only of one that was not and never will be.
TruthfulRecords ==
  \A r \in Runs :
    /\ "succeeded" \in {durable[r], local[r]} \/ outcome[r] = "completed"
         => wire[r] = "applied"
    /\ "failed" \in {durable[r], local[r]} => wire[r] \in {"idle", "dropped"}

\* Tasks that use one idempotency key reach the service at most once between them,
\* even when the first has ended, failed or was cancelled.
OneDispatchPerOperation ==
  \A r, s \in Runs :
    OperationOf[r] = OperationOf[s] /\ wire[r] # "idle" /\ wire[s] # "idle" => r = s

\* The slots of the ledger and the permits of the semaphores tell the same story
\* on every path out of the block, and neither is leaked or exceeded.
SlotsMatch ==
  /\ active = {OperationOf[r] : r \in slot}
  /\ \A r, s \in slot : OperationOf[r] = OperationOf[s] => r = s
  /\ Cardinality(slot) <= ConcurrentOperations
  /\ \A r \in slot : pc[r] \notin {"queued", "done"}
  /\ \A r \in Runs : pc[r] = "calling" => r \in slot

\* Whatever was handed to a tool was admitted first, within the limits.
DispatchesAdmitted ==
  /\ \A r \in Runs : wire[r] # "idle" => OperationOf[r] \in writes \cap toolAttempts
  /\ Cardinality(writes) <= WriteLimit
  /\ Cardinality(toolAttempts) <= ToolAttempts

\* A Runtime that has the ledger to itself waits for its own semaphore: its
\* writes are never refused by the ledger for being concurrent.
SoleRuntimeNeverRefused ==
  (\A r, s \in Runs : RuntimeOf[r] = RuntimeOf[s]) => \A r \in Runs : outcome[r] # "busy"

\* A call that ended without a receipt is on record as unknown or settled, in the
\* run's evidence or in the store (docs/architecture.md, "records
\* outcome_unknown after any possibly accepted request with no valid receipt").
UnreceiptedDispatchRecorded ==
  \A r \in Runs :
    pc[r] = "done" /\ sent[r] # NoVersion /\ pending[r] \in {"ambiguous", "cancelled"} =>
      local[r] # "none" \/ durable[r] \in {"unknown", "succeeded", "failed"}

-----------------------------------------------------------------------------
(* Action and temporal properties. *)

\* At the instant of the dispatch everything the authorization rested on still
\* holds: evidence and acceptance current, the action unchanged, the permission
\* unexpired, the deadline ahead, the intent on record.
DispatchRevalidated ==
  [][\A r \in Runs :
       wire[r] = "idle" /\ wire'[r] # "idle" =>
         /\ fresh[r] /\ live[r] = proposal[r]
         /\ now < Deadline /\ now < grant[r].expires
         /\ "intent_store" \in host => durable[r] = "in_flight"]_vars

\* With an intent store, the write path does what WriteLifecycle promises.
Lifecycle == INSTANCE WriteLifecycle WITH Writes <- Runs, intent <- durable, effect <- wire

ImplementsLifecycle == Lifecycle!Spec

\* Every task ends: with a result, a refusal or an unknown outcome.
RunsEnd == \A r \in Runs : <>(pc[r] = "done")
=============================================================================
