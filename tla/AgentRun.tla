------------------------------- MODULE AgentRun -------------------------------
(***************************************************************************)
(* Runtime.run (runtime.py): one agent run.  Candidate providers are       *)
(* retrieved together; then, wave by wave, every node whose dependencies   *)
(* completed executes concurrently; then the completion check runs.        *)
(* Workers share the Runtime's semaphore, judgments over an incomplete     *)
(* candidate set are investigated and decided again, and the host may      *)
(* invalidate evidence or cancel the run at any await.                     *)
(*                                                                         *)
(* The graph is the one compile_agent returned, so it is acyclic and every *)
(* node serves a required finding.  Only PURE and READ tools run here;     *)
(* GuardedMutation has the others.                                         *)
(*                                                                         *)
(* A definition named for a defect (ConditionCompletes, ...) is the one below   *)
(* it with a seeded fault, kept to show that a property detects it.        *)
(***************************************************************************)
EXTENDS Integers, Sequences, FiniteSets

CONSTANTS
  Providers,             \* candidate providers, one retrieval each
  Tools, Judgments,      \* nodes of the compiled graph
  Sources,               \* records of the evidence session before the run
  Order,                 \* the nodes in program order, a sequence
  DependsOn,             \* [Nodes -> SUBSET Nodes]
  EvidenceOf,            \* [Nodes -> SUBSET Records]: what must be current to run it
  CandidatesOf,          \* [choosing judgments -> Providers]
  Conditional,           \* judgments with an applicability check
  Policed,               \* judgments with an acceptance policy
  Required,              \* nodes of the completion contract
  Subject,               \* [choosing judgments -> what an investigation is told of them]
  Investigable,          \* whether an InvestigationAction is registered
  ConcurrentOperations, InvestigationSteps,   \* RunLimits
  MaxVersion,            \* bound on the expansions of a candidate set
  MaxInvalidations,      \* bound on the invalidations by the host
  MayCancel, MayBeRefused   \* whether the run may be cancelled; refused by a limit or its deadline

Nodes == Tools \cup Judgments
Records == Sources \cup Nodes
Choosers == DOMAIN CandidatesOf
Workers == Providers \cup Nodes

ASSUME GraphAssumption ==
  /\ IsFiniteSet(Nodes) /\ Tools \cap Judgments = {} /\ Nodes \cap (Providers \cup Sources) = {}
  /\ Order \in Seq(Nodes)
  /\ DependsOn \in [Nodes -> SUBSET Nodes] /\ EvidenceOf \in [Nodes -> SUBSET Records]
  /\ \A n \in Nodes : EvidenceOf[n] \ Sources \subseteq DependsOn[n]
  /\ Choosers \subseteq Judgments /\ CandidatesOf \in [Choosers -> Providers]
  /\ Conditional \subseteq Judgments /\ Policed \subseteq Judgments
  /\ Required \subseteq Nodes /\ Required # {}
  /\ Len(Order) = Cardinality(Nodes) /\ {Order[i] : i \in 1..Len(Order)} = Nodes
  /\ \A i \in 1..Len(Order) : DependsOn[Order[i]] \subseteq {Order[k] : k \in 1..(i - 1)}
ASSUME LimitsAssumption ==
  ConcurrentOperations \in Nat /\ InvestigationSteps \in Nat /\ MaxVersion \in Nat
    /\ MaxInvalidations \in Nat

\* A set of records or nodes with everything it derives from.
Closure(S, links) ==
  {x \in Records : \A C \in SUBSET Records :
     (S \subseteq C /\ \A n \in C \cap Nodes : links[n] \subseteq C) => x \in C}

Requires == [n \in Nodes |-> Closure({n}, DependsOn) \ {n}]
ASSUME NeededAssumption ==
  \A m \in Nodes : \E n \in Required : m = n \/ m \in Requires[n]

DerivesFrom == [x \in Records |-> Closure({x}, EvidenceOf)]

VARIABLES
  phase,       \* "retrieving", "waves", "checking", "cancelling" or "ended"
  result,      \* how the run ended
  status,      \* state.statuses
  at,          \* the await each worker is at
  raised,      \* what ended each worker
  permits,     \* workers holding the semaphore
  wave,        \* the nodes of the current gather
  snapshot,    \* state.candidates
  presented,   \* the snapshot each choosing judgment decides over
  recorded,    \* nodes with a record in the evidence store (tool output, decision)
  count,       \* records the run added, which an investigation's fingerprint covers
  accepted,    \* state.acceptance_refs
  stale,       \* records the host invalidated, and not yet replaced
  probes,      \* state.investigation_fingerprints
  dispatched,  \* decisions for which the provider was called
  reported,    \* those whose usage is in state.usages
  changes      \* invalidations so far

workers == <<status, at, raised, permits>>
evidence == <<recorded, count, accepted, stale>>
usage == <<dispatched, reported>>
vars == <<phase, result, workers, wave, snapshot, presented, evidence, probes, usage, changes>>

NoSnapshot == [version |-> -1, empty |-> FALSE, complete |-> FALSE]
Snapshots == [version : 0..MaxVersion, empty : BOOLEAN, complete : BOOLEAN]

Errors == {"failed", "provider", "stale", "refuted", "unaccepted", "no_progress",
           "incomplete", "budget", "retry", "clarification", "cancelled"}

\* A retry is refused with the errors of any other admission.
Outcome(error) == IF error = "retry" THEN "budget" ELSE error

Current(x) == stale \cap DerivesFrom[x] = {}
InputsCurrent(n) == \A x \in EvidenceOf[n] : Current(x)

-----------------------------------------------------------------------------
(* Workers: a coroutine between its start and its end. *)

Moves(w, to) == at' = [at EXCEPT ![w] = to] /\ UNCHANGED <<status, raised>>

Raises(w, error) ==
  /\ at' = [at EXCEPT ![w] = "out"]
  /\ raised' = [raised EXCEPT ![w] = error]
  /\ UNCHANGED status

Finishes(w, state) ==
  /\ at' = [at EXCEPT ![w] = "out"]
  /\ status' = [status EXCEPT ![w] = state]
  /\ UNCHANGED raised

Leaves(w) == permits' = permits \ {w}

MayEnter(w) == Cardinality(permits) < ConcurrentOperations

Ends(how) == phase' = "ended" /\ result' = how

-----------------------------------------------------------------------------
Init ==
  /\ phase = "retrieving" /\ result = "none"
  /\ status = [n \in Nodes |-> "pending"]
  /\ at = [w \in Workers |-> IF w \in Providers THEN "queued" ELSE "idle"]
  /\ raised = [w \in Workers |-> "none"]
  /\ permits = {} /\ wave = {}
  /\ snapshot = [p \in Providers |-> NoSnapshot]
  /\ presented = [j \in Choosers |-> NoSnapshot]
  /\ recorded = {} /\ count = 0 /\ accepted = {} /\ stale = {}
  /\ probes = {} /\ dispatched = 0 /\ reported = 0 /\ changes = 0

\* gather without return_exceptions: the first failure ends the run at once, and
\* the other retrievals go on by themselves.
RetrievalFails(error) ==
  IF phase = "retrieving" THEN Ends(error) ELSE UNCHANGED <<phase, result>>

\* A retrieval takes a permit and is admitted, or the shared ledger refuses it.
EnterRetrieval(p) ==
  /\ at[p] = "queued" /\ phase # "cancelling" /\ MayEnter(p)
  /\ \/ Moves(p, "working") /\ permits' = permits \cup {p} /\ UNCHANGED <<phase, result>>
     \/ MayBeRefused /\ Raises(p, "budget") /\ UNCHANGED permits /\ RetrievalFails("budget")
  /\ UNCHANGED <<wave, snapshot, presented, evidence, probes, usage, changes>>

LeaveRetrievalHoldingPermit(p) ==
  /\ at[p] = "working" /\ phase # "cancelling"
  /\ UNCHANGED permits
  /\ \/ /\ \E empty, complete \in BOOLEAN :
             snapshot' = [snapshot EXCEPT
               ![p] = [version |-> 0, empty |-> empty, complete |-> complete]]
        /\ Moves(p, "out")
        /\ UNCHANGED <<phase, result>>
     \/ Raises(p, "failed") /\ RetrievalFails("failed") /\ UNCHANGED snapshot
  /\ UNCHANGED <<wave, presented, evidence, probes, usage, changes>>

LeaveRetrieval(p) ==
  /\ at[p] = "working" /\ phase # "cancelling"
  /\ Leaves(p)
  /\ \/ /\ \E empty, complete \in BOOLEAN :
             snapshot' = [snapshot EXCEPT
               ![p] = [version |-> 0, empty |-> empty, complete |-> complete]]
        /\ Moves(p, "out")
        /\ UNCHANGED <<phase, result>>
     \/ Raises(p, "failed") /\ RetrievalFails("failed") /\ UNCHANGED snapshot
  /\ UNCHANGED <<wave, presented, evidence, probes, usage, changes>>

Retrieved ==
  /\ phase = "retrieving"
  /\ \A p \in Providers : at[p] = "out"
  /\ phase' = "waves"
  /\ UNCHANGED <<result, workers, wave, snapshot, presented, evidence, probes, usage, changes>>

-----------------------------------------------------------------------------
(* Scheduling. *)

Pending == {n \in Nodes : status[n] = "pending"}

\* One pass in program order skips everything below a skipped node.
SkipsNow == {n \in Pending : \E m \in Requires[n] : status[m] = "skipped"}

Ready == {n \in Pending \ SkipsNow : \A m \in DependsOn[n] : status[m] = "completed"}

StartWave ==
  /\ phase = "waves" /\ wave = {} /\ Pending # {}
  /\ status' = [n \in Nodes |-> IF n \in SkipsNow THEN "skipped"
                                ELSE IF n \in Ready THEN "running" ELSE status[n]]
  /\ \/ Ready # {} /\ wave' = Ready
        /\ at' = [w \in Workers |-> IF w \in Ready THEN "start" ELSE at[w]]
        /\ UNCHANGED <<phase, result>>
     \/ Ready = {} /\ Ends("no_progress") /\ UNCHANGED <<wave, at>>
  /\ UNCHANGED <<raised, permits, snapshot, presented, evidence, probes, usage, changes>>

\* The failure the run reports: the first in program order.
Failed == {i \in 1..Len(Order) : Order[i] \in wave /\ raised[Order[i]] # "none"}
FirstFailed == Order[CHOOSE i \in Failed : \A k \in Failed : i <= k]

\* A decision whose result was discarded, or whose provider failed, adds its
\* usage when its error is the one the run reports; a refused retry has none to add.
Settles == raised[FirstFailed] \in {"stale", "provider"}

EndWaveAtFirstFailure ==
  /\ phase = "waves" /\ wave # {}
  /\ (\A n \in wave : at[n] = "out") \/ Failed # {}
  /\ wave' = {}
  /\ IF Failed = {}
     THEN UNCHANGED <<phase, result, status, reported>>
     ELSE /\ Ends(Outcome(raised[FirstFailed]))
          /\ status' = [status EXCEPT ![FirstFailed] = "failed"]
          /\ reported' = IF Settles THEN reported + 1 ELSE reported
  /\ UNCHANGED <<at, raised, permits, snapshot, presented, evidence, probes, dispatched, changes>>

\* gather with return_exceptions: every node of the wave has ended.
EndWave ==
  /\ phase = "waves" /\ wave # {}
  /\ \A n \in wave : at[n] = "out"
  /\ wave' = {}
  /\ IF Failed = {}
     THEN UNCHANGED <<phase, result, status, reported>>
     ELSE /\ Ends(Outcome(raised[FirstFailed]))
          /\ status' = [status EXCEPT ![FirstFailed] = "failed"]
          /\ reported' = IF Settles THEN reported + 1 ELSE reported
  /\ UNCHANGED <<at, raised, permits, snapshot, presented, evidence, probes, dispatched, changes>>

-----------------------------------------------------------------------------
(* Nodes. *)

\* state.store.add of the record of n: a new record is current by itself.
AddsRecord(n) ==
  /\ recorded' = recorded \cup {n}
  /\ stale' = stale \ {n}
  /\ count' = count + 1

\* The candidate set is read here, before the semaphore is awaited.
Presents(j) ==
  presented' = IF j \in Choosers
               THEN [presented EXCEPT ![j] = snapshot[CandidatesOf[j]]] ELSE presented

\* What a node needs is read and must be current; a tool's arguments likewise.
Begins(n) ==
  \/ InputsCurrent(n) /\ Moves(n, "queued") /\ Presents(n)
  \/ ~ InputsCurrent(n) /\ Raises(n, "failed") /\ UNCHANGED presented

StartNode(n) ==
  /\ at[n] = "start" /\ phase = "waves"
  /\ \/ n \notin Conditional /\ Begins(n)
     \/ n \in Conditional /\ Moves(n, "condition") /\ UNCHANGED presented
  /\ UNCHANGED <<phase, result, permits, wave, snapshot, evidence, probes, usage, changes>>

\* _execute_node completes only a node that is still RUNNING.
ConditionCompletes(j) ==
  /\ at[j] = "condition" /\ phase = "waves"
  /\ \/ Begins(j)
     \/ Finishes(j, "completed") /\ UNCHANGED presented
     \/ Raises(j, "failed") /\ UNCHANGED presented
  /\ UNCHANGED <<phase, result, permits, wave, snapshot, evidence, probes, usage, changes>>

Condition(j) ==
  /\ at[j] = "condition" /\ phase = "waves"
  /\ \/ Begins(j)
     \/ Finishes(j, "skipped") /\ UNCHANGED presented
     \/ Raises(j, "failed") /\ UNCHANGED presented
  /\ UNCHANGED <<phase, result, permits, wave, snapshot, evidence, probes, usage, changes>>

\* _run_read_operation: the semaphore, the shared ledger, the call.
EnterTool(t) ==
  /\ at[t] = "queued" /\ phase = "waves" /\ MayEnter(t)
  /\ \/ Moves(t, "working") /\ permits' = permits \cup {t}
     \/ MayBeRefused /\ Raises(t, "budget") /\ UNCHANGED permits
  /\ UNCHANGED <<phase, result, wave, snapshot, presented, evidence, probes, usage, changes>>

\* The output is recorded whatever became of the inputs meanwhile.
LeaveTool(t) ==
  /\ at[t] = "working" /\ phase = "waves"
  /\ Leaves(t)
  /\ \/ Finishes(t, "completed") /\ AddsRecord(t)
     \/ Raises(t, "failed") /\ UNCHANGED <<recorded, stale, count>>
  /\ UNCHANGED <<phase, result, wave, snapshot, presented, accepted, probes, usage, changes>>

\* _investigate up to its call: a registered action, a fingerprint not seen yet,
\* an investigation left in the ledger.  records is the count of the store.
Fingerprint(j, records) ==
  [subject |-> Subject[j], needed |-> presented[j], candidates |-> snapshot,
   records |-> records]

Investigates(j, records) ==
  IF ~ Investigable THEN Raises(j, "incomplete") /\ UNCHANGED probes
  ELSE IF Fingerprint(j, records) \in probes
       THEN Raises(j, "no_progress") /\ UNCHANGED probes
  ELSE /\ probes' = probes \cup {Fingerprint(j, records)}
       /\ IF Cardinality(probes) >= InvestigationSteps THEN Raises(j, "budget")
                                                       ELSE Moves(j, "probe_queued")

\* DecisionClient under the semaphore: its inputs are validated again, an empty
\* candidate set is answered without the provider.
EnterJudgment(j) ==
  /\ at[j] = "queued" /\ phase = "waves" /\ MayEnter(j)
  /\ \/ ~ InputsCurrent(j) /\ Raises(j, "failed") /\ UNCHANGED <<permits, probes, dispatched>>
     \/ /\ InputsCurrent(j) /\ j \in Choosers /\ presented[j].empty
        /\ IF presented[j].complete THEN Raises(j, "refuted") /\ UNCHANGED probes
                                    ELSE Investigates(j, count)
        /\ UNCHANGED <<permits, dispatched>>
     \/ /\ InputsCurrent(j) /\ ~ (j \in Choosers /\ presented[j].empty)
        /\ \/ /\ Moves(j, "working")
              /\ permits' = permits \cup {j}
              /\ dispatched' = dispatched + 1
           \/ MayBeRefused /\ Raises(j, "budget") /\ UNCHANGED <<permits, dispatched>>
        /\ UNCHANGED probes
  /\ UNCHANGED <<phase, result, wave, snapshot, presented, evidence, reported, changes>>

\* After a decision: findings, and the acceptance policy if there is one.
Decided(j) == IF j \in Policed THEN Moves(j, "policy") ELSE Finishes(j, "completed")

\* The answer is recorded first, then found stale or used.
AnswersWithoutUsage(j) ==
  /\ at[j] = "working" /\ phase = "waves"
  /\ Leaves(j) /\ AddsRecord(j)
  /\ \/ ~ InputsCurrent(j) /\ Raises(j, "stale") /\ UNCHANGED <<probes, reported>>
     \/ /\ InputsCurrent(j)
        /\ \/ Decided(j) /\ reported' = reported + 1 /\ UNCHANGED probes
           \/ /\ j \in Choosers
              /\ IF presented[j].complete THEN Raises(j, "refuted") /\ UNCHANGED probes
                                          ELSE Investigates(j, count + 1)
              /\ UNCHANGED reported
  /\ UNCHANGED <<phase, result, wave, snapshot, presented, accepted, dispatched, changes>>

Answers(j) ==
  /\ at[j] = "working" /\ phase = "waves"
  /\ Leaves(j) /\ AddsRecord(j)
  /\ \/ ~ InputsCurrent(j) /\ Raises(j, "stale") /\ UNCHANGED <<probes, reported>>
     \/ /\ InputsCurrent(j)
        /\ \/ Decided(j) /\ UNCHANGED probes
           \/ /\ j \in Choosers
              /\ IF presented[j].complete THEN Raises(j, "refuted") /\ UNCHANGED probes
                                          ELSE Investigates(j, count + 1)
        /\ reported' = reported + 1
  /\ UNCHANGED <<phase, result, wave, snapshot, presented, accepted, dispatched, changes>>

ProviderFails(j) ==
  /\ at[j] = "working" /\ phase = "waves"
  /\ Leaves(j)
  /\ Raises(j, "provider")
  /\ UNCHANGED <<phase, result, wave, snapshot, presented, evidence, probes, usage, changes>>

\* A transient failure is retried, and the ledger refuses the new attempt: what
\* the attempts before it spent is in no error and no measurement.
RetryRefused(j) ==
  /\ at[j] = "working" /\ phase = "waves" /\ MayBeRefused
  /\ Leaves(j)
  /\ Raises(j, "retry")
  /\ UNCHANGED <<phase, result, wave, snapshot, presented, evidence, probes, usage, changes>>

EnterProbe(j) ==
  /\ at[j] = "probe_queued" /\ phase = "waves" /\ MayEnter(j)
  /\ \/ Moves(j, "probing") /\ permits' = permits \cup {j}
     \/ MayBeRefused /\ Raises(j, "budget") /\ UNCHANGED permits
  /\ UNCHANGED <<phase, result, wave, snapshot, presented, evidence, probes, usage, changes>>

\* The action expands the set the judgment was presented, as far as it can.
Expansions(j) ==
  {s \in Snapshots :
     \/ s.version = presented[j].version + 1 /\ ~ s.empty
     \/ presented[j].version = MaxVersion /\ s = presented[j]}

\* A set with the content of the current one is no change.
ProbeReturns(j) ==
  LET p == CandidatesOf[j] IN
  /\ at[j] = "probing" /\ phase = "waves"
  /\ Leaves(j)
  /\ \E s \in Expansions(j) \cup {NoSnapshot}, found \in 0..1 :
       LET expands == s \notin {NoSnapshot, snapshot[p]} IN
       /\ snapshot' = IF expands THEN [snapshot EXCEPT ![p] = s] ELSE snapshot
       /\ count' = count + found
       /\ IF expands \/ found > 0
          THEN /\ Moves(j, "queued")
               /\ presented' = [presented EXCEPT ![j] = snapshot'[p]]
          ELSE /\ Raises(j, "no_progress")
               /\ UNCHANGED presented
  /\ UNCHANGED <<phase, result, wave, recorded, accepted, stale, probes, usage, changes>>

ProbeFails(j) ==
  /\ at[j] = "probing" /\ phase = "waves"
  /\ Leaves(j)
  /\ Raises(j, "failed") \/ Raises(j, "clarification")
  /\ UNCHANGED <<phase, result, wave, snapshot, presented, evidence, probes, usage, changes>>

\* What the policy finds is recorded, a refusal too; a policy that raises leaves nothing.
Policy(j) ==
  /\ at[j] = "policy" /\ phase = "waves"
  /\ \/ /\ Finishes(j, "completed") \/ Raises(j, "unaccepted")
        /\ accepted' = accepted \cup {j}
        /\ count' = count + 1
     \/ Raises(j, "unaccepted") /\ UNCHANGED <<accepted, count>>
  /\ UNCHANGED <<phase, result, permits, wave, snapshot, presented, recorded, stale,
                 probes, usage, changes>>

-----------------------------------------------------------------------------
(* Completion. *)

RequiredDone == \A n \in Required : status[n] = "completed"
RequiredCurrent == \A n \in Required : Current(n)

\* Every decision is looked at, those no field of the result depends on too.
DecisionsCurrent == \A j \in Judgments \cap recorded : Current(j)

BeginCheck ==
  /\ phase = "waves" /\ wave = {} /\ Pending = {}
  /\ \/ RequiredDone /\ RequiredCurrent /\ phase' = "checking" /\ UNCHANGED result
     \/ RequiredDone /\ ~ RequiredCurrent /\ Ends("stale")
     \/ ~ RequiredDone /\ Ends("no_progress")
  /\ UNCHANGED <<workers, wave, snapshot, presented, evidence, probes, usage, changes>>

CheckReturnsUnchecked ==
  /\ phase = "checking"
  /\ \/ Ends("unaccepted") /\ UNCHANGED <<accepted, count>>
     \/ ~ DecisionsCurrent /\ Ends("failed") /\ UNCHANGED <<accepted, count>>
     \/ /\ DecisionsCurrent /\ Ends("completed")
        /\ accepted' = Judgments \cap recorded
        /\ count' = count + Cardinality(accepted' \ accepted)
  /\ UNCHANGED <<workers, wave, snapshot, presented, recorded, stale, probes, usage, changes>>

CheckReturns ==
  /\ phase = "checking"
  /\ \/ ~ RequiredCurrent /\ Ends("stale") /\ UNCHANGED <<accepted, count>>
     \/ RequiredCurrent /\ Ends("unaccepted") /\ UNCHANGED <<accepted, count>>
     \/ RequiredCurrent /\ ~ DecisionsCurrent /\ Ends("failed") /\ UNCHANGED <<accepted, count>>
     \/ /\ RequiredCurrent /\ DecisionsCurrent /\ Ends("completed")
        /\ accepted' = Judgments \cap recorded
        /\ count' = count + Cardinality(accepted' \ accepted)
  /\ UNCHANGED <<workers, wave, snapshot, presented, recorded, stale, probes, usage, changes>>

CheckRaises ==
  /\ phase = "checking"
  /\ Ends("failed")
  /\ UNCHANGED <<workers, wave, snapshot, presented, evidence, probes, usage, changes>>

-----------------------------------------------------------------------------
(* Cancellation of the run, and its host. *)

Cancel ==
  /\ MayCancel /\ phase \in {"retrieving", "waves", "checking"}
  /\ phase' = "cancelling"
  /\ UNCHANGED <<result, workers, wave, snapshot, presented, evidence, probes, usage, changes>>

\* CancelledError at the worker's await; its "async with" blocks are left.
CancelWorker(w) ==
  /\ phase = "cancelling" \/ result = "cancelled"
  /\ at[w] \notin {"idle", "out"}
  /\ Raises(w, "cancelled")
  /\ Leaves(w)
  /\ UNCHANGED <<phase, result, wave, snapshot, presented, evidence, probes, usage, changes>>

\* The gather of a wave waits for every node, that of the retrievals for one.
Cancelled ==
  /\ phase = "cancelling"
  /\ \A n \in Nodes : at[n] \in {"idle", "out"}
  /\ (\A p \in Providers : at[p] = "out") \/ (\E p \in Providers : raised[p] = "cancelled")
  /\ Ends("cancelled") /\ wave' = {}
  /\ UNCHANGED <<workers, snapshot, presented, evidence, probes, usage, changes>>

Invalidate(x) ==
  /\ phase # "ended" /\ changes < MaxInvalidations
  /\ x \in Sources \cup recorded /\ x \notin stale
  /\ stale' = stale \cup {x}
  /\ changes' = changes + 1
  /\ UNCHANGED <<phase, result, workers, wave, snapshot, presented, recorded, count,
                 accepted, probes, usage>>

-----------------------------------------------------------------------------
Work(w) ==
  \/ w \in Providers /\ (EnterRetrieval(w) \/ LeaveRetrieval(w))
  \/ w \in Nodes /\ StartNode(w)
  \/ w \in Tools /\ (EnterTool(w) \/ LeaveTool(w))
  \/ w \in Judgments /\ (\/ Condition(w) \/ EnterJudgment(w) \/ Answers(w) \/ ProviderFails(w)
                         \/ RetryRefused(w) \/ EnterProbe(w) \/ ProbeFails(w) \/ Policy(w))
  \/ w \in Choosers /\ ProbeReturns(w)
  \/ CancelWorker(w)

Schedule == \/ Retrieved \/ StartWave \/ EndWave \/ BeginCheck \/ CheckReturns \/ CheckRaises
            \/ Cancelled

Finished == phase = "ended" /\ (\A w \in Workers : at[w] \in {"idle", "out"}) /\ UNCHANGED vars

Next ==
  \/ \E w \in Workers : Work(w)
  \/ Schedule
  \/ Cancel
  \/ \E x \in Records : Invalidate(x)
  \/ Finished

Spec == Init /\ [][Next]_vars

\* asyncio runs every ready task, the semaphore is fair, and the calls a worker
\* awaits return or time out.
FairSpec == Spec /\ WF_vars(Schedule) /\ \A w \in Workers : WF_vars(Work(w))

-----------------------------------------------------------------------------
(* Properties. *)

TypeOK ==
  /\ phase \in {"retrieving", "waves", "checking", "cancelling", "ended"}
  /\ result \in Errors \cup {"none", "completed"}
  /\ status \in [Nodes -> {"pending", "running", "completed", "skipped", "failed"}]
  /\ at \in [Workers -> {"idle", "start", "condition", "queued", "working", "probe_queued",
                        "probing", "policy", "out"}]
  /\ raised \in [Workers -> Errors \cup {"none"}]
  /\ permits \subseteq Workers /\ wave \subseteq Nodes
  /\ snapshot \in [Providers -> Snapshots \cup {NoSnapshot}]
  /\ presented \in [Choosers -> Snapshots \cup {NoSnapshot}]
  /\ recorded \subseteq Nodes /\ accepted \subseteq Judgments /\ stale \subseteq Records
  /\ {count, dispatched, reported} \subseteq Nat /\ changes \in 0..MaxInvalidations

\* A run becomes "completed" only over current evidence: at that instant every
\* required finding and every decision of the run is current, whatever changed
\* while nodes ran or while the completion check was awaited, and each decision
\* has been accepted (require_current and the loop after it in _completion).
CompletedIsCurrent ==
  [][result' = "completed" /\ result # "completed" =>
       /\ \A n \in Required : status[n] = "completed" /\ Current(n)
       /\ \A j \in Judgments \cap recorded : Current(j) /\ j \in accepted']_vars

\* Nothing of an inactive branch is used: a node runs, and leaves a record, only
\* after everything it depends on, directly or not, left its own, and a run that
\* completes executed its whole graph (the skip and ready loops of run).
NothingFromInactiveBranches ==
  /\ \A n \in Nodes : at[n] # "idle" \/ n \in recorded => Requires[n] \subseteq recorded
  /\ \A n \in Nodes : status[n] = "completed" => n \in recorded
  /\ result = "completed" => recorded = Nodes

\* Decisions whose usage the run does not know: two nodes of one wave may fail,
\* and the run takes the usage from the error it reports; a refused retry has none.
Unsettled ==
  LET discarded == {j \in Judgments : raised[j] \in {"stale", "provider", "retry"}} IN
  IF discarded # {} /\ result \in {"stale", "provider"}
  THEN Cardinality(discarded) - 1 ELSE Cardinality(discarded)

\* The usage of every decision that called the provider is in the result of the
\* run, unresolved and failed results included, once for each.  What is missing is
\* what other nodes of the failing wave spent in vain, and the attempts of a
\* decision whose retry was refused, which nothing accounts for (state.usages).
UsageAccounted ==
  /\ reported <= dispatched
  /\ phase = "ended" /\ result # "cancelled" => reported + Unsettled = dispatched

\* No node works for a run that has ended, and none still holds a permit; a
\* retrieval outlives its run only when a sibling failed or was cancelled (gather,
\* with and without return_exceptions).
WorkEndsWithRun ==
  phase = "ended" =>
    /\ \A n \in Nodes : at[n] \in {"idle", "out"} /\ n \notin permits
    /\ (\E p \in Providers : at[p] # "out") => \E p \in Providers : raised[p] # "none"

\* Every run ends, whoever waits for the permit: a judgment that investigates
\* gives its permit back first, and investigations are bounded.
RunEnds == <>(phase = "ended")
=============================================================================
