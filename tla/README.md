# Jev-Frame verification

TLA+ models of the stateful core of `jev_frame` (`src/src/jev_frame/`), TLC runs
that check them on small instances, and TLAPS proofs of what matters most for
every instance. Line numbers below are of that package.

## The system

A host defines tools, judgments and agents; the framework compiles them into a
graph, calls a language model for the judgments, and executes tools under
limits, deadlines and authorizations. All of it runs on one asyncio event loop,
so code between two awaits is atomic, and everything may have changed at the
next one: the host shares the evidence store and the ledger, cancels runs, and
supplies callbacks that may raise, hang or answer late.

| part | state | operations | interacts with |
| --- | --- | --- | --- |
| Evidence store (`state.py`) | records, dependents, conflicts, stale ids | add, invalidate, is_current, require_current, project | everything: each result is a record that depends on what it used |
| Guarded mutation (`runtime.py` 1054-1490, `policy.py`) | per task: proposal, authorization, durable and local record | gates, persist, dispatch, reconcile | intent store, authorizer, checkpoint, service, ledger, semaphore |
| Usage ledger (`limits.py`) | active operations, admitted identities, measurements | operation, admit_*, record_*, release_reservation | every caller that spends, several runs at once |
| Agent run (`runtime.py` 1631-2354) | node status, candidate sets, selections, usages | retrieve, waves, judge, investigate, complete | semaphore, ledger, store, policies, completion check |
| Child runs (`runtime.py` 376-595) | a store for each run, lent and imported records | wrap, run, absorb, import evidence | caller's store, ledger, semaphore, host |
| Decision client, provider (`decisions.py`, `provider.py`) | attempts of a decision | evaluate, select, filter | ledger, store, SDK |
| Planner engine (`planning.py`) | outcomes, fingerprints, revision | run, validate, execute step | untrusted planner, runtime, ledger, store |
| Artifact recipe (`artifacts.py`) | revisions, findings, digests | generate, check, accept | planner engine |
| Compiler (`compiler.py`) | nodes, open visits, questions, diagnostics of one compilation | compile, compile again after the retrievals, compile one judgment | definitions; its program is what a run executes |
| Definitions, capabilities | none (immutable values) | validate at construction | everything |
| Documents, packages, inspection, evaluation, calibration, fixtures, adapters | little or none, sequential | | |

What is hard in it: currency of evidence that may be withdrawn at any await;
effects whose outcome is not known; several runs that share a ledger, a store
and idempotency keys; cancellation between two awaits; retries against a
deadline; loops around an untrusted planner or generator. `PROJECT.json`
("hazards") lists each at its line with the properties that watch it.

What makes each part correct:

- evidence: a record is current exactly if it and all it rests on are; what was
  withdrawn stays withdrawn, together with everything derived from it;
- mutation: nothing is sent that is not on record, approved and current at that
  instant; what is recorded of the outcome is true; a key is sent once;
- ledger: no limit is exceeded, no identity is taken back or counted twice;
- run: it completes only over current evidence, uses nothing of an inactive
  branch, reports the usage of each decision once, leaks no permit, and ends;
  what it may lose (usage of a failing wave or of a refused retry) and leave
  behind (retrievals) is said exactly;
- decision: every request admitted, every answer measured once, no decision
  over inputs that changed, no leaked slot;
- planner: no plan twice, steps after their dependencies over current evidence,
  every turn measured once unless the planner raised, an end;
- child: all it found reaches its caller, linked as it was and withdrawn when
  its sources are; no limit is evaded and nobody waits for a caller;
- compiler: the program is what the completion needs, in order; it refuses
  only what deserves it and explains what it leaves unresolved; what a run
  learns between two compilations never lengthens it;
- recipe: a result accepted only on its own evidence, exact checks before
  semantic ones, no artifact twice, an end.

## The modules

| module | models | proofs |
| --- | --- | --- |
| `EvidenceStore` | `EvidenceStore.add`, `invalidate`, `is_current`, expiry | `EvidenceStoreProofs` |
| `EvidenceProjection` | `EvidenceStore.project`, over `EvidenceStore` | in `EvidenceStoreProofs` |
| `WriteLifecycle` | abstract: the durable record of a write against its effect | in `GuardedMutationProofs` |
| `GuardedMutation` | `_execute_mutation`, `_persist_write`, `_reconcile_mutation`, the service; implements `WriteLifecycle` | `GuardedMutationProofs` |
| `UsageLedger` | `UsageLedger` | in `ChildAgentsProofs` |
| `AgentRun` | `Runtime.run`, `_execute_node`, `_execute_judgment`, `_investigate`, `_completion` | `AgentRunProofs` |
| `ChildAgents` | `agent_as_tool`, `_run_child`, `_absorb_child_result`, `_import_child_evidence`; composes `UsageLedger` with an `EvidenceProjection` for each run | `ChildAgentsProofs` |
| `DecisionCalls` | `DecisionClient.evaluate` over `TypeSafeProvider.evaluate`; composes `UsageLedger` | `DecisionCallsProofs` |
| `PlannerLoop` | `PlannerEngine.run`; composes `UsageLedger` | `PlannerLoopProofs` |
| `ArtifactRecipe` | `GenerateVerifyRecipe` | `ArtifactRecipeProofs` |
| `Compiler` | `compile_agent`, `compile_judgment`, the second compilation in `Runtime.run` | `CompilerProofs` |
| `MC...` | constants of the TLC instances | |

A module has one action per piece of code between two awaits. A variable is
named for the attribute it stands for, or its comment says which. Data is a
model value: a record of the store is its links and lifetime, an argument map a
version that changes, an artifact its digest, an exception its class.
`GuardedMutation` keeps a `pc` for each task, `AgentRun` and `DecisionCalls` an
`at` for each worker or decision, `PlannerLoop` a `pc`, `ArtifactRecipe` the
`stage` of the code.

Definitions whose name tells a defect (`DispatchBeforeIntent`,
`AcceptsEarlierFindings`, ...) are not part of a specification. Each is the
definition below it with a seeded fault; `PROJECT.json` ("mutants") says which
property detects which, so that no property holds for lack of anything to
violate it.

### EvidenceStore

`records` is `_records` with its insertion order, `dependents` and `conflicts`
the indexes, `stale` is `_stale`, `now` the clock. `is_current` is a recursion
over dependencies in the code and a recursive function over insertion order
here; `CurrencyIsSupport` compares it with a definition that has no recursion:
a record is current iff some set of records that vouch for each other has it.

### EvidenceProjection

`Turn` is one turn of the worklist of `project`, taken from its end, with the two
refusals of an item in the code's order. The links of a record are pushed in the
order of a tuple and of a hashed set, so a turn has a set of results, and so has
`Walks`, the loop: as many turns as there can be items, which is enough for every
order to end (proved: `WalksStop`). They are compared with `CompleteView`, the
smallest set closed under dependencies and conflicts.

### GuardedMutation and WriteLifecycle

Each of `Runs` is a task in `_execute_mutation`. Its gates in order: arguments
and acceptance, PROPOSED persisted, checkpoint, authorizer, AUTHORIZED
persisted, reauthorization and permission, semaphore permit, ledger slot, tool
and write admissions, IN_FLIGHT persisted, `current_action` again, the call.
`StoreTakes` separates the store taking a record from the await on it
returning, so a cancellation or a failure falls on either side. `live` and
`fresh` change at every await before the dispatch. The service (external)
performs or refuses a request at any time, also after the call timed out.
`HostChoices` says which callbacks hosts register.

Assumed of the host: a reconciliation says what the service really did, and
`EffectNotStartedError` is raised only if nothing happened. The clock is
monotonic. The durable record is the last one the store took for this task.

### UsageLedger

Every method is one step under its lock; `reply` is what it returned or raised.
`Call` lets any caller make any call with any identity, so repeats and
conflicts are there without being planned.

### AgentRun

The graph is a constant, in program order, as the compiler guarantees it
(`Compiler` checks that it does: `ProgramOrdered`, `ProgramIsWhatIsNeeded`).
`Work(w)` is what a worker does between two awaits, `Schedule` what `run` itself
does. `permits` is the semaphore. An invalidation may come at any await.
Mutation tools are left to `GuardedMutation`, child tools to `ChildAgents`. A
limit that another run exhausted, or the deadline, is a refusal at any admission
(`MayBeRefused`), of which a retry has one of its own: `RetryRefused` ends a
decision whose earlier attempts were sent. The error is the ledger's and carries
no attempts (`provider.py:405`, `decisions.py:427`), so it ends the run as a
refusal does (`Outcome`) and nothing is added to the usage. In `DecisionCalls`
the same decision is "refused", and has no measurement either.

### ChildAgents

A run is named by the tools that lead to it, the root is `<<>>`. Every run has a
store; `Store(s)` is an instance of `EvidenceProjection` over it, with the
indexes derived from the records. `StartChild` is the wrapper up to the child's
run: identity, scope, cycle and authority are checked, the ledger admits, the
caller's evidence is projected. A run first gathers its candidate retrievals, each a call of its own under the
semaphore (`BeginRetrieval`, `AdmitRetrieval`, `EndRetrieval`). The gather has no
`return_exceptions` (`runtime.py:2062`): the first that raises ends the run
(`GatherRaised`), and the others go on without it, wait for a slot, hold one, spend
a call; a cancellation reaches only those of a gather that is still awaited
(`AwaitedBelow`). The nodes of a run are steps that take a slot,
are admitted and leave a record (`EndStep`), which may derive from, replace or
contradict one it knows. None begins before all retrievals returned. `EndRun` ends a run and, in the same step as the code,
absorbs a child: its new records are renamed and added to its caller's store, in
the child's order (`AddedInOrder`, which is also how a view becomes a child's
store). `RecordOutput` is the wrapper's own record, made when its task runs again.
`Cancel` reaches a run, all its children and the retrievals they await.

### Compiler

The recursion of `_Compiler.visit_*` is a stack of open visits, each with the
references it has still to resolve, in the order of the code. `Refusal` has the
checks in their order; a cycle is a node asked for while its visit is open. Text,
versions and types of definitions are left out; names, order of references and
number of options are kept. `WellDefined` is what the constructors of the
definitions refuse otherwise. `Recompile` is `Runtime.run` compiling again over
the snapshots it retrieved and the evidence added meanwhile. `DirectRefusal` is
`compile_judgment`, which the agent's compilation has to agree with.

### DecisionCalls

`evaluate` waits for inputs, the slot, each attempt's admission, the provider,
a retry delay and its measurement. The ledger is an instance of `UsageLedger`,
its variables are those of this module. The time left is computed before the
first attempt; an attempt is modelled as admitted at the instant it is computed.

### PlannerLoop and ArtifactRecipe

The planner answers anything: a plan, a result, a question, a handoff, or it
raises. An error of its own leaves `run` (`CallbackRaises`). The errors of the ledger
are caught whoever raised them: a `DeadlineExceededError` counts as a late answer,
measured as unknown (`PlannerLate`, `planning.py:349`), and a `BudgetExhaustedError`
ends the loop as a limit would, with the turn unmeasured (`PlannerRefuses`,
`planning.py:458`). An argument of a wrong type or with a path its record does not
have raises out of a step (`StepRaises`, `planning.py:567`); other refusals of a step
stop its plan. A plan is a member of `Plans` with its steps as listed, their
dependencies and arguments. A step is a run of its own that completes only over
current evidence or stops. `ArtifactRecipe` keeps of the engine what the recipe
relies on: steps in order, the first that does not complete ends the plan, and
a limit may end the run between two steps.

## The runs

| run | instance | shows |
| --- | --- | --- |
| `evidence_links` | 3 records, 2 scopes, up to 2 references each, expiry, symmetric ids and scopes; views of every question of 1 or 2 records | currency, no resurrection, transitive invalidation, complete views; 3 records suffice for a chain whose middle is withdrawn, superseded, in conflict, or a completed execution |
| `mutation_one_task` | 1 task, an intent store and every other choice of callbacks, 2 cancellations, failing store, deadline inside the run | everything said of one write, and the refinement |
| `mutation_contention` | 3 tasks, 2 Runtimes, 1 ledger slot, 2 tool attempts and 1 write, 2 keys for 3 tasks, no intent store | limits at dispatch, keys, termination |
| `agent_graph` | a tool, a judgment conditional on it, a dependent tool, an independent choice that is investigated up to twice, 2 retrievals, 2 permits, 1 invalidation | the run properties and termination |
| `child_runs` | 3 agents in a chain of calls, 2 retrievals of the middle one, 1 slot, 4 tool calls where 5 are asked for, 3 child runs of depth 2, 3 sessions, 1 invalidation, 1 cancelled run | imports, withdrawal through runs, limits, no deadlock, also beside retrievals that outlive their run |
| `decision_attempts` | 2 decisions of 2 attempts, 3 attempts admissible in all, deadline, shared inputs | admission, measurement, currency, termination |
| `planner_plans` | 3 plans (out of order, cyclic, with an undeclared reference), 3 calls, 2 revisions, another user of the ledger | the planner properties and termination |
| `artifact_revisions` | 4 artifacts, 3 revisions, optional and required exact check, required semantic check, 1 invalidation | the recipe properties and termination |
| `compiler` | every definition of 2 judgments, 2 tools and a provider with at most `MaxLinks` = 3 references among them, every kind of binding, snapshots of every coverage and size up to the limit, routes, revisions | the program against its definition |

Bounds: `MaxTime`, `MaxVersion`, `MaxCancels`, `MaxCancelled`,
`MaxInvalidations`, `MaxOthers`, `MaxReferences` and `MaxLinks` bound the
environment and appear under these names; all other numbers are limits the code
has. Each is the least at which the case it bounds and one beyond it happen: a
deadline that passes in the middle, a limit that two callers reach and a third
exceeds, an alternation A-B-A, a cycle through a derivation (three references),
a child of a child. A deadlock is looked for wherever the end of all work is an
explicit stuttering step. Two runs say `CHECK_DEADLOCK FALSE`: in
`evidence_links` the ids are finite, and a full store, all stale, has no step
left; in `compiler` a compilation ends.

Three more runs each end in a violation, of something the documentation says:

| run | documentation | what the code does |
| --- | --- | --- |
| `mutation_unrecorded` | `docs/architecture.md:198` `outcome_unknown` is recorded after any possibly accepted request without receipt | a cancellation during the persist of the unknown outcome leaves only IN_FLIGHT (`runtime.py:1434`) |
| `decision_late_retry` | `README.md:340` every class of work has a monotonic deadline | a retry gets the timeout computed before the first attempt (`provider.py:414`) |
| `child_same_name` | `docs/architecture.md:527` new child records are imported with their dependencies intact | a record is taken for its caller's when the caller knows one of that name by then: an agent tool offered by both leaves `out` in both stores (`runtime.py:554`) |

`child_same_name` is `child_runs` with one agent tool offered at both levels;
`child_runs` gives them different names, and there everything is imported. That
difference is `NamesDistinct`: no run that may be called leaves a record under a
name that the session or a run above it uses. `MCChildAgents` assumes, and TLC
evaluates, that it holds of the one configuration and not of the other; it is the
hypothesis of the theorems about what children leave.

### Observations

Seen while modelling, in the models where they are about modelled code, and no
property of a run:

- A run whose limits are all 0 waits for ever. `concurrent_operations` may be 0 when
  provider and tool attempts, planner calls and child runs are (`definitions.py:1003`);
  the Runtime then has a `Semaphore(0)` (`runtime.py:602`), and every operation acquires
  it, with no timeout, before it asks the ledger (`runtime.py:749`, 1373, 1707). The
  ledger would refuse at once, as "zero disables that work class"
  (`docs/architecture.md:224`) suggests; instead only a cancellation ends the wait,
  whatever the deadline (`NoPermitsNoAnswer` proves it of mutations).
- A sibling's investigation replaces the candidate set under a choice already
  made (`runtime.py:938`), where `docs/architecture.md:488` wants dependent
  judgments invalidated. The slower of two judgments over one set gets its
  expansion back as already installed and gives up for lack of progress
  (`runtime.py:935`).
- Reasoning added after the input of a completed execution was invalidated is
  current, since `is_current` does not look behind the execution (`state.py:448`);
  `docs/architecture.md:494` can be read either way.
- For the same reason whether a view is refused can depend on the order the
  links are followed in; `OrderMattersOnlyPastExecutions` says that this is the
  only reason.
- `_stages` looks at judgments a judgment depends on directly, so one that
  depends on another through an evidence need or a tool gets the same stage
  (`compiler.py:886`, `docs/architecture.md:456`). The runtime does not use the
  stages.
- A derivation node is never unresolved itself, so what an input behind one
  lacks does not reach the tool's node. A diagnostic names the input all the same
  (`UndispatchableIsDiagnosed`).
- A stale record on the side of a contradiction is projected into a child as
  fresh, and a record the host invalidated in a child's store is imported as
  fresh: staleness is not part of a record (`runtime.py:558`). It is current in
  its caller only as far as its sources there are
  (`FindingsFollowTheirSources`).
- A child that replaced evidence of its own leaves a stale record, and since the
  wrapper's output derives from everything imported, that output is never current.
- A view with a record that supersedes one outside it cannot be added to the
  child's store, so the child does not start (`Projectable`).
- A child that superseded evidence of its caller loses all its records, uncertain
  executions included (`SupersedesCaller`), where `docs/architecture.md:528`
  promises that those are retained.
- A retry that the ledger refuses loses the usage of the attempts before it, in the
  ledger as in the run's result (`decisions.py:427`, `runtime.py:2279`);
  `docs/architecture.md:136` has usage recorded once per batch.
- A retrieval whose sibling failed goes on after its run has ended, also when the
  caller of that run is cancelled later, and spends the limits they share
  (`runtime.py:2062`).
- A planner that raises `BudgetExhaustedError` itself is reported as an exhausted
  limit of the run, and its call is not measured (`planning.py:458`).
- The planner sees the outcomes of a plan when the plan is done, not "after each
  step" (`docs/architecture.md:551`, `planning.py:432`).

## Fairness

Liveness is checked with weak fairness only, on what the event loop runs:

- `GuardedMutation`: on each task's own steps. Callbacks of the host return;
  the code puts no timeout on checkpoint, authorizer, store and reconciliation,
  so without this a run need not end. The service owes nothing: the call itself
  has a timeout.
- `AgentRun`: on each worker and on `run`. asyncio schedules every ready task;
  a worker queued for the semaphore stays enabled while a permit is free, and
  the semaphore is first in, first out.
- `DecisionCalls`: on each decision, and on the clock: the SDK raises when the
  timeout is over and `asyncio.sleep` returns.
- `ChildAgents`: none. `SomeRunCanGoOn` says that until the root has ended
  somebody may go on, and the proofs that there are only so many steps to take
  (`EveryStepCounts`); together they are why a run ends when the event loop goes on.
- `PlannerLoop`, `ArtifactRecipe`: on the loop. The clock need not advance: the
  loops end by their limits.

What fairness has to add is only that a step that can be taken is taken: in each of
these modules, that there are so many steps to take and none is undone is proved
("Progress" below).

No fairness is assumed of cancellations, invalidations or the service.

## The proofs

All are checked by TLAPS for any values of the constants that satisfy the named
assumptions, which TLC evaluates in every run over the module: `TimeAssumption`,
`ReferencesAssumption` (store), `SharingAssumption`, `HostAssumption`,
`LimitsAssumption` and `BoundsAssumption` (mutation), `LimitsAssumption`,
`BoundsAssumption` and `MeasurementAssumption` (ledger), `GraphAssumption` and `NeededAssumption` (run:
the graph is a finite program in which every node is needed by a required one),
`DecisionsAssumption` and `DecisionLimitsAssumption`, `PlansAssumption` and
`PlannerLimitsAssumption`, `RecipeAssumption` (the checks of a recipe are sequences
without repetition, the required ones among them); for child runs `DefinitionsAssumption` (the
configuration is one, and the program of an agent has finitely many nodes), `IdentityAssumption` (the ledger's ids include those of
the runs, their nodes and retrievals) and `SessionsAssumption` (the session the host passes
is a store as `add` and `invalidate` leave one, `WellKept`, without imports); and
for the compiler `OptionsAssumption`,
`NamesAssumption` (finitely many names, those of different kinds differ),
`SnapshotsAssumption` (a snapshot maps providers to a count and a coverage) and
`RequestsAssumption` (a request is for names there are, routed to an outcome).

**EvidenceStoreProofs.** `IInv` adds to the types that insertion ranks lie below
the count. Ranks are why provenance is well founded: a new record ranks last
and refers to known ones, so nothing ever refers forward and `is_current`
terminates. Given that, the affected set of an invalidation is closed under
dependents (`AffectedClosed`), the store only grows (`StoreOnlyGrows`), and
support of a record is support of what it rests on (`SupportIsInherited`);
`StaleForGood` and `InvalidationIsTransitive` follow for each step. `is_current`
recurses over provenance and `Supported` is its meaning; that the two agree
(`CurrencyIsSound`) is shown by a least counterexample, since of the records on
which they part the one of least rank has only references on which they agree.

The views of `project` are shown by an invariant of its loop, `WalkInv`: all that
is included or queued belongs to the view (`PartOfView`), what an included record
is linked to is included or queued (`Owed`), a record asked for that is not current
waits in the queue until it is refused (`Asked`), and without past executions what
must be current is (`DemandsMet`). The queue shrinks or the view grows, so `Left`
goes down and the loop stops (`WalksStop`); then the view is closed and within the
least closed set (`ViewsAreComplete`), and whether it is refused depends on the
records alone (`OrderIsFreeButForPastExecutions`).

**GuardedMutationProofs.** `WriteAhead` and `Truthful` are inductive in the
abstract specification. In the detailed one the invariants are not: they need to
know at which await the task is. `Stages` says what has left and been noted at
each, `DurableStages` which records the store may hold there (the one being
saved or the one before it). With these `StepRefines` maps each step to one of
`WriteLifecycle` or to a stutter, which is `StoredWritesFollowLifecycle`; with
`RecordsCanBeTrusted` it follows that a crash at any instant leaves a record to
be trusted (`StoredRecordsCanBeTrusted`). The slots need an invariant of their
own, `SlotInv`: permits and slots correspond one to one, only inside the block,
and a key is claimed by one task for good. The dispatch limits follow from
`AdmissionInv`. `SoleRuntimeWaits` shows that refusals for concurrency need a
second Runtime.

**ChildAgentsProofs**, the ledger. Limits are about cardinalities, so `IInv`
carries that everything counted is finite; the questions of the attempts are
counted as the pairs `(attempt, n)`, which turns a sum into a cardinality. These
theorems are about `UsageLedger`'s own specification and use none of the
assumptions on runs. `ComposedUsesLedger` shows that runs, children and nodes
make no other use of it, so that they share the limits at any depth.

**ChildAgentsProofs**, child runs. The theorems have `NamesDistinct` as their
hypothesis, because without it the code does lose records (`child_same_name`).
The three invariants are facts about one store copied into another, so most of
the proof is about stores. An addition keeps a store `WellKept`: references lead
back, and all that an invalidation at the time of an addition reached is stale
(`AddedIs`; `Reached` is that set without the recursion). Adding many in order
comes down to that by induction over positions (`AddedInOrderIs`). A copy that
keeps links and order (`Copied`) holds stale what was replaced where it comes from
(`CopyIsReplaced`): in a child staleness comes from replacement only, so although
staleness is not copied, supersession is. And with that (`Mirrors`) what is current
in a copy is current in the original (`CopyIsCurrent`), by the sets of records that
vouch for each other, which is what `is_current` computes (`CurrentIsSupported`).

`ComposedInv` says that this is how the runs stand at every instant: `Lent`, that
what a child was lent is at the front of its store as its caller has it, and
`Mirrored`, that an absorbed child is copied into its caller. It is inductive with

- `StagesAgree`: a run that is not running has no node in a call, hence a caller
  goes on while its child does, and the store of an ended child never changes;
- `NamesKept`: every name in a store is one given on the way from the root, or
  begins with a run, and every record is the run's own, lent, or left by a child.
  With `NamesDistinct` it says that the records the caller does not know are
  exactly those the child found (`NewAreFindings`).

Nothing in a store is lost or revived (`NothingIsLostOrRevived`): each action adds
to one store (`StepGrowsStores`), an import among the others, and what vouches for a
record in a store that has grown vouched for it before (`SupportIsOld`).

`ImportsAreCorrect` and `ReplacementsHold` are then immediate. For
`FindingsAreSupported`, a set that vouches for a finding at the root is carried down
to the copies of all it was made from (`Carried`): following `MadeFrom` never leaves
it, so every source that `Sources` comes to is vouched for, and there are finitely
many records to follow (`EverythingIsFinite`).

**ChildAgentsProofs**, the control of child runs. What runs, when, and on whose slot
depends on no name and on no record, so these theorems have another and smaller
invariant, `ControlInv`: stages agree with steps (`StagesAgree`) and with retrievals
(`RetrievalsAgree`), and the slots taken are those of the nodes and retrievals in a call (`SlotsAgree`).

- `NobodyWaitsForAnother` proves `SomeRunCanGoOn`. `SomethingMayGoOn` is made of the
  guards the actions themselves have, and `MayGoOnGoesOn` shows that a guard is all an
  action asks, by the state it leads to. Suppose nobody may go on. Whoever holds a slot
  could ask the ledger or end, so no slot is taken (`SlotsAreGivenBack`); a running run
  then could begin a node, call a child or finish, unless a child of its own is
  running (`WaitingIsForAChild`); so there are running runs at every depth, of which
  there are finitely many (`WaitingEnds`). A child cannot be called while its
  projection has no result, so this rests on `project` always giving one
  (`ProjectAnswers`: its loop stops within as many turns as it is given), and through
  it on the stores, hence on `NamesDistinct`. It also takes a slot to begin with: a
  definition that allows operations with none is refused (`definitions.py:1003`).
- `EveryStepCounts`: of each node and retrieval that it has begun, asked the ledger and
  ended, of each run that it was called, finished and left its wrapper. These are finitely many,
  none is ever taken back, and every step other than the host's passes one.
- `NothingOutlivesItsRun` needs one more invariant, `CancellationAgrees`: a cancelled
  run has begun, and all that runs below it is cancelled. That below a run that is not
  running no run or node is goes down the tree from `StagesAgree` (`NothingRunsBelow`).
  Retrievals are the exception, and the theorem says which: one is queued or at work
  there only if another of its gather raised, and is ending only if another was
  cancelled (`OnlyRetrievalsLeft`). That rests on how a gather stands in each stage of
  its run (`RetrievalsAgree`), and on that it stays so (`StandingIsKept`).
- `CancellationStopsAllBelow`: what is below a cancelled run is cancelled itself or
  below a caller that is, so neither works, and only who works begins anything. Its
  retrievals were cancelled with it, but for those of a gather that had raised before
  (`NoRetrievalBegins`): no cancellation reaches these.

**AgentRunProofs.** What a node may do depends on where its worker is, so `IInv`
carries for each place what holds there: `Executed` that a node is at work, and
recorded, only after what it depends on is, so that a skipped node, which is never
recorded, blocks all that requires it; `Waves` that only the nodes of a wave are
at work and hold permits; `Progress` how far the run is. `Accounts` counts: decisions dispatched are those
already reported, those in flight and those a failing node or a refused retry discarded; the step
of each worker moves one unit between them.

**DecisionCallsProofs.** Every attempt sent has its entry in the ledger, and the
attempts of a decision are sent in order; the cardinality bounds then follow from
the ledger's. A measurement is tied to the place of its decision: none before it
leaves, one after, except for a refusal or a cancellation.

**PlannerLoopProofs.** `revision` is the cardinality of `seen` because a plan is
added to `seen` in the very step that counts it; measurements are tied to
`turns`, with the one call in flight as the exception, and the last one when the
planner raised. For `StepsAreReady` the
invariant is `StepsInTurn`: the plan at work was found valid, and the steps
before `position` are done. That these are enough is a fact about
the rounds of `_validate_plan`: a round lists only steps whose dependencies earlier
rounds listed, and appends to what they listed (`ListedSteps`, `RoundAppends`), so
in a list that holds all the steps each follows its dependencies
(`OrderedByDependencies`). `PlansAssumption` says that a plan's steps are a list of
its own steps, which is what its type is.

**Uses of the ledger.** `DecisionsUseTheLedger` and `PlannerUsesTheLedger`: what
a decision or a planner does to the ledger it composes is a step of `UsageLedger`'s
specification or leaves it alone, so that specification's theorems (`LimitsHold`,
`RestartsNothing`, ...) hold of the composed systems for any number of decisions
and turns.

**CompilerProofs.** The walk is a stack of open visits and what it must come to
is a closure, so the inductive invariant has to say at each instant what is done
and what is still owed. `WalkOK` is about the stack alone: what an open visit
depends on so far is already inserted, and an inserted node is never removed; a
node that closes comes after all it depends on. `Base` adds to it that what an
open visit has resolved and what is left on its agenda are together all its
definition links to (`VisitsOK`), that it waits for the visit above it, that
scalars were produced by exactly one node (`ArgumentsOK`), and that an inserted
node has all its links inserted (`ProgramOK`). From it:

- `ProgramIsWhatIsNeeded`: the nodes are closed under links and each is reached
  from what was asked for; `Reached` shows the closure by layers (a recursive
  function on numbers) to be the least closed set, because there are no more
  layers than nodes before one adds nothing.
- `CyclesAreReal`: every open visit leads to the top one (`OpenLeadToTop`), so a
  node asked for while its visit is open leads to itself.
- `UndispatchableIsDiagnosed`, `AgreesWithDirect`: `StatusesOK` says of each node
  inserted, and of the choice and options it was inserted with, what its status
  is to be. `VisitsFresh`, that no node is visited twice at a time nor after it is
  inserted, is what makes it the status of one node.
- `RecompilationOnlyShortens`: `SecondOK` says that the definitions of the first
  program are acyclic by a rank (`Ranked`), that nothing in them is refused
  (`Settled`), so that the second walk can end in no other way than the first.

`WellDefined` had to say `FieldsTyped`, what the fields of the dataclasses hold:
without it a definition may refer to something that is no name at all, which
TLC's instances never contain.

**ArtifactRecipeProofs.** `ExactChecksFirst` is inductive: the stage becomes
semantic only in the step that adds the findings of a plan without failures, and
a new artifact goes back to its exact checks.

**Progress.** Liveness is out of reach of the prover, but half of each argument for
it is a matter of single steps: a measure that every step of the process lowers and
that no other step raises. Each component has one, and a theorem.

- `MutationsGoForward`: the awaits of `_execute_mutation` have an order, in which
  the abandoned and the attempted write part and meet again, and at those that save
  a record the store has taken it or not. A task takes at most `LastPlace` steps. It
  waits for a permit only while another task of its Runtime has one and is past the
  queue (`PermitsComeBack`), which supposes that there is a permit to give;
  `NoPermitsNoAnswer` is the case without.
- `DecisionsGoForward`: the stage within an attempt, and the attempts.
- `RunGoesForward`: a worker goes through its awaits once, except that a judgment
  decides again after an investigation; that one has a fingerprint no earlier one
  had, and takes one of the `InvestigationSteps`. The scheduler takes each node up
  once, because a node that is pending has not begun (`Untouched`).
- `PlannerGetsOn`: turns, the stages of a turn and the steps of a plan, in this order
  of weight; the position stays within the plan (`PositionBound`).
- `RecipeGetsOn`: artifacts, stages and checks likewise.
- `EveryStepCounts` of child runs, above.

Only proved, in no run: `ProvenanceWellFounded`, `IndexesAgree` and
`SupersededIsStale` of the store, `ReleasesMatch` and `IdentitiesAreFinal` of the
ledger, `SlotsMatch` and `SoleRuntimeNeverRefused` of the mutation,
`RunsAreContained`, `CancelledRunsBeginNothing`, `StoresOnlyGrow` and the milestones
of child runs, the measures of progress with `NobodyWaitsInVain`, and the type
invariants.

Only model-checked: liveness, everything under fairness, and ENABLED, all out of reach
of the prover. Every invariant and every action property a run checks is proved.
`SomeRunCanGoOn` speaks of guards, not of ENABLED; `child_runs` looks for a deadlock
as well, in every state of its instance. That something ends is checked by TLC in
`mutation_contention`, `agent_graph`, `decision_attempts`, `planner_plans` and
`artifact_revisions`; the theorems on progress are not temporal statements of it. That
child runs end is a conclusion drawn from two theorems on paper.

## What is not modelled

- `propose_select`, `filter`, `assess`, `score`, `extract_source`: no state.
- Choice of an investigation action, evidence it returns, argument binding,
  reports: data. Stages and rendering of a program: output only.
- Definitions beyond what the compiler relies on, capabilities, packages,
  documents, adapters: validation and translation, functions of strings and
  schemas whose data a model would not abstract.
- `EventLog`: it numbers events, and nothing in the code reads them back.
- Evaluation, calibration, fixtures: sequential, nothing to interleave.
- A process crash is the end of a behaviour: nothing in the code resumes a run,
  and what survives is the durable record, which the refinement is about.

## What could come next

- An abstract specification of child runs as one shared store, of which the
  stores of the runs are views; `Mirrors` is the map.
