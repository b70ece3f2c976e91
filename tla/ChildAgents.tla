----------------------------- MODULE ChildAgents -----------------------------
(***************************************************************************)
(* Agents as tools of other agents (runtime.py: agent_as_tool, _run_child, *)
(* _absorb_child_result, _import_child_evidence), composed with the ledger *)
(* and the evidence stores they share: every run has a store of its own,   *)
(* all runs share the semaphore and the UsageLedger, and a child's new     *)
(* records reach its caller when it ends, however it ends.                 *)
(*                                                                         *)
(* A run is named by the tools that lead to it from the root run, <<>>.    *)
(* What an agent's own nodes do is AgentRun's: here a retrieval or a step  *)
(* takes a slot and is admitted, and a step leaves a record.  The stores   *)
(* are those of one scope.                                                 *)
(*                                                                         *)
(* A definition named for a defect (MayEnterBesideWrappers, ...) is the    *)
(* one below it with a seeded fault, kept to show that a property detects  *)
(* it.                                                                     *)
(***************************************************************************)
EXTENDS UsageLedger, SequencesExt

CONSTANTS
  Definitions, RootDefinition,
  Tools,            \* agents wrapped as tools
  RunBy,            \* [Tools -> Definitions]: the agent a tool runs
  Offers,           \* [Definitions -> SUBSET Tools]
  Providers,        \* candidate providers
  Retrieves,        \* [Definitions -> SUBSET Providers]: retrieved before any node begins
  Names,            \* names of records
  Steps,            \* [Definitions -> SUBSET Names]: what an agent's own nodes produce
  Read,             \* [Tools -> Seq(Names)]: ChildRunPolicy.read_evidence
  Output,           \* [Tools -> Names]: output_evidence
  Needs, HostKeys,  \* [Tools -> SUBSET HostKeys]: host_dependencies
  Foreign,          \* tools whose policy names another scope than the run's
  RunScope,
  Sessions,         \* the stores the root run may be given
  MaxInvalidations, \* bound on the invalidations by the host
  MaxCancelled      \* bound on the runs that are cancelled or time out

Root == <<>>
Caller(r) == Front(r)

DefinitionAt(path, i) == IF i = 0 THEN RootDefinition ELSE RunBy[path[i]]
DefinitionOf(r) == DefinitionAt(r, Len(r))

Runs ==
  {Root} \cup {r \in UNION {[1..d -> Tools] : d \in 1..MaxDepth} :
                 \A i \in DOMAIN r : r[i] \in Offers[DefinitionAt(r, i - 1)]}

Children == Runs \ {Root}
Calls(r) == {q \in Children : Caller(q) = r}
Below(r) == {q \in Runs : IsPrefix(r, q)}
StepsOf(r) == {<<r, n>> : n \in Steps[DefinitionOf(r)]}
AllSteps == UNION {StepsOf(r) : r \in Runs}
RetrievalsOf(r) == {<<r, p>> : p \in Retrieves[DefinitionOf(r)]}
AllRetrievals == UNION {RetrievalsOf(r) : r \in Runs}

\* A record under its own name, and under the one its caller gives it.
Own(n) == <<n>>
Scoped(r, id) == <<r>> \o id

OwnNames == {Own(n) : n \in Names}
Ids == Seq(Names \cup Children)

ASSUME DefinitionsAssumption ==
  /\ IsFiniteSet(Tools) /\ RootDefinition \in Definitions
  /\ RunBy \in [Tools -> Definitions] /\ Offers \in [Definitions -> SUBSET Tools]
  /\ Steps \in [Definitions -> SUBSET Names] /\ \A d \in Definitions : IsFiniteSet(Steps[d])
  /\ Read \in [Tools -> Seq(Names)] /\ Output \in [Tools -> Names]
  /\ IsFiniteSet(Providers) /\ Retrieves \in [Definitions -> SUBSET Providers]
ASSUME IdentityAssumption ==
  /\ AllSteps \cup AllRetrievals \subseteq Operations \cap CallIds
  /\ AllSteps \cap AllRetrievals = {}
  /\ Children \subseteq ChildRuns /\ (AllSteps \cup AllRetrievals # {} => "tool" \in Classes)

VARIABLES
  store,       \* the evidence store of each run
  stage,       \* "idle", "running", "returned" (to its wrapper) or "out"
  ended,       \* how each run ended
  lent,        \* what was projected into the store of each child
  imported,    \* frame.imported_dependencies: what each child left to its caller
  step,        \* [AllSteps -> "idle", "working", "refused", "done", "raised"]
  retrieval,   \* [AllRetrievals -> "idle", "queued", "working", "refused", "ending" (by
               \* CancelledError), "done", "raised", "cancelled"]
  cancelling,  \* runs whose task has been cancelled
  changes, cancelled

composed == <<store, stage, ended, lent, imported, step, retrieval, cancelling, changes,
              cancelled>>
ledger == <<active, operations, attempts, calls, children, measured, now, reply>>
compositionVars == <<composed, ledger>>

-----------------------------------------------------------------------------
(* The stores: EvidenceStore, its indexes derived from the records. *)

Store(s) ==
  INSTANCE EvidenceProjection WITH
    Scopes <- {RunScope},
    MaxReferences <- 1,
    records <- s.records,
    count <- Cardinality(DOMAIN s.records),
    dependents <- [d \in DOMAIN s.records |->
                     {b \in DOMAIN s.records : d \in s.records[b].dependencies}],
    conflicts <- [d \in DOMAIN s.records |->
                    {b \in DOMAIN s.records : \/ d \in s.records[b].conflicts
                                              \/ b \in s.records[d].conflicts}],
    stale <- s.stale

EmptyStore == [records |-> [id \in {} |-> id], stale |-> {}]
Known(s) == DOMAIN s.records
IsCurrent(s, id) == Store(s)!IsCurrent(id)

IndexOf(records) ==
  [d \in DOMAIN records |-> {b \in DOMAIN records : d \in records[b].dependencies}]

\* add: a duplicate or a reference to nothing raises, and changes nothing.
MayAdd(s, id, r) == id \notin Known(s) /\ Store(s)!ReferencesValid(r)

RecordsWith(s, id, r) ==
  [x \in Known(s) \cup {id} |->
     IF x = id THEN [r EXCEPT !.position = Cardinality(Known(s))] ELSE s.records[x]]

Added(s, id, r) ==
  LET records == RecordsWith(s, id, r)
  IN  [records |-> records,
       stale |-> Store(s)!StaleWith(records, IndexOf(records), r.supersedes)]

\* What adding a record invalidated: what the store held by then of all that derives
\* from what it supersedes.
Until(s, id) == {x \in Known(s) : s.records[x].position <= s.records[id].position}
RecordsUntil(s, id) == [x \in Until(s, id) |-> s.records[x]]

ReplacedBy(s, id) ==
  {x \in UNION {Store(s)!Affected(Until(s, id), IndexOf(RecordsUntil(s, id)), old) :
                 old \in s.records[id].supersedes} : ~ s.records[x].completed}

Replaced(s) == UNION {ReplacedBy(s, id) : id \in Known(s)}

\* A store as add and invalidate leave it.
WellKept(s) ==
  /\ s = [records |-> s.records, stale |-> s.stale]
  /\ Known(s) \subseteq Ids /\ IsFiniteSet(Known(s))
  /\ s.records \in [Known(s) -> Store(s)!Record]
  /\ \A id \in Known(s) : s.records[id].position < Cardinality(Known(s))
  /\ \A id, x \in Known(s) : s.records[id].position = s.records[x].position => id = x
  /\ \A id \in Known(s) : \A ref \in Store(s)!References(s.records[id]) :
       ref \in Known(s) /\ s.records[ref].position < s.records[id].position
  /\ Replaced(s) \subseteq s.stale /\ s.stale \subseteq Known(s)

ASSUME SessionsAssumption ==
  \A session \in Sessions : WellKept(session) /\ Known(session) \subseteq OwnNames

\* Records of one store added to another in the order they have there, each under
\* a name and with a content that may be other than its own.
AddedInOrder(base, from, name, content) ==
  LET size == Cardinality(Known(from))
      here(n) == {id \in DOMAIN name : from.records[id].position = n}
      after[n \in 0..size] ==
        IF n = 0 THEN base
        ELSE IF here(n - 1) = {} THEN after[n - 1]
        ELSE LET id == CHOOSE id \in here(n - 1) : TRUE
             IN  Added(after[n - 1], name[id], content[id])
  IN  after[size]

\* The child's store: what it may read, with all it rests on and all that
\* contradicts it, added to an empty store in the order of its caller's.  A
\* record that supersedes one the view leaves out cannot be added.
Projected(s, view) ==
  AddedInOrder(EmptyStore, s, [id \in view |-> id], [id \in view |-> s.records[id]])

Projectable(s, view) ==
  view \subseteq Known(s) /\ \A id \in view : Store(s)!References(s.records[id]) \subseteq view

\* _import_child_evidence: the records whose names the caller does not know.
NewIn(child, caller) == Known(child) \ Known(caller)

SupersedesCaller(child, caller) ==
  \E id \in NewIn(child, caller) : child.records[id].supersedes \cap Known(caller) # {}

Mapped(r, new, ids) == {IF id \in new THEN Scoped(r, id) ELSE id : id \in ids}

RenamedWithoutSupersession(r, new, record) ==
  [record EXCEPT !.dependencies = Mapped(r, new, @), !.supersedes = {},
                 !.conflicts = Mapped(r, new, @)]

RenamedInsideOnly(r, new, record) ==
  [record EXCEPT !.dependencies = {Scoped(r, id) : id \in @ \cap new},
                 !.supersedes = Mapped(r, new, @), !.conflicts = Mapped(r, new, @)]

Renamed(r, new, record) ==
  [record EXCEPT !.dependencies = Mapped(r, new, @), !.supersedes = Mapped(r, new, @),
                 !.conflicts = Mapped(r, new, @)]

WithImports(r, child, caller) ==
  LET new == NewIn(child, caller) IN
  AddedInOrder(caller, child, [id \in new |-> Scoped(r, id)],
               [id \in new |-> Renamed(r, new, child.records[id])])

-----------------------------------------------------------------------------
ComposedInit ==
  /\ Init
  /\ \E session \in Sessions :
       store = [r \in Runs |-> IF r = Root THEN session ELSE EmptyStore]
  /\ stage = [r \in Runs |-> IF r = Root THEN "running" ELSE "idle"]
  /\ ended = [r \in Runs |-> "none"]
  /\ lent = [r \in Children |-> {}]
  /\ imported = [r \in Children |-> {}]
  /\ step = [s \in AllSteps |-> "idle"]
  /\ retrieval = [x \in AllRetrievals |-> IF x \in RetrievalsOf(Root) THEN "queued" ELSE "idle"]
  /\ cancelling = {} /\ changes = 0 /\ cancelled = 0

\* The deadline of the root run, which every child run shares, is not reached: a
\* call it refuses is refused like one a limit refuses.
Deadline == now + 1

Works(r) == stage[r] = "running" /\ r \notin cancelling

\* The gather of a run's candidate retrievals: it goes on when all have returned, and
\* raises with the first that raises or is cancelled, whatever the others are at then.
Retrieved(r) == \A x \in RetrievalsOf(r) : retrieval[x] = "done"
GatherRaised(r) == \E x \in RetrievalsOf(r) : retrieval[x] \in {"raised", "cancelled"}

-----------------------------------------------------------------------------
(* Wrappers: _run_child up to the child's run. *)

\* The definitions of a run and of every run above it.
Ancestry(r) == {DefinitionAt(r, i) : i \in 0..Len(r)}

HostDependencies(r) == IF r = Root THEN HostKeys ELSE Needs[Last(r)]

\* Checked before anything is admitted: the scope, the cycle, the authority.
MayRunUnder(r) ==
  /\ Last(r) \notin Foreign
  /\ DefinitionOf(r) \notin Ancestry(Caller(r))
  /\ Needs[Last(r)] \subseteq HostDependencies(Caller(r))

\* The call raises before there is a child run.
Refused(r) ==
  /\ stage' = [stage EXCEPT ![r] = "out"]
  /\ ended' = [ended EXCEPT ![r] = "refused"]
  /\ UNCHANGED <<store, lent, retrieval>>

Begins(r, view) ==
  /\ store' = [store EXCEPT ![r] = Projected(store[Caller(r)], view)]
  /\ lent' = [lent EXCEPT ![r] = view]
  /\ stage' = [stage EXCEPT ![r] = "running"]
  /\ retrieval' = [x \in AllRetrievals |-> IF x \in RetrievalsOf(r) THEN "queued" ELSE retrieval[x]]
  /\ UNCHANGED ended

\* What the policy names must be known to the caller.
Asked(r) == [i \in DOMAIN Read[Last(r)] |-> Own(Read[Last(r)][i])]
KnowsAsked(r) == ToSet(Asked(r)) \subseteq Known(store[Caller(r)])

MayBeCalled(r) == stage[r] = "idle" /\ Works(Caller(r)) /\ Retrieved(Caller(r))

\* What the projection for a call may return.
ViewsFor(r) ==
  LET caller == store[Caller(r)]
  IN  Store(caller)!Project(Asked(r), RunScope, Cardinality(Known(caller)))

\* A refusal is a node of the caller that raises; otherwise the child run is
\* admitted and begins over its view of the caller's evidence.
StartChild(r) ==
  /\ MayBeCalled(r)
  /\ \/ ~ MayRunUnder(r) /\ Refused(r) /\ UNCHANGED ledger
     \/ /\ MayRunUnder(r)
        /\ AdmitChildRun(r, Len(r), Deadline)
        /\ \/ ~ (reply' = "ok" /\ KnowsAsked(r)) /\ Refused(r)
           \/ /\ reply' = "ok" /\ KnowsAsked(r)
              /\ \E result \in ViewsFor(r) :
                   IF result.refused = "none" /\ Projectable(store[Caller(r)], result.view)
                   THEN Begins(r, result.view) ELSE Refused(r)
  /\ UNCHANGED <<imported, step, cancelling, changes, cancelled>>

-----------------------------------------------------------------------------
(* Calls under the semaphore: the candidate retrievals of a run, and its nodes that *)
(* are not children.                                                                *)

\* The semaphore: a wrapper that awaits its child holds none of it.
MayEnterBesideWrappers ==
  Cardinality(active) + Cardinality({r \in Children : stage[r] = "running"}) < ConcurrentOperations

MayEnter == Cardinality(active) < ConcurrentOperations

\* A retrieval is a task of its own: it goes on also when its gather raised and its run
\* has ended, unless it was cancelled with the gather.
MayBeginRetrieval(x) == retrieval[x] = "queued" /\ MayEnter

BeginRetrieval(x) ==
  /\ MayBeginRetrieval(x)
  /\ EnterOperation(x, Deadline)
  /\ retrieval' = [retrieval EXCEPT ![x] = IF reply' = "ok" THEN "working" ELSE "raised"]
  /\ UNCHANGED <<store, stage, ended, lent, imported, step, cancelling, changes, cancelled>>

MayAdmitRetrieval(x) == retrieval[x] = "working" /\ x \notin calls["tool"]

AdmitRetrieval(x) ==
  /\ MayAdmitRetrieval(x)
  /\ AdmitNamed("tool", x, Deadline)
  /\ retrieval' = [retrieval EXCEPT ![x] = IF reply' = "ok" THEN "working" ELSE "refused"]
  /\ UNCHANGED <<store, stage, ended, lent, imported, step, cancelling, changes, cancelled>>

MayEndRetrieval(x) ==
  retrieval[x] \in {"refused", "ending"} \/ (retrieval[x] = "working" /\ x \in calls["tool"])

\* It returns a snapshot, raises, or ends with its cancellation; the slot is given back.
EndRetrieval(x) ==
  /\ MayEndRetrieval(x)
  /\ LeaveOperation(x)
  /\ \E new \in {"done", "raised", "cancelled"} :
       /\ retrieval' = [retrieval EXCEPT ![x] = new]
       /\ new = "done" => retrieval[x] = "working"
       /\ new = "cancelled" <=> retrieval[x] = "ending"
  /\ UNCHANGED <<store, stage, ended, lent, imported, step, cancelling, changes, cancelled>>

MayBegin(r, n) == Works(r) /\ Retrieved(r) /\ step[<<r, n>>] = "idle" /\ MayEnter

BeginStep(r, n) ==
  /\ MayBegin(r, n)
  /\ EnterOperation(<<r, n>>, Deadline)
  /\ step' = [step EXCEPT ![<<r, n>>] = IF reply' = "ok" THEN "working" ELSE "raised"]
  /\ UNCHANGED <<store, stage, ended, lent, imported, retrieval, cancelling, changes, cancelled>>

AdmittedStep(r, n) == <<r, n>> \in calls["tool"]

MayBeAdmitted(r, n) == Works(r) /\ step[<<r, n>>] = "working" /\ ~ AdmittedStep(r, n)

AdmitStep(r, n) ==
  /\ MayBeAdmitted(r, n)
  /\ AdmitNamed("tool", <<r, n>>, Deadline)
  /\ step' = [step EXCEPT ![<<r, n>>] = IF reply' = "ok" THEN "working" ELSE "refused"]
  /\ UNCHANGED <<store, stage, ended, lent, imported, retrieval, cancelling, changes, cancelled>>

Record0 ==
  [scope |-> RunScope, completed |-> FALSE, dependencies |-> {}, supersedes |-> {},
   conflicts |-> {}, expires |-> MaxTime + 1, position |-> 0]

\* What a tool or a decision leaves derives from records of the store, at most one
\* here; evidence an investigation found may also replace or contradict one.
Deriving(from, completed) == [Record0 EXCEPT !.dependencies = from, !.completed = completed]

FoundRecords(s) ==
  LET sources == {{}} \cup {{id} : id \in Known(s)}
  IN  {Deriving(from, FALSE) : from \in sources} \cup {Deriving(from, TRUE) : from \in sources}
      \cup {[Record0 EXCEPT !.supersedes = {id}] : id \in Known(s)}
      \cup {[Record0 EXCEPT !.conflicts = {id}] : id \in Known(s)}

MayEnd(r, n) ==
  /\ Works(r)
  /\ step[<<r, n>>] = "refused" \/ (step[<<r, n>>] = "working" /\ AdmittedStep(r, n))

\* The call returns, or raises; the slot is given back.
EndStep(r, n) ==
  /\ MayEnd(r, n)
  /\ LeaveOperation(<<r, n>>)
  /\ \/ step' = [step EXCEPT ![<<r, n>>] = "raised"] /\ UNCHANGED store
     \/ /\ step[<<r, n>>] = "working"
        /\ \E record \in FoundRecords(store[r]) :
             /\ MayAdd(store[r], Own(n), record)
             /\ store' = [store EXCEPT ![r] = Added(@, Own(n), record)]
        /\ step' = [step EXCEPT ![<<r, n>>] = "done"]
  /\ UNCHANGED <<stage, ended, lent, imported, retrieval, cancelling, changes, cancelled>>

MayBeCancelled(r, n) == r \in cancelling /\ step[<<r, n>>] \in {"working", "refused"}

\* CancelledError in the call.  A mutation first records what it does not know.
CancelStep(r, n) ==
  /\ MayBeCancelled(r, n)
  /\ LeaveOperation(<<r, n>>)
  /\ \/ UNCHANGED store
     \/ \E record \in FoundRecords(store[r]) :
          /\ AdmittedStep(r, n) /\ ~ record.completed
          /\ record.supersedes = {} /\ record.conflicts = {}
          /\ MayAdd(store[r], Own(n), record)
          /\ store' = [store EXCEPT ![r] = Added(@, Own(n), record)]
  /\ step' = [step EXCEPT ![<<r, n>>] = "raised"]
  /\ UNCHANGED <<stage, ended, lent, imported, retrieval, cancelling, changes, cancelled>>

-----------------------------------------------------------------------------
(* The end of a run, and what its wrapper does with it. *)

\* No node of r is in a call: the gather of its wave waits for all of them (that of the
\* retrievals does not).
Quiet(r) ==
  /\ \A s \in StepsOf(r) : step[s] \in {"idle", "done", "raised"}
  /\ \A q \in Calls(r) : stage[q] \in {"idle", "out"}

NodesDone(r) ==
  /\ Retrieved(r)
  /\ \A s \in StepsOf(r) : step[s] = "done"
  /\ \A q \in Calls(r) : ended[q] = "completed"

NodeRaised(r) ==
  \/ \E s \in StepsOf(r) : step[s] = "raised"
  \/ \E q \in Calls(r) : stage[q] = "out" /\ ended[q] # "completed"

\* How run() may end: the completion check may refuse a run whose nodes are done.
Ends(r) ==
  IF r \in cancelling THEN {"cancelled"}
  ELSE IF NodesDone(r) THEN {"completed", "unresolved"}
  ELSE {"unresolved"}

\* _absorb_child_result.  A child that superseded evidence of its caller has all
\* of its records refused.
AbsorbsUnlessCancelled(r, how) ==
  LET caller == store[Caller(r)]
      refused == SupersedesCaller(store[r], caller)
  IN  /\ store' = IF refused \/ how = "cancelled" THEN store
                  ELSE [store EXCEPT ![Caller(r)] = WithImports(r, store[r], caller)]
      /\ imported' = IF refused \/ how = "cancelled" THEN imported
                     ELSE [imported EXCEPT ![r] = {Scoped(r, id) : id \in NewIn(store[r], caller)}]
      /\ ended' = [ended EXCEPT ![r] = IF refused THEN "refused" ELSE how]

Absorbs(r, how) ==
  LET caller == store[Caller(r)]
      refused == SupersedesCaller(store[r], caller)
  IN  /\ store' = IF refused THEN store
                  ELSE [store EXCEPT ![Caller(r)] = WithImports(r, store[r], caller)]
      /\ imported' = IF refused THEN imported
                     ELSE [imported EXCEPT ![r] = {Scoped(r, id) : id \in NewIn(store[r], caller)}]
      /\ ended' = [ended EXCEPT ![r] = IF refused THEN "refused" ELSE how]

MayFinish(r) ==
  /\ stage[r] = "running" /\ Quiet(r)
  /\ \/ GatherRaised(r)
     \/ Retrieved(r) /\ (r \in cancelling \/ NodesDone(r) \/ NodeRaised(r))

\* The wrapper has a value only of a child that completed; it records it when
\* its task runs again.
EndRun(r) ==
  /\ MayFinish(r)
  /\ \E how \in Ends(r) :
       IF r = Root
       THEN /\ ended' = [ended EXCEPT ![r] = how]
            /\ stage' = [stage EXCEPT ![r] = "out"]
            /\ UNCHANGED <<store, imported>>
       ELSE /\ Absorbs(r, how)
            /\ stage' = [stage EXCEPT ![r] = IF ended'[r] = "completed" THEN "returned" ELSE "out"]
  /\ UNCHANGED <<lent, step, retrieval, cancelling, changes, cancelled, ledger>>

\* _execute_tool: the output derives from what the wrapper read and from all the
\* child left.
OutputRecord(r) ==
  [Record0 EXCEPT !.dependencies = {Own(n) : n \in ToSet(Read[Last(r)])} \cup imported[r]]

RecordOutput(r) ==
  LET id == Own(Output[Last(r)]) IN
  /\ stage[r] = "returned"
  /\ stage' = [stage EXCEPT ![r] = "out"]
  /\ IF MayAdd(store[Caller(r)], id, OutputRecord(r))
     THEN /\ store' = [store EXCEPT ![Caller(r)] = Added(@, id, OutputRecord(r))]
          /\ UNCHANGED ended
     ELSE ended' = [ended EXCEPT ![r] = "failed"] /\ UNCHANGED store
  /\ UNCHANGED <<lent, imported, step, retrieval, cancelling, changes, cancelled, ledger>>

\* The caller is cancelled before the wrapper's task runs again.
DropOutput(r) ==
  /\ stage[r] = "returned" /\ Caller(r) \in cancelling
  /\ stage' = [stage EXCEPT ![r] = "out"]
  /\ ended' = [ended EXCEPT ![r] = "cancelled"]
  /\ UNCHANGED <<store, lent, imported, step, retrieval, cancelling, changes, cancelled, ledger>>

-----------------------------------------------------------------------------
(* The host. *)

\* The retrievals that are cancelled with the runs below r: those of a gather that is
\* still awaited.  One that waits for a slot leaves at once.
AwaitedBelow(r) ==
  UNION {RetrievalsOf(q) : q \in {q \in Below(r) : /\ stage[q] = "running"
                                                 /\ ~ (Retrieved(q) \/ GatherRaised(q))}}

WhenCancelled(state) ==
  IF state = "queued" THEN "cancelled"
  ELSE IF state \in {"working", "refused"} THEN "ending" ELSE state

\* The host cancels the root, or the timeout of a wrapper ends its wait_for: a
\* cancelled task cancels the children and the retrievals it awaits.
Cancel(r) ==
  /\ Works(r) /\ cancelled < MaxCancelled
  /\ cancelling' = cancelling \cup {q \in Below(r) : stage[q] = "running"}
  /\ retrieval' = [x \in AllRetrievals |->
                     IF x \in AwaitedBelow(r) THEN WhenCancelled(retrieval[x]) ELSE retrieval[x]]
  /\ cancelled' = cancelled + 1
  /\ UNCHANGED <<store, stage, ended, lent, imported, step, changes, ledger>>

Invalidate(id) ==
  /\ stage[Root] = "running" /\ changes < MaxInvalidations
  /\ id \in Known(store[Root])
  /\ LET records == store[Root].records
     IN  store' = [store EXCEPT ![Root].stale =
                     Store(store[Root])!StaleWith(records, IndexOf(records), {id})]
  /\ changes' = changes + 1
  /\ UNCHANGED <<stage, ended, lent, imported, step, retrieval, cancelling, cancelled, ledger>>

-----------------------------------------------------------------------------
RunStep(r) ==
  \/ \E n \in Steps[DefinitionOf(r)] :
       BeginStep(r, n) \/ AdmitStep(r, n) \/ EndStep(r, n) \/ CancelStep(r, n)
  \/ EndRun(r)

WrapperStep(r) == StartChild(r) \/ RecordOutput(r) \/ DropOutput(r)

RetrievalStep(x) == BeginRetrieval(x) \/ AdmitRetrieval(x) \/ EndRetrieval(x)

Progress ==
  \/ \E r \in Runs : RunStep(r)
  \/ \E x \in AllRetrievals : RetrievalStep(x)
  \/ \E r \in Children : WrapperStep(r)

Finished == stage[Root] = "out" /\ UNCHANGED compositionVars

ComposedNext ==
  \/ Progress
  \/ \E r \in Runs : Cancel(r)
  \/ \E id \in OwnNames : Invalidate(id)
  \/ Finished

ComposedSpec == ComposedInit /\ [][ComposedNext]_compositionVars

-----------------------------------------------------------------------------
(* Properties. *)

\* The names under which a run of this definition leaves records.
NamesOf(definition) == Steps[definition] \cup {Output[t] : t \in Offers[definition]}

SessionNames == {n \in Names : \E session \in Sessions : Own(n) \in Known(session)}

\* No run that may be called leaves a record under a name that the session or a run
\* above it uses.
NamesDistinct ==
  \A r \in Children : MayRunUnder(r) => \A n \in NamesOf(DefinitionOf(r)) :
    n \notin SessionNames /\ \A i \in 0..(Len(r) - 1) : n \notin NamesOf(DefinitionAt(r, i))

Absorbed(r) == ended[r] \in {"completed", "unresolved", "cancelled", "failed"}

\* What a child has of its own.
Findings(r) == Known(store[r]) \ lent[r]

InCaller(r, id) == IF id \in lent[r] THEN id ELSE Scoped(r, id)

\* "imports new child records under run-scoped identities with their
\* dependencies and conflicts intact", also of "an unresolved or cancelled child"
\* (docs/architecture.md): every record a child made is in its caller's store
\* once the child has ended, linked to the same records.
NewRecordsImported ==
  \A r \in Children : Absorbed(r) =>
    \A id \in Findings(r) :
      LET made == store[r].records[id]
          known == store[Caller(r)].records
      IN  /\ Scoped(r, id) \in DOMAIN known
          /\ known[Scoped(r, id)].dependencies = {InCaller(r, d) : d \in made.dependencies}
          /\ known[Scoped(r, id)].supersedes = {InCaller(r, d) : d \in made.supersedes}
          /\ known[Scoped(r, id)].conflicts = {InCaller(r, d) : d \in made.conflicts}

\* What a record of a run is, or was made from: the record it was lent or imported
\* from, or else what it derives from.
MadeFrom(r, id) ==
  IF r # Root /\ id \in lent[r] THEN {<<Caller(r), id>>}
  ELSE IF Len(id) > 1 THEN {<<Head(id), Tail(id)>>}
  ELSE IF store[r].records[id].completed THEN {}
  ELSE {<<r, d>> : d \in store[r].records[id].dependencies}

Everything == UNION {{r} \X Known(store[r]) : r \in Runs}

\* The records of the session that a record of a run was made from, followed
\* through the stores of the runs themselves.
Sources(r, id) ==
  LET reached[n \in 0..Cardinality(Everything)] ==
        IF n = 0 THEN {<<r, id>>}
        ELSE UNION {{x} \cup MadeFrom(x[1], x[2]) : x \in reached[n - 1]}
  IN  {x \in Known(store[Root]) :
         /\ <<Root, x>> \in reached[Cardinality(Everything)]
         /\ Len(x) = 1 /\ ~ store[Root].records[x].completed}

\* Whatever is invalidated while children run or after they ended, a record a
\* child left is current in its caller only while everything in the session that
\* it was made from is, through any depth of runs.
FindingsFollowTheirSources ==
  \A r \in Children : Caller(r) = Root =>
    \A id \in imported[r] :
      IsCurrent(store[Root], id) =>
        \A source \in Sources(r, Tail(id)) : IsCurrent(store[Root], source)

\* What a child has replaced is not current in its caller either.
ReplacedStaysReplaced ==
  \A r \in Children : \A id \in imported[r] :
    ~ IsCurrent(store[r], Tail(id)) => ~ IsCurrent(store[Caller(r)], id)

\* Who may go on: the guards of the actions of Progress, with what the other parts of
\* each action ask. Ending a call asks for the slot it gives back, a call of a run for
\* a projection; an admission always replies. DropOutput only competes with RecordOutput.
NodeMayGoOn(r, n) ==
  \/ MayBegin(r, n) \/ MayBeAdmitted(r, n)
  \/ <<r, n>> \in active /\ (MayEnd(r, n) \/ MayBeCancelled(r, n))

RetrievalMayGoOn(x) ==
  MayBeginRetrieval(x) \/ MayAdmitRetrieval(x) \/ (x \in active /\ MayEndRetrieval(x))

SomethingMayGoOn ==
  \/ \E x \in AllRetrievals : RetrievalMayGoOn(x)
  \/ \E r \in Runs : MayFinish(r) \/ \E n \in Steps[DefinitionOf(r)] : NodeMayGoOn(r, n)
  \/ \E r \in Children : stage[r] = "returned"
  \/ \E r \in Children : MayBeCalled(r) /\ (KnowsAsked(r) => ViewsFor(r) # {})

\* Nobody waits for somebody who waits for him: until the root run has ended some
\* run can go on, also when one slot is all there is and callers wait for their
\* children ("a concurrency limit of one remains usable by the child's own work").
\* Every step is taken once, so with a scheduler that goes on every run ends.
SomeRunCanGoOn == stage[Root] # "out" => SomethingMayGoOn
=============================================================================
