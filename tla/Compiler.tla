------------------------------ MODULE Compiler ------------------------------
(***************************************************************************)
(* compile_agent (compiler.py): from a definition and what is known so far *)
(* (evidence, candidate snapshots, inputs) to a program, by a depth-first  *)
(* walk from the completion contract.  The walk's call stack is a state    *)
(* variable: one step resolves one reference of the innermost open visit,  *)
(* or closes that visit.  A run compiles twice, the second time with the   *)
(* snapshots it retrieved and with evidence added meanwhile (runtime.py).  *)
(*                                                                         *)
(* Texts, versions and types of the definitions are left out; names, the   *)
(* order of references and the number of options are kept.                 *)
(*                                                                         *)
(* A definition named for a defect (InsertedFirst, ...) is the one below it  *)
(* with a seeded fault, kept to show that a property detects it.           *)
(***************************************************************************)
EXTENDS Integers, Sequences, FiniteSets

CONSTANTS
  Judgments, Tools, Providers,   \* names that may be registered
  Evidence,                      \* names of evidence
  Inputs,                        \* task inputs and host context keys
  Definitions,                   \* the agent definitions considered
  Requests,                      \* what compile_agent may be given with them
  Snapshots,                     \* candidate sets a provider may return
  NoProvider,                    \* candidate_set = None
  MaxOptions                     \* MAX_CHOICE_OPTIONS, MAX_SCORE_LEVELS

Names == Judgments \cup Providers \cup Evidence

ASSUME OptionsAssumption == MaxOptions \in Nat \ {0}
ASSUME NamesAssumption ==
  /\ NoProvider \notin Providers
  /\ Judgments \cap Providers = {} /\ Judgments \cap Evidence = {} /\ Providers \cap Evidence = {}
  /\ IsFiniteSet(Judgments) /\ IsFiniteSet(Tools) /\ IsFiniteSet(Providers)

ASSUME SnapshotsAssumption ==
  Snapshots \subseteq [matches : BOOLEAN, failed : BOOLEAN, size : Nat]

\* The arguments of compile_agent, by name.
Request(available, snapshots, supplied, routes, revision, steps) ==
  [available |-> available, snapshots |-> snapshots, supplied |-> supplied,
   routes |-> routes, revision |-> revision, steps |-> steps]

ASSUME RequestsAssumption ==
  \A r \in Requests :
    /\ r = Request(r.available, r.snapshots, r.supplied, r.routes, r.revision, r.steps)
    /\ r.snapshots \in [DOMAIN r.snapshots -> Snapshots]
    /\ r.revision \in Seq(Tools)

VARIABLES
  definition,   \* the AgentDefinition
  given,        \* the other arguments of compile_agent
  stack,        \* open visits, innermost last
  nodes,        \* the program's nodes in insertion order
  questions,    \* judgment id -> whether its question is dispatchable
  diagnosed,    \* nodes some diagnostic is about
  outcome,      \* "called", "compiling", "compiled" or the code of the failure
  earlier       \* nodes of the run's first program; {} while it is the first

vars == <<definition, given, stack, nodes, questions, diagnosed, outcome, earlier>>

Image(s) == {s[i] : i \in DOMAIN s}

-----------------------------------------------------------------------------
(* Definitions.  A definition's values refuse to be built unless these hold. *)

Kinds == {"task_input", "host_context", "constant", "default", "candidate",
          "source", "derivation", "judgment", "generated"}

\* The fields of the definition dataclasses: references are tuples of names, in
\* their order.
BindingValues == [kind : Kinds, ref : Names \cup Tools \cup Inputs, inputs : Seq(Names)]

FieldsTyped(d) ==
  /\ DOMAIN d.judgments \subseteq Judgments
  /\ DOMAIN d.tools \subseteq Tools
  /\ DOMAIN d.providers \subseteq Providers
  /\ \A j \in DOMAIN d.judgments :
       /\ d.judgments[j].dependencies \in Seq(Judgments)
       /\ d.judgments[j].evidence \in Seq(Names)
       /\ d.judgments[j].candidates \in Providers \cup {NoProvider}
       /\ d.judgments[j].options \in Nat
  /\ \A t \in DOMAIN d.tools :
       /\ d.tools[t].requires \in Seq(Names)
       /\ d.tools[t].bindings \in Seq(BindingValues)
       /\ \A b \in Image(d.tools[t].bindings) :
            /\ b.kind = "candidate" => /\ b.ref \in Providers /\ b.inputs # <<>>
                                       /\ b.inputs[1] \in Judgments
            /\ b.kind = "derivation" => b.ref \in Tools
  /\ d.required \in Seq(Names)
  /\ [i \in DOMAIN d.results |-> d.results[i].need] \in Seq(Names)

\* Judgment.__post_init__ and AgentDefinition.__post_init__: dependencies are
\* unique and registered; a candidate set excludes fixed options.
JudgmentsDefined(d) ==
  \A j \in DOMAIN d.judgments : LET judgment == d.judgments[j] IN
    /\ Cardinality(Image(judgment.dependencies)) = Len(judgment.dependencies)
    /\ Image(judgment.dependencies) \subseteq DOMAIN d.judgments
    /\ Cardinality(Image(judgment.evidence)) = Len(judgment.evidence)
    /\ judgment.candidates # NoProvider => judgment.options = 0

\* Tool.__post_init__ and the binding checks of AgentDefinition: judgments and
\* generators that bindings name are registered, a derivation has inputs, a
\* group has two parameters of the tool.
ToolsDefined(d) ==
  \A t \in DOMAIN d.tools : LET tool == d.tools[t] IN
    /\ Cardinality(Image(tool.requires)) = Len(tool.requires)
    /\ \A b \in Image(tool.bindings) :
         /\ b.kind = "judgment" => b.ref \in DOMAIN d.judgments
         /\ b.kind = "generated" => b.ref \in DOMAIN d.tools
         /\ b.kind = "derivation" => b.inputs # <<>>
    /\ \A group \in tool.groups : Cardinality(group) >= 2 /\ group \subseteq DOMAIN tool.bindings

WellDefined(d) ==
  /\ FieldsTyped(d)
  /\ JudgmentsDefined(d)
  /\ ToolsDefined(d)
  /\ d.required # <<>>

Judgment(j) == definition.judgments[j]
Tool(t) == definition.tools[t]
Registered(p) == p \in DOMAIN definition.providers
Supplied(p) == p \in DOMAIN given.snapshots

-----------------------------------------------------------------------------
(* Nodes and the references they resolve, in the order the code visits them. *)

Node(kind, of, at) == <<kind, of, at>>
Judge(j) == Node("judge", j, 0)
Invoke(t) == Node("invoke", t, 0)
Retrieve(p) == Node("retrieve", p, 0)
Derive(t, parameter) == Node("derive", t, parameter)
Complete == Node("complete", "completion", 0)

Item(kind, ref) == [kind |-> kind, ref |-> ref]
Items(kind, refs) == [i \in DOMAIN refs |-> Item(kind, refs[i])]

AgendaWithoutCandidates(j) ==
  Items("judgment", Judgment(j).dependencies) \o Items("need", Judgment(j).evidence)

JudgmentAgenda(j) ==
  Items("judgment", Judgment(j).dependencies) \o Items("need", Judgment(j).evidence)
    \o (IF Judgment(j).candidates = NoProvider THEN <<>>
        ELSE <<Item("candidates", Judgment(j).candidates)>>)

ToolAgenda(t) ==
  Items("need", Tool(t).requires)
    \o [i \in DOMAIN Tool(t).bindings |-> Item("binding", i)]

\* required_findings and result_bindings.values(), then the revision's capabilities.
Results == [i \in DOMAIN definition.results |-> definition.results[i].need]
CompletionAgenda ==
  Items("need", definition.required) \o Items("need", Results) \o Items("tool", given.revision)

Frame(node, agenda) == [node |-> node, agenda |-> agenda, depends |-> <<>>]

Top == stack[Len(stack)]
Below == SubSeq(stack, 1, Len(stack) - 1)
Reference == Head(Top.agenda)

Done == {n.id : n \in Image(nodes)}
Open == {f.node : f \in Image(stack)}
IsUnresolved(id) == \E n \in Image(nodes) : n.id = id /\ n.unresolved

Producers(ref) == {t \in DOMAIN definition.tools : ref \in Tool(t).produces}

\* resolve_need: judgments first, then providers, then tools that produce it.
ProducingNodes(ref) ==
  IF ref \in DOMAIN definition.judgments THEN {Judge(ref)}
  ELSE IF Registered(ref) THEN {Retrieve(ref)}
  ELSE {Invoke(t) : t \in Producers(ref)}

IsAvailable(item) == item.kind = "need" /\ item.ref \in given.available

NodesFor(item) ==
  CASE item.kind = "judgment" -> {Judge(item.ref)}
    [] item.kind = "tool" -> {Invoke(item.ref)}
    [] item.kind = "candidates" -> {Retrieve(item.ref)}
    [] item.kind = "need" -> IF IsAvailable(item) THEN {} ELSE ProducingNodes(item.ref)
    [] item.kind = "binding" -> {}

-----------------------------------------------------------------------------
(* What each reference is refused for; "none" when it is not. *)

BindingRefusal(binding) ==
  CASE binding.kind = "candidate" /\ ~ Registered(binding.ref) -> "unknown_candidate_provider"
    [] /\ binding.kind = "candidate" /\ Registered(binding.ref)
       /\ ~ \E j \in DOMAIN definition.judgments :
               j = binding.inputs[1] /\ Judgment(j).candidates = binding.ref
       -> "invalid_candidate_selection"
    [] /\ binding.kind = "derivation"
       /\ ~ \E t \in DOMAIN definition.tools : t = binding.ref /\ Tool(t).pure
       -> "unknown_derivation"
    [] OTHER -> "none"

\* All that resolve_need, visit_provider and _binding refuse, cycles apart.
ReferenceRefusal(item) ==
  CASE item.kind = "binding" -> BindingRefusal(Tool(Top.node[2]).bindings[item.ref])
    [] item.kind = "need" /\ ~ IsAvailable(item) /\ NodesFor(item) = {}
       -> "missing_evidence_producer"
    [] item.kind = "need" /\ Cardinality(NodesFor(item)) > 1
       -> "ambiguous_evidence_producer"
    [] item.kind = "candidates" /\ ~ Registered(item.ref) -> "unknown_candidate_provider"
    [] /\ \E p \in DOMAIN given.snapshots :
            /\ Retrieve(p) \in NodesFor(item) \ Done
            /\ ~ given.snapshots[p].matches
       -> "candidate_snapshot_mismatch"
    [] OTHER -> "none"

RefusalOfEveryRevisit(item) ==
  IF ReferenceRefusal(item) # "none" THEN ReferenceRefusal(item)
  ELSE IF NodesFor(item) \cap (Open \cup Done) # {} THEN "dependency_cycle" ELSE "none"

Refusal(item) ==
  IF ReferenceRefusal(item) # "none" THEN ReferenceRefusal(item)
  ELSE IF NodesFor(item) \cap Open # {} THEN "dependency_cycle" ELSE "none"

OptionsWithoutNoFit(j) ==
  IF Judgment(j).candidates = NoProvider THEN Judgment(j).options
  ELSE IF Supplied(Judgment(j).candidates) THEN given.snapshots[Judgment(j).candidates].size
  ELSE 0

\* _question: the number of options put to the model; the reserved no-fit
\* option counts.
Options(j) ==
  IF Judgment(j).candidates = NoProvider THEN Judgment(j).options
  ELSE IF Supplied(Judgment(j).candidates) THEN given.snapshots[Judgment(j).candidates].size + 1
  ELSE 0

\* _validate_binding_groups: parameters of a group that binds a candidate all
\* come from one selection of one set.
GroupUnsafe(t, group) ==
  LET bindings == {Tool(t).bindings[i] : i \in group}
      candidates == {b \in bindings : b.kind = "candidate"}
  IN  candidates # {} /\ Cardinality(bindings) # 1

\* _stages: the routing id of each question, its own unless overridden.
RoutingOf(j) == IF j \in DOMAIN given.routes THEN given.routes[j] ELSE j
RoutesClash == \E j, k \in DOMAIN questions : j # k /\ RoutingOf(j) = RoutingOf(k)

CloseRefusal ==
  CASE Top.node[1] = "judge" /\ Options(Top.node[2]) > MaxOptions -> "limit_exceeded"
    [] Top.node[1] = "invoke" /\ \E g \in Tool(Top.node[2]).groups : GroupUnsafe(Top.node[2], g)
       -> "unsafe_binding_group"
    [] Top.node = Complete /\ RoutesClash -> "duplicate_question_id"
    [] OTHER -> "none"

\* A question can be put to the model when everything its judgment depends on is
\* resolved and its candidates, if it has any, were retrieved and are some.
CandidatesUsable(j) ==
  Judgment(j).candidates # NoProvider =>
    /\ Supplied(Judgment(j).candidates)
    /\ ~ given.snapshots[Judgment(j).candidates].failed
    /\ given.snapshots[Judgment(j).candidates].size > 0

Dispatchable(j, depends) ==
  (\A id \in Image(depends) : ~ IsUnresolved(id)) /\ CandidatesUsable(j)

FailureDiagnosed(j) ==
  /\ Judgment(j).candidates # NoProvider /\ Supplied(Judgment(j).candidates)
  /\ given.snapshots[Judgment(j).candidates].failed

CandidatesDiagnosed(j) ==
  /\ Judgment(j).candidates # NoProvider /\ Supplied(Judgment(j).candidates)
  /\ ~ CandidatesUsable(j)

\* compile_judgment: one direct decision, handed the snapshots that exist and the
\* judgments already resolved.
DirectRefusal(j, snapshots, resolved) ==
  LET set == Judgment(j).candidates IN
  CASE ~ Image(Judgment(j).dependencies) \subseteq resolved -> "unresolved_judgment_dependency"
    [] set = NoProvider /\ Judgment(j).options > MaxOptions -> "limit_exceeded"
    [] set = NoProvider /\ Judgment(j).options <= MaxOptions -> "none"
    [] set # NoProvider /\ set \notin DOMAIN snapshots -> "missing_candidate_snapshot"
    [] OTHER ->
         IF snapshots[set].failed THEN "candidate_retrieval_failed"
         ELSE IF snapshots[set].size = 0 THEN "deterministic_no_fit"
         ELSE IF snapshots[set].size + 1 > MaxOptions THEN "limit_exceeded"
         ELSE "none"

-----------------------------------------------------------------------------
Start ==
  /\ given \in Requests
  /\ stack = <<>> /\ nodes = <<>> /\ questions = [j \in {} |-> FALSE] /\ diagnosed = {}
  /\ outcome = "called"
  /\ earlier = {}

Init == definition \in {d \in Definitions : WellDefined(d)} /\ Start

\* _validate_revision_capabilities, the checks at the head of compile and
\* _validate_output_contract.
CallRefusal ==
  CASE \/ Len(given.revision) > given.steps
       \/ Cardinality(Image(given.revision)) # Len(given.revision) -> "definition_error"
    [] ~ Image(given.revision) \subseteq DOMAIN definition.tools -> "unknown_capability"
    [] ~ DOMAIN given.snapshots \subseteq DOMAIN definition.providers -> "unknown_candidate_snapshot"
    [] ~ DOMAIN given.routes \subseteq DOMAIN definition.judgments -> "unknown_question_id"
    [] Cardinality(Image(given.routes)) # Cardinality(DOMAIN given.routes) -> "duplicate_question_id"
    [] definition.scalar /\ definition.results # <<>> -> "unsupported_result_binding"
    [] /\ ~ definition.scalar /\ definition.results # <<>>
       /\ {r.field : r \in Image(definition.results)} # definition.fields
       -> "result_binding_mismatch"
    [] OTHER -> "none"

Call ==
  /\ outcome = "called"
  /\ outcome' = IF CallRefusal = "none" THEN "compiling" ELSE CallRefusal
  /\ stack' = IF CallRefusal = "none" THEN <<Frame(Complete, CompletionAgenda)>> ELSE <<>>
  /\ UNCHANGED <<definition, given, nodes, questions, diagnosed, earlier>>

\* The innermost visit has a reference to resolve, and it is not refused.
Resolving ==
  /\ outcome = "compiling" /\ Top.agenda # <<>>
  /\ Refusal(Reference) = "none"

\* The innermost visit goes on with these items first and these new dependencies.
Continue(items, depends) ==
  Append(Below, [node |-> Top.node, agenda |-> items \o Tail(Top.agenda),
                 depends |-> Top.depends \o depends])

Refuse ==
  /\ outcome = "compiling" /\ Top.agenda # <<>>
  /\ Refusal(Reference) # "none"
  /\ outcome' = Refusal(Reference)
  /\ UNCHANGED <<definition, given, stack, nodes, questions, diagnosed, earlier>>

\* The reference is available evidence: no node.
SkipAvailable ==
  /\ Resolving
  /\ IsAvailable(Reference)
  /\ stack' = Continue(<<>>, <<>>)
  /\ UNCHANGED <<definition, given, nodes, questions, diagnosed, outcome, earlier>>

\* The node it asks for is in the program already.
MeetNode ==
  /\ Resolving
  /\ \E id \in NodesFor(Reference) \cap Done : stack' = Continue(<<>>, <<id>>)
  /\ UNCHANGED <<definition, given, nodes, questions, diagnosed, outcome, earlier>>

\* self.nodes[id] = node.
InsertedFirst(node) == <<node>> \o nodes
Inserted(node) == Append(nodes, node)

\* visit_provider: a node without dependencies, unresolved without a snapshot.
VisitProvider ==
  /\ Resolving
  /\ \E p \in DOMAIN definition.providers :
       /\ Retrieve(p) \in NodesFor(Reference) \ Done
       /\ nodes' = Inserted([id |-> Retrieve(p), depends |-> {}, unresolved |-> ~ Supplied(p)])
       /\ diagnosed' = IF Supplied(p) /\ definition.providers[p] \subseteq given.supplied
                       THEN diagnosed ELSE diagnosed \cup {Retrieve(p)}
       /\ stack' = Continue(<<>>, <<Retrieve(p)>>)
  /\ UNCHANGED <<definition, given, questions, outcome, earlier>>

\* visit_judgment, visit_tool: a visit of their own, on top.
OpenVisit ==
  /\ Resolving
  /\ \/ \E j \in DOMAIN definition.judgments :
          /\ Judge(j) \in NodesFor(Reference) \ Done
          /\ stack' = Append(Continue(<<>>, <<>>), Frame(Judge(j), JudgmentAgenda(j)))
     \/ \E t \in DOMAIN definition.tools :
          /\ Invoke(t) \in NodesFor(Reference) \ Done
          /\ stack' = Append(Continue(<<>>, <<>>), Frame(Invoke(t), ToolAgenda(t)))
  /\ UNCHANGED <<definition, given, nodes, questions, diagnosed, outcome, earlier>>

\* _binding: constants and defaults need nothing, a missing input is diagnosed,
\* the other kinds are references in their turn.  A derivation is a node: its
\* inputs and its transformation are resolved first.
ReferencesOf(binding) ==
  CASE binding.kind = "candidate" ->
         <<Item("candidates", binding.ref), Item("judgment", binding.inputs[1])>>
    [] binding.kind = "source" -> <<Item("need", binding.ref)>>
    [] binding.kind = "judgment" -> <<Item("judgment", binding.ref)>>
    [] binding.kind = "generated" -> <<Item("tool", binding.ref)>>
    [] OTHER -> <<>>

MissesInput(binding) ==
  binding.kind \in {"task_input", "host_context"} /\ binding.ref \notin given.supplied

Bind ==
  /\ Resolving
  /\ Reference.kind = "binding"
  /\ LET t == Top.node[2]
         binding == Tool(t).bindings[Reference.ref]
     IN  /\ IF binding.kind = "derivation"
            THEN stack' = Append(Continue(<<>>, <<>>),
                                 Frame(Derive(t, Reference.ref),
                                       Items("need", binding.inputs)
                                         \o <<Item("tool", binding.ref)>>))
            ELSE stack' = Continue(ReferencesOf(binding), <<>>)
         /\ diagnosed' = IF MissesInput(binding) THEN diagnosed \cup {Top.node} ELSE diagnosed
  /\ UNCHANGED <<definition, given, nodes, questions, outcome, earlier>>

\* The node of a visit whose references are all resolved.  A derivation and the
\* completion are never unresolved themselves.
NodeUnresolved ==
  CASE Top.node[1] = "judge" -> ~ Dispatchable(Top.node[2], Top.depends)
    [] Top.node[1] = "invoke" ->
         Top.node \in diagnosed \/ \E id \in Image(Top.depends) : IsUnresolved(id)
    [] OTHER -> FALSE

\* The visit that asked for the node depends on it.
Return(id) ==
  IF Below = <<>> THEN <<>>
  ELSE [Below EXCEPT ![Len(Below)].depends = Append(@, id)]

CloseVisit ==
  /\ outcome = "compiling" /\ Top.agenda = <<>>
  /\ CloseRefusal = "none"
  /\ nodes' = Inserted([id |-> Top.node, depends |-> Image(Top.depends),
                        unresolved |-> NodeUnresolved])
  /\ questions' = IF Top.node[1] # "judge" THEN questions
                  ELSE [j \in DOMAIN questions \cup {Top.node[2]} |->
                          IF j = Top.node[2] THEN ~ NodeUnresolved ELSE questions[j]]
  /\ diagnosed' = IF Top.node[1] = "judge" /\ CandidatesDiagnosed(Top.node[2])
                  THEN diagnosed \cup {Top.node} ELSE diagnosed
  /\ stack' = Return(Top.node)
  /\ outcome' = IF Top.node = Complete THEN "compiled" ELSE outcome
  /\ UNCHANGED <<definition, given, earlier>>

RefuseClose ==
  /\ outcome = "compiling" /\ Top.agenda = <<>>
  /\ CloseRefusal # "none"
  /\ outcome' = CloseRefusal
  /\ UNCHANGED <<definition, given, stack, nodes, questions, diagnosed, earlier>>

RecompileOverNews ==
  /\ outcome = "compiled" /\ earlier = {}
  /\ given.snapshots = [p \in {} |-> p] /\ given.revision = <<>> /\ given.routes = [j \in {} |-> j]
  /\ \E added \in SUBSET Evidence,
        snapshots \in [{p \in Providers : Retrieve(p) \in Done} ->
                         {s \in Snapshots : s.matches}] :
       given' = [given EXCEPT !.available = added, !.snapshots = snapshots]
  /\ earlier' = Done
  /\ stack' = <<>> /\ nodes' = <<>> /\ questions' = [j \in {} |-> FALSE] /\ diagnosed' = {}
  /\ outcome' = "called"
  /\ UNCHANGED definition

\* Runtime.run: the program compiled without snapshots names what to retrieve;
\* once each of these providers has returned its snapshot, the definition is
\* compiled again over them and over what the store then holds.
Recompile ==
  /\ outcome = "compiled" /\ earlier = {}
  /\ given.snapshots = [p \in {} |-> p] /\ given.revision = <<>> /\ given.routes = [j \in {} |-> j]
  /\ \E added \in SUBSET Evidence,
        snapshots \in [{p \in Providers : Retrieve(p) \in Done} ->
                         {s \in Snapshots : s.matches}] :
       given' = [given EXCEPT !.available = @ \cup added, !.snapshots = snapshots]
  /\ earlier' = Done
  /\ stack' = <<>> /\ nodes' = <<>> /\ questions' = [j \in {} |-> FALSE] /\ diagnosed' = {}
  /\ outcome' = "called"
  /\ UNCHANGED definition

Next ==
  \/ Call \/ Refuse \/ SkipAvailable \/ MeetNode \/ VisitProvider \/ OpenVisit \/ Bind
  \/ CloseVisit \/ RefuseClose \/ Recompile

Spec == Init /\ [][Next]_vars

-----------------------------------------------------------------------------
(* What a program should be, from the definition alone. *)

NeedLinks(refs) == UNION {ProducingNodes(r) : r \in refs \ given.available}

BindingLinks(t, i) ==
  LET b == Tool(t).bindings[i] IN
  CASE b.kind = "candidate" -> {Retrieve(b.ref), Judge(b.inputs[1])}
    [] b.kind = "source" -> NeedLinks({b.ref})
    [] b.kind = "judgment" -> {Judge(b.ref)}
    [] b.kind = "generated" -> {Invoke(b.ref)}
    [] b.kind = "derivation" -> {Derive(t, i)}
    [] OTHER -> {}

Links(id) ==
  CASE id[1] = "judge" ->
         {Judge(d) : d \in Image(Judgment(id[2]).dependencies)}
           \cup NeedLinks(Image(Judgment(id[2]).evidence))
           \cup {Retrieve(p) : p \in {Judgment(id[2]).candidates} \ {NoProvider}}
    [] id[1] = "invoke" ->
         NeedLinks(Image(Tool(id[2]).requires))
           \cup UNION {BindingLinks(id[2], i) : i \in DOMAIN Tool(id[2]).bindings}
    [] id[1] = "derive" ->
         LET b == Tool(id[2]).bindings[id[3]] IN NeedLinks(Image(b.inputs)) \cup {Invoke(b.ref)}
    [] id[1] = "complete" ->
         NeedLinks(Image(definition.required) \cup Image(Results))
           \cup {Invoke(t) : t \in Image(given.revision)}
    [] OTHER -> {}

\* Everything reachable from some nodes; a name that is not registered leads nowhere.
Exists(id) ==
  CASE id[1] = "judge" -> id[2] \in DOMAIN definition.judgments
    [] id[1] = "retrieve" -> Registered(id[2])
    [] id[1] \in {"invoke", "derive"} -> id[2] \in DOMAIN definition.tools
    [] OTHER -> TRUE

Derivations(t) == {i \in DOMAIN Tool(t).bindings : Tool(t).bindings[i].kind = "derivation"}

AllNodes ==
  {Judge(j) : j \in Judgments} \cup {Invoke(t) : t \in Tools}
    \cup {Retrieve(p) : p \in Providers} \cup {Complete}
    \cup UNION {{Derive(t, i) : i \in Derivations(t)} : t \in DOMAIN definition.tools}

LinksOf(ids) == UNION {Links(id) : id \in {n \in ids : Exists(n)}}

ReachedFrom(ids) ==
  LET step[n \in 0..Cardinality(AllNodes)] ==
        IF n = 0 THEN ids ELSE LET reached == step[n - 1] IN reached \cup LinksOf(reached)
  IN  step[Cardinality(AllNodes)]

Needed == ReachedFrom({Complete})

\* Every node comes after all it depends on, at every moment of the walk.
ProgramOrdered ==
  \A i \in DOMAIN nodes : nodes[i].depends \subseteq {nodes[k].id : k \in 1..(i - 1)}

\* A compiled program has exactly the nodes the completion contract leads to,
\* and each depends on exactly what its own definition refers to.
ProgramIsWhatIsNeeded ==
  outcome = "compiled" =>
    /\ Done = Needed
    /\ \A n \in Image(nodes) : n.depends = Links(n.id)

\* A cycle is reported only where something needed needs itself.
CyclesAreReal ==
  outcome = "dependency_cycle" => \E id \in Needed : Exists(id) /\ id \in ReachedFrom(Links(id))

\* An agent's question can be put to the model exactly when compile_judgment
\* accepts the same judgment, its dependencies being resolved.
AgreesWithDirect ==
  outcome = "compiled" =>
    \A n \in Image(nodes) : n.id[1] = "judge" =>
      LET refusal == DirectRefusal(n.id[2], given.snapshots, DOMAIN questions) IN
      questions[n.id[2]] <=> refusal = "none" /\ \A id \in n.depends : ~ IsUnresolved(id)

\* A question that cannot be put to the model has a diagnostic on something it
\* was compiled from.
UndispatchableIsDiagnosed ==
  outcome = "compiled" =>
    \A j \in DOMAIN questions : ~ questions[j] => ReachedFrom({Judge(j)}) \cap diagnosed # {}

\* What a run learns between its two compilations only shortens the program: no
\* node needs a retrieval that was not made, and only the number of candidates
\* can make it fail.
RecompilationOnlyShortens ==
  earlier # {} =>
    /\ Done \subseteq earlier
    /\ outcome \in {"called", "compiling", "compiled", "limit_exceeded"}
=============================================================================
