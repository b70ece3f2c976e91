----------------------------- MODULE MCCompiler -----------------------------
(* Definitions with a bounded number of references, over two judgments, two *)
(* tools and one provider.                                                  *)
EXTENDS Compiler, TLC

CONSTANTS j1, j2, t1, t2, p1, p2, e1, e2, i1, MaxLinks

\* Each kind of definition with a given number of references.
JudgmentsWith(n) ==
  {j \in [dependencies : {<<>>, <<j1>>, <<j2>>}, evidence : {<<>>, <<e1>>, <<j2>>, <<p1>>},
          candidates : {NoProvider, p1, p2}, options : {0, MaxOptions, MaxOptions + 1}] :
     /\ Len(j.dependencies) + Len(j.evidence) + (IF j.candidates = NoProvider THEN 0 ELSE 1) = n
     /\ j.options = 0 <=> j.candidates # NoProvider
     /\ j.options > MaxOptions => n = 0}

Binding(kind, ref, inputs) == [kind |-> kind, ref |-> ref, inputs |-> inputs]
Selected == Binding("candidate", p1, <<j1>>)
Given == Binding("task_input", i1, <<>>)

Bindings ==
  {Selected, Given, Binding("candidate", p2, <<j1>>), Binding("candidate", p1, <<j2>>),
   Binding("source", e1, <<>>), Binding("judgment", j2, <<>>), Binding("generated", t2, <<>>),
   Binding("derivation", t2, <<e2>>), Binding("derivation", t2, <<j1>>),
   Binding("derivation", t1, <<e2>>)}

BindingsOf(n) ==
  CASE n = 0 -> {<<>>}
    [] n = 1 -> {<<b>> : b \in Bindings}
    [] n = 2 -> {<<b, c>> : b \in {Selected, Given}, c \in Bindings}
    [] OTHER -> {}

\* Pure tools may be transformations; the others require evidence as well.
ToolsWith(n, outputs) ==
  {[requires |-> <<>>, produces |-> p, bindings |-> b, pure |-> TRUE,
    groups |-> IF Len(b) = 2 THEN {{1, 2}} ELSE {}] : p \in outputs, b \in BindingsOf(n)}
  \cup {[requires |-> r, produces |-> p, bindings |-> b, pure |-> FALSE, groups |-> {}] :
     r \in {<<e1>>, <<e2>>, <<j1>>}, p \in outputs, b \in BindingsOf(n - 1)}

\* Completion contracts: which result fields are bound, and the output's fields.
Contract(results, scalar, fields) == [results |-> results, scalar |-> scalar, fields |-> fields]
Answer == <<[field |-> "answer", need |-> e1]>>
Unbound == Contract(<<>>, TRUE, {})
Contracts ==
  {Unbound, Contract(Answer, TRUE, {}), Contract(Answer, FALSE, {"answer"}),
   Contract(Answer, FALSE, {"answer", "score"})}

Total(w) == w[1] + w[2] + w[3] + w[4]
Weights == {w \in [1..4 -> 0..2] : Total(w) <= MaxLinks}

Nothing == [p \in {} |-> p]
Plain == [available |-> {}, snapshots |-> Nothing, supplied |-> {}, routes |-> Nothing,
          revision |-> <<>>, steps |-> 1]

\* A snapshot: whether its id is the provider's, its coverage, its candidates.
MCSnapshots == [matches : BOOLEAN, failed : BOOLEAN, size : 0..MaxOptions]
Listed == [matches |-> TRUE, failed |-> FALSE, size |-> 1]

Usual ==
  {Plain, [Plain EXCEPT !.available = {e2}, !.supplied = {i1}],
   [Plain EXCEPT !.snapshots = p1 :> Listed, !.revision = <<t2>>]}

Faulty ==
  {[Plain EXCEPT !.snapshots = p1 :> [Listed EXCEPT !.matches = FALSE], !.routes = j1 :> j2],
   [Plain EXCEPT !.routes = j1 :> j2], [Plain EXCEPT !.routes = j1 :> j2 @@ j2 :> j2],
   [Plain EXCEPT !.snapshots = p2 :> Listed], [Plain EXCEPT !.revision = <<t1, t2>>]}

MCRequests == Usual \cup Faulty

\* Definitions is too large a set to be built: the instance leaves it empty and
\* draws each definition part by part, the smaller ones with every request.
MCInit ==
  \E w \in Weights :
    /\ \E a \in JudgmentsWith(w[1]), b \in JudgmentsWith(w[2]),
          c \in ToolsWith(w[3], {{e1}}), d \in ToolsWith(w[4], {{e1}, {e2}}),
          root \in {e1, j1}, contract \in Contracts :
         /\ Total(w) > 1 => contract = Unbound
         /\ root = j1 => Total(w) < MaxLinks
         /\ definition = [judgments |-> (j1 :> a @@ j2 :> b), tools |-> (t1 :> c @@ t2 :> d),
                          providers |-> (p1 :> {i1}), required |-> <<root>>,
                          results |-> contract.results, scalar |-> contract.scalar,
                          fields |-> contract.fields]
    /\ WellDefined(definition)
    /\ Start
    /\ Total(w) > 1 => given \in Usual

MCSpec == MCInit /\ [][Next]_vars
=============================================================================
