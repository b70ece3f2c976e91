---------------------------- MODULE AgentRunProofs ----------------------------
(***************************************************************************)
(* What an agent run (AgentRun) keeps for any graph, limits and host: its  *)
(* types, that nothing of an inactive branch is used, that it leaves no    *)
(* work behind, that it completes over current evidence, and that every    *)
(* step brings it further.                                                 *)
(***************************************************************************)
EXTENDS AgentRun, FiniteSetTheorems, WellFoundedInduction, TLAPS

\* What has a record, or started to, had its dependencies recorded before.
Executed ==
  \A n \in Nodes :
    /\ at[n] # "idle" \/ n \in recorded => DependsOn[n] \subseteq recorded
    /\ status[n] = "completed" \/ at[n] = "policy" => n \in recorded

\* Nodes work only in the wave of a run that is executing or being cancelled, and
\* hold the permit only inside a call.
Waves ==
  /\ phase = "retrieving" => wave = {} /\ \A n \in Nodes : at[n] = "idle"
  /\ phase \in {"waves", "checking"} => \A p \in Providers : at[p] = "out"
  /\ phase \in {"checking", "ended"} => wave = {}
  /\ \A n \in Nodes : at[n] \notin {"idle", "out"} => n \in wave
  /\ \A n \in Nodes : n \in permits => at[n] \in {"working", "probing"}

\* How far the run is.
Progress ==
  /\ phase # "ended" => result = "none"
  /\ phase = "checking" \/ result = "completed" => RequiredDone
  /\ phase = "ended" /\ (\E p \in Providers : at[p] # "out") =>
       \E p \in Providers : raised[p] # "none"

IInv == TypeOK /\ Executed /\ Waves /\ Progress

-----------------------------------------------------------------------------
(* One worker moves: a node in a wave. *)

\* What every step of node n has in common.
NodeStep(n) ==
  /\ phase = "waves" /\ at[n] \notin {"idle", "out"}
  /\ UNCHANGED <<phase, result, wave, changes>>
  /\ \A w \in Workers \ {n} : at'[w] = at[w]
  /\ \A m \in Nodes \ {n} : status'[m] = status[m]
  /\ permits' \subseteq permits \cup {n}
  /\ n \in permits' => at'[n] \in {"working", "probing"}
  /\ at'[n] # "idle"
  /\ recorded \subseteq recorded' /\ recorded' \subseteq recorded \cup {n}
  /\ at'[n] = "policy" => n \in recorded'
  /\ status'[n] = "completed" => status[n] = "completed" \/ n \in recorded'

LEMMA NodeKeeps ==
  ASSUME IInv, NEW n \in Nodes, NodeStep(n), TypeOK'
  PROVE  IInv'
  <1>1. n \in Workers /\ n \notin Providers
    BY GraphAssumption DEF Workers
  <1>2. DependsOn[n] \subseteq recorded
    BY DEF IInv, Executed, NodeStep
  <1>3. Executed'
    <2> SUFFICES ASSUME NEW m \in Nodes
                 PROVE  /\ at'[m] # "idle" \/ m \in recorded' => DependsOn[m] \subseteq recorded'
                        /\ status'[m] = "completed" \/ at'[m] = "policy" => m \in recorded'
      BY DEF Executed
    <2>1. CASE m = n
      BY <2>1, <1>2 DEF IInv, Executed, NodeStep
    <2>2. CASE m # n
      <3>1. at'[m] = at[m] /\ status'[m] = status[m] /\ (m \in recorded' <=> m \in recorded)
        BY <2>2 DEF NodeStep, Workers
      <3> QED BY <3>1 DEF IInv, Executed, NodeStep
    <2> QED BY <2>1, <2>2
  <1>4. Waves'
    <2>1. \A p \in Providers : at'[p] = at[p]
      BY <1>1 DEF NodeStep, Workers
    <2>2. \A m \in Nodes : at'[m] \notin {"idle", "out"} => m \in wave'
      BY DEF IInv, Waves, NodeStep, Workers
    <2>3. \A m \in Nodes : m \in permits' => at'[m] \in {"working", "probing"}
      BY DEF IInv, Waves, NodeStep, Workers
    <2> QED BY <2>1, <2>2, <2>3 DEF IInv, Waves, NodeStep
  <1>5. Progress'
    BY DEF IInv, Progress, NodeStep
  <1> QED BY <1>3, <1>4, <1>5 DEF IInv

Places == {"idle", "start", "condition", "queued", "working", "probe_queued", "probing",
           "policy", "out"}
States == {"pending", "running", "completed", "skipped", "failed"}

\* Where a step of one worker leaves it.
LEMMA OneMoves ==
  ASSUME TypeOK, NEW w \in Workers, NEW to \in Places, Moves(w, to)
  PROVE  /\ at' \in [Workers -> Places] /\ at'[w] = to
         /\ \A v \in Workers \ {w} : at'[v] = at[v]
         /\ UNCHANGED <<status, raised>>
  BY DEF TypeOK, Moves, Places

LEMMA OneRaises ==
  ASSUME TypeOK, NEW w \in Workers, NEW error \in Errors, Raises(w, error)
  PROVE  /\ at' \in [Workers -> Places] /\ at'[w] = "out"
         /\ \A v \in Workers \ {w} : at'[v] = at[v] /\ raised'[v] = raised[v]
         /\ raised' \in [Workers -> Errors \cup {"none"}] /\ raised'[w] = error
         /\ UNCHANGED status
  BY DEF TypeOK, Raises, Places

LEMMA OneFinishes ==
  ASSUME TypeOK, NEW n \in Nodes, NEW state \in States, Finishes(n, state)
  PROVE  /\ at' \in [Workers -> Places] /\ at'[n] = "out"
         /\ \A v \in Workers \ {n} : at'[v] = at[v]
         /\ status' \in [Nodes -> States] /\ status'[n] = state
         /\ \A m \in Nodes \ {n} : status'[m] = status[m]
         /\ UNCHANGED raised
  BY DEF TypeOK, Finishes, Places, States, Workers

\* A step of node n that moves it, raises or finishes, with its frame.
Shifts(n) ==
  \/ \E to \in Places \ {"idle"} : Moves(n, to)
  \/ \E error \in Errors : Raises(n, error)
  \/ \E state \in States : Finishes(n, state)

LEMMA Shifted ==
  ASSUME TypeOK, NEW n \in Nodes, Shifts(n)
  PROVE  /\ at' \in [Workers -> Places] /\ at'[n] # "idle"
         /\ \A w \in Workers \ {n} : at'[w] = at[w]
         /\ status' \in [Nodes -> States] /\ \A m \in Nodes \ {n} : status'[m] = status[m]
         /\ raised' \in [Workers -> Errors \cup {"none"}]
  <1>1. n \in Workers
    BY DEF Workers
  <1>2. status \in [Nodes -> States] /\ raised \in [Workers -> Errors \cup {"none"}]
    BY DEF TypeOK, States
  <1>3. CASE \E to \in Places \ {"idle"} : Moves(n, to)
    BY <1>1, <1>2, <1>3, OneMoves
  <1>4. CASE \E error \in Errors : Raises(n, error)
    BY <1>1, <1>2, <1>4, OneRaises
  <1>5. CASE \E state \in States : Finishes(n, state)
    BY <1>2, <1>5, OneFinishes
  <1> QED BY <1>3, <1>4, <1>5 DEF Shifts

LEMMA NodeStepKeeps ==
  ASSUME IInv, NEW n \in Nodes, Shifts(n), phase = "waves", at[n] \notin {"idle", "out"},
         UNCHANGED <<phase, result, wave, changes>>,
         permits' \subseteq permits \cup {n},
         n \in permits' => at'[n] \in {"working", "probing"},
         at'[n] = "policy" => n \in recorded',
         status'[n] = "completed" => status[n] = "completed" \/ n \in recorded',
         recorded \subseteq recorded', recorded' \subseteq recorded \cup {n},
         accepted' \subseteq Judgments, stale' \subseteq Records,
         snapshot' \in [Providers -> Snapshots \cup {NoSnapshot}],
         presented' \in [Choosers -> Snapshots \cup {NoSnapshot}],
         count' \in Nat, dispatched' \in Nat, reported' \in Nat
  PROVE  IInv'
  <1>1. TypeOK
    BY DEF IInv
  <1>2. /\ at' \in [Workers -> Places] /\ at'[n] # "idle"
        /\ \A w \in Workers \ {n} : at'[w] = at[w]
        /\ status' \in [Nodes -> States] /\ \A m \in Nodes \ {n} : status'[m] = status[m]
        /\ raised' \in [Workers -> Errors \cup {"none"}]
    BY <1>1, Shifted
  <1>3. TypeOK'
    BY <1>1, <1>2 DEF TypeOK, Places, States, Workers
  <1>4. NodeStep(n)
    BY <1>2 DEF NodeStep
  <1> QED BY <1>3, <1>4, NodeKeeps

LEMMA NodeTypes ==
  ASSUME IInv, NEW n \in Nodes
  PROVE  /\ n \in Workers /\ at \in [Workers -> Places] /\ status \in [Nodes -> States]
         /\ raised \in [Workers -> Errors \cup {"none"}]
         /\ snapshot \in [Providers -> Snapshots \cup {NoSnapshot}]
         /\ presented \in [Choosers -> Snapshots \cup {NoSnapshot}]
         /\ recorded \subseteq Nodes /\ accepted \subseteq Judgments /\ stale \subseteq Records
         /\ count \in Nat /\ dispatched \in Nat /\ reported \in Nat
         /\ n \in permits => at[n] \in {"working", "probing"}
         /\ Choosers \subseteq Judgments /\ Judgments \subseteq Nodes /\ Tools \subseteq Nodes
  BY GraphAssumption DEF IInv, TypeOK, Waves, Places, States, Workers, Nodes

LEMMA BeginsStep ==
  ASSUME IInv, NEW n \in Nodes, Begins(n)
  PROVE  /\ presented' \in [Choosers -> Snapshots \cup {NoSnapshot}]
         /\ Shifts(n) /\ at'[n] \in {"queued", "out"} /\ UNCHANGED status
  <1>1. CASE InputsCurrent(n) /\ Moves(n, "queued") /\ Presents(n)
    <2>1. presented' \in [Choosers -> Snapshots \cup {NoSnapshot}]
      BY <1>1, NodeTypes, GraphAssumption DEF Presents
    <2> QED BY <1>1, <2>1, NodeTypes DEF Moves, Shifts, Places
  <1>2. CASE ~ InputsCurrent(n) /\ Raises(n, "failed") /\ UNCHANGED presented
    BY <1>2, NodeTypes DEF Raises, Shifts, Errors
  <1> QED BY <1>1, <1>2 DEF Begins

LEMMA StartNodeStep ==
  ASSUME IInv, NEW n \in Nodes, StartNode(n)
  PROVE  IInv'
  <1>1. /\ presented' \in [Choosers -> Snapshots \cup {NoSnapshot}]
        /\ Shifts(n) /\ at'[n] \in {"queued", "condition", "out"} /\ UNCHANGED status
    BY BeginsStep, NodeTypes DEF StartNode, Moves, Shifts, Places
  <1> QED BY <1>1, NodeTypes, NodeStepKeeps DEF StartNode, evidence, usage

LEMMA ConditionStep ==
  ASSUME IInv, NEW n \in Judgments, Condition(n)
  PROVE  IInv'
  <1>0. n \in Nodes
    BY DEF Nodes
  <1>1. CASE Begins(n)
    <2>1. /\ presented' \in [Choosers -> Snapshots \cup {NoSnapshot}]
          /\ Shifts(n) /\ at'[n] \in {"queued", "out"} /\ UNCHANGED status
      BY <1>0, <1>1, BeginsStep
    <2> QED BY <1>0, <2>1, NodeTypes, NodeStepKeeps DEF Condition, evidence, usage
  <1>2. CASE Finishes(n, "skipped") /\ UNCHANGED presented
    <2>1. Shifts(n) /\ at'[n] = "out" /\ status'[n] = "skipped"
      BY <1>0, <1>2, NodeTypes DEF Finishes, Shifts, States
    <2> QED BY <1>0, <1>2, <2>1, NodeTypes, NodeStepKeeps DEF Condition, evidence, usage
  <1>3. CASE Raises(n, "failed") /\ UNCHANGED presented
    <2>1. Shifts(n) /\ at'[n] = "out" /\ UNCHANGED status
      BY <1>0, <1>3, NodeTypes DEF Raises, Shifts, Errors
    <2> QED BY <1>0, <1>3, <2>1, NodeTypes, NodeStepKeeps DEF Condition, evidence, usage
  <1> QED BY <1>1, <1>2, <1>3 DEF Condition

\* Entering a call: the permit is taken, or the ledger refuses.
LEMMA EnterStep ==
  ASSUME IInv, NEW n \in Nodes, NEW to \in {"working", "probing"}, NEW from,
         at[n] = from, from \in {"queued", "probe_queued"}, phase = "waves",
         \/ Moves(n, to) /\ permits' = permits \cup {n}
         \/ Raises(n, "budget") /\ UNCHANGED permits
  PROVE  /\ Shifts(n) /\ UNCHANGED status /\ permits' \subseteq permits \cup {n}
         /\ n \in permits' => at'[n] \in {"working", "probing"}
         /\ at'[n] \in {"working", "probing", "out"}
  BY NodeTypes DEF Moves, Raises, Shifts, Places, Errors

LEMMA EnterToolStep ==
  ASSUME IInv, NEW n \in Tools, EnterTool(n)
  PROVE  IInv'
  <1>0. n \in Nodes
    BY DEF Nodes
  <1>1. /\ Shifts(n) /\ UNCHANGED status /\ permits' \subseteq permits \cup {n}
        /\ n \in permits' => at'[n] \in {"working", "probing"}
        /\ at'[n] \in {"working", "probing", "out"}
    BY <1>0, EnterStep DEF EnterTool
  <1> QED BY <1>0, <1>1, NodeTypes, NodeStepKeeps DEF EnterTool, evidence, usage

LEMMA EnterProbeStep ==
  ASSUME IInv, NEW n \in Judgments, EnterProbe(n)
  PROVE  IInv'
  <1>0. n \in Nodes
    BY DEF Nodes
  <1>1. /\ Shifts(n) /\ UNCHANGED status /\ permits' \subseteq permits \cup {n}
        /\ n \in permits' => at'[n] \in {"working", "probing"}
        /\ at'[n] \in {"working", "probing", "out"}
    BY <1>0, EnterStep DEF EnterProbe
  <1> QED BY <1>0, <1>1, NodeTypes, NodeStepKeeps DEF EnterProbe, evidence, usage

\* A failure inside a call leaves the permit.
LEMMA FailStep ==
  ASSUME IInv, NEW n \in Nodes, NEW error \in Errors, phase = "waves",
         at[n] \in {"working", "probing"}, Leaves(n), Raises(n, error),
         UNCHANGED <<phase, result, wave, snapshot, presented, evidence, usage, changes>>
  PROVE  IInv'
  <1>1. Shifts(n) /\ at'[n] = "out" /\ UNCHANGED status
    BY NodeTypes DEF Raises, Shifts
  <1> QED BY <1>1, NodeTypes, NodeStepKeeps DEF Leaves, evidence, usage

LEMMA LeaveToolStep ==
  ASSUME IInv, NEW n \in Tools, LeaveTool(n)
  PROVE  IInv'
  <1>0. n \in Nodes
    BY DEF Nodes
  <1>1. CASE Finishes(n, "completed") /\ AddsRecord(n)
    <2>1. Shifts(n) /\ at'[n] = "out"
      BY <1>0, <1>1, NodeTypes DEF Finishes, Shifts, States
    <2>2. recorded' = recorded \cup {n} /\ stale' \subseteq Records /\ count' \in Nat
      BY <1>1, <1>0, NodeTypes DEF AddsRecord
    <2> QED BY <1>0, <2>1, <2>2, NodeTypes, NodeStepKeeps DEF LeaveTool, Leaves, usage
  <1>2. CASE Raises(n, "failed") /\ UNCHANGED <<recorded, stale, count>>
    BY <1>0, <1>2, FailStep DEF LeaveTool, evidence, Errors
  <1> QED BY <1>1, <1>2 DEF LeaveTool

\* An investigation asks for a permit or ends the judgment.
LEMMA InvestigatesShifts ==
  ASSUME IInv, NEW n \in Nodes, NEW records, Investigates(n, records)
  PROVE  Shifts(n) /\ at'[n] \in {"probe_queued", "out"} /\ UNCHANGED status
  BY NodeTypes DEF Investigates, Moves, Raises, Shifts, Places, Errors

LEMMA EnterJudgmentStep ==
  ASSUME IInv, NEW n \in Judgments, EnterJudgment(n)
  PROVE  IInv'
  <1>0. n \in Nodes
    BY DEF Nodes
  <1>1. CASE /\ UNCHANGED <<permits, dispatched>>
             /\ Raises(n, "failed") \/ Raises(n, "refuted") \/ Investigates(n, count)
    <2>1. Shifts(n) /\ at'[n] \in {"probe_queued", "out"} /\ UNCHANGED status
      BY <1>0, <1>1, NodeTypes, InvestigatesShifts DEF Raises, Shifts, Errors
    <2> QED BY <1>0, <1>1, <2>1, NodeTypes, NodeStepKeeps DEF EnterJudgment, evidence
  <1>2. CASE \/ /\ Moves(n, "working") /\ permits' = permits \cup {n}
                /\ dispatched' = dispatched + 1
             \/ Raises(n, "budget") /\ UNCHANGED <<permits, dispatched>>
    <2>1. /\ Shifts(n) /\ UNCHANGED status /\ permits' \subseteq permits \cup {n}
          /\ n \in permits' => at'[n] \in {"working", "probing"}
          /\ at'[n] \in {"working", "probing", "out"}
      BY <1>0, <1>2, EnterStep DEF EnterJudgment
    <2>2. dispatched' \in Nat
      BY <1>0, <1>2, NodeTypes
    <2> QED BY <1>0, <2>1, <2>2, NodeTypes, NodeStepKeeps DEF EnterJudgment, evidence
  <1> QED BY <1>1, <1>2 DEF EnterJudgment

LEMMA AnswersStep ==
  ASSUME IInv, NEW n \in Judgments, Answers(n)
  PROVE  IInv'
  <1>0. n \in Nodes
    BY DEF Nodes
  <1>1. recorded' = recorded \cup {n} /\ stale' \subseteq Records /\ count' \in Nat
    BY <1>0, NodeTypes DEF Answers, AddsRecord
  <1>2. reported' \in Nat
    BY <1>0, NodeTypes DEF Answers
  <1>3. \/ Raises(n, "stale") \/ Raises(n, "refuted") \/ Decided(n) \/ Investigates(n, count + 1)
    BY DEF Answers
  <1>4. Shifts(n) /\ at'[n] \notin {"working", "probing"}
    <2>1. CASE Decided(n)
      BY <1>0, <2>1, NodeTypes DEF Decided, Moves, Finishes, Shifts, Places, States
    <2>2. CASE Investigates(n, count + 1)
      BY <1>0, <2>2, InvestigatesShifts
    <2>3. CASE Raises(n, "stale") \/ Raises(n, "refuted")
      BY <1>0, <2>3, NodeTypes DEF Raises, Shifts, Errors
    <2> QED BY <1>3, <2>1, <2>2, <2>3
  <1> QED BY <1>0, <1>1, <1>2, <1>4, NodeTypes, NodeStepKeeps DEF Answers, Leaves

LEMMA PolicyStep ==
  ASSUME IInv, NEW n \in Judgments, Policy(n)
  PROVE  IInv'
  <1>0. n \in Nodes
    BY DEF Nodes
  <1>1. n \in recorded
    BY <1>0 DEF IInv, Executed, Policy
  <1>2. Shifts(n) /\ at'[n] = "out"
    BY <1>0, NodeTypes DEF Policy, Finishes, Raises, Shifts, States, Errors
  <1>3. accepted' \subseteq Judgments /\ count' \in Nat
    BY <1>0, NodeTypes DEF Policy
  <1> QED BY <1>0, <1>1, <1>2, <1>3, NodeTypes, NodeStepKeeps DEF Policy, usage

LEMMA ProbeReturnsStep ==
  ASSUME IInv, NEW n \in Choosers, ProbeReturns(n)
  PROVE  IInv'
  <1>0. n \in Nodes /\ n \in Judgments /\ CandidatesOf[n] \in Providers
    BY GraphAssumption DEF Nodes
  <1>1. PICK s \in Expansions(n) \cup {NoSnapshot}, found \in 0..1 :
          /\ snapshot' \in {snapshot, [snapshot EXCEPT ![CandidatesOf[n]] = s]}
          /\ count' = count + found
          /\ \/ /\ Moves(n, "queued")
                /\ presented' = [presented EXCEPT ![n] = snapshot'[CandidatesOf[n]]]
             \/ Raises(n, "no_progress") /\ UNCHANGED presented
    BY DEF ProbeReturns
  <1>2. s \in Snapshots \cup {NoSnapshot}
    BY <1>0, NodeTypes DEF Expansions
  <1>3. snapshot' \in [Providers -> Snapshots \cup {NoSnapshot}]
    BY <1>0, <1>1, <1>2, NodeTypes
  <1>4. presented' \in [Choosers -> Snapshots \cup {NoSnapshot}] /\ count' \in Nat
    BY <1>0, <1>1, <1>3, NodeTypes
  <1>5. Shifts(n) /\ at'[n] \in {"queued", "out"} /\ UNCHANGED status
    BY <1>0, <1>1, NodeTypes DEF Moves, Raises, Shifts, Places, Errors
  <1> QED BY <1>0, <1>3, <1>4, <1>5, NodeTypes, NodeStepKeeps DEF ProbeReturns, Leaves, usage

LEMMA CallFails ==
  ASSUME IInv, NEW n \in Judgments, ProviderFails(n) \/ RetryRefused(n) \/ ProbeFails(n)
  PROVE  IInv'
  <1>0. n \in Nodes
    BY DEF Nodes
  <1> QED BY <1>0, FailStep DEF ProviderFails, RetryRefused, ProbeFails, Errors

-----------------------------------------------------------------------------
(* Retrievals, and workers of a cancelled run. *)

\* A step that moves a provider, or cancels a worker.
LEMMA OtherWorkerKeeps ==
  ASSUME IInv, NEW w \in Workers,
         w \in Providers \/ (at'[w] = "out" /\ phase = "cancelling"),
         at[w] \notin {"idle", "out"},
         at' \in [Workers -> Places], \A v \in Workers \ {w} : at'[v] = at[v],
         raised' \in [Workers -> Errors \cup {"none"}],
         \A v \in Workers : raised[v] # "none" => raised'[v] # "none",
         permits' \subseteq permits \cup {w},
         w \in permits' => w \in Providers,
         \/ UNCHANGED <<phase, result>>
         \/ phase = "retrieving" /\ phase' = "ended" /\ result' \in Errors /\ raised'[w] # "none",
         phase \notin {"waves", "checking"},
         snapshot' \in [Providers -> Snapshots \cup {NoSnapshot}],
         UNCHANGED <<status, wave, presented, evidence, probes, usage, changes>>
  PROVE  IInv'
  <1>1. TypeOK'
    BY DEF IInv, TypeOK, Places, Workers, evidence, usage
  <1>2. Executed'
    <2>1. \A n \in Nodes : /\ at'[n] # "idle" => at[n] # "idle"
                           /\ at'[n] = "policy" => at[n] = "policy"
      BY GraphAssumption DEF Workers
    <2>2. recorded' = recorded /\ status' = status
      BY DEF evidence
    <2> QED BY <2>1, <2>2 DEF IInv, Executed
  <1>3. Waves'
    <2>1. wave' = wave /\ phase' \notin {"waves", "checking"}
      OBVIOUS
    <2>2. phase' \in {"retrieving", "ended"} => wave' = {}
      BY DEF IInv, Waves
    <2>3. phase' = "retrieving" => \A n \in Nodes : at'[n] = "idle"
      BY GraphAssumption DEF IInv, Waves, Workers
    <2>4. \A n \in Nodes : at'[n] \notin {"idle", "out"} => n \in wave'
      BY GraphAssumption DEF IInv, Waves, Workers
    <2>5. \A n \in Nodes : n \in permits' => at'[n] \in {"working", "probing"}
      BY GraphAssumption DEF IInv, Waves, Workers
    <2> QED BY <2>1, <2>2, <2>3, <2>4, <2>5 DEF Waves
  <1>4. Progress'
    <2>1. "completed" \notin Errors
      BY DEF Errors
    <2>2. CASE UNCHANGED <<phase, result>>
      <3>1. phase = "ended" /\ (\E p \in Providers : at'[p] # "out") =>
              \E p \in Providers : raised[p] # "none"
        BY <2>2 DEF IInv, Progress, Workers
      <3> QED BY <2>2, <3>1 DEF IInv, Progress, Workers, RequiredDone
    <2>3. CASE phase = "retrieving" /\ phase' = "ended" /\ result' \in Errors /\ raised'[w] # "none"
      BY <2>1, <2>3 DEF IInv, Progress, Workers
    <2> QED BY <2>2, <2>3
  <1> QED BY <1>1, <1>2, <1>3, <1>4 DEF IInv

LEMMA RetrievalSteps ==
  ASSUME IInv, NEW p \in Providers, EnterRetrieval(p) \/ LeaveRetrieval(p)
  PROVE  IInv'
  <1>1. p \in Workers /\ at[p] \in {"queued", "working"} /\ phase \notin {"waves", "checking"}
    BY DEF Workers, EnterRetrieval, LeaveRetrieval, IInv, Waves
  <1>2. at \in [Workers -> Places] /\ raised \in [Workers -> Errors \cup {"none"}]
        /\ snapshot \in [Providers -> Snapshots \cup {NoSnapshot}]
    BY DEF IInv, TypeOK, Places
  <1>3. PICK error \in {"budget", "failed"}, to \in {"working", "out"} :
          \/ Moves(p, to) /\ UNCHANGED <<phase, result>>
          \/ Raises(p, error) /\ RetrievalFails(error)
    BY DEF EnterRetrieval, LeaveRetrieval
  <1>4. /\ at' \in [Workers -> Places] /\ \A v \in Workers \ {p} : at'[v] = at[v]
        /\ raised' \in [Workers -> Errors \cup {"none"}]
        /\ \A v \in Workers : raised[v] # "none" => raised'[v] # "none"
        /\ UNCHANGED status
    BY <1>1, <1>2, <1>3 DEF Moves, Raises, Places, Errors
  <1>5. \/ UNCHANGED <<phase, result>>
        \/ phase = "retrieving" /\ phase' = "ended" /\ result' \in Errors /\ raised'[p] # "none"
    BY <1>1, <1>2, <1>3 DEF Raises, RetrievalFails, Ends, Errors
  <1>6. snapshot' \in [Providers -> Snapshots \cup {NoSnapshot}]
    <2>1. CASE EnterRetrieval(p)
      BY <2>1, <1>2 DEF EnterRetrieval
    <2>2. CASE LeaveRetrieval(p)
      <3>1. \A empty, complete \in BOOLEAN :
              [version |-> 0, empty |-> empty, complete |-> complete] \in Snapshots
        BY LimitsAssumption DEF Snapshots
      <3> QED BY <2>2, <3>1, <1>2 DEF LeaveRetrieval
    <2> QED BY <2>1, <2>2
  <1>7. /\ permits' \subseteq permits \cup {p}
        /\ UNCHANGED <<wave, presented, evidence, probes, usage, changes>>
    BY DEF EnterRetrieval, LeaveRetrieval, Leaves
  <1> QED BY <1>1, <1>4, <1>5, <1>6, <1>7, OtherWorkerKeeps

LEMMA CancelWorkerStep ==
  ASSUME IInv, NEW w \in Workers, CancelWorker(w)
  PROVE  IInv'
  <1>1. at \in [Workers -> Places] /\ raised \in [Workers -> Errors \cup {"none"}]
        /\ snapshot \in [Providers -> Snapshots \cup {NoSnapshot}]
    BY DEF IInv, TypeOK, Places
  <1>2. /\ at' \in [Workers -> Places] /\ \A v \in Workers \ {w} : at'[v] = at[v]
        /\ raised' \in [Workers -> Errors \cup {"none"}] /\ at'[w] = "out"
        /\ \A v \in Workers : raised[v] # "none" => raised'[v] # "none"
        /\ UNCHANGED status
    BY <1>1 DEF CancelWorker, Raises, Places, Errors
  <1>3. phase = "cancelling" \/ phase = "ended"
    BY DEF CancelWorker, IInv, Progress
  <1>4. w \in Providers \/ phase = "cancelling"
    BY <1>3 DEF CancelWorker, IInv, Waves, Workers
  <1>5. /\ permits' = permits \ {w} /\ at[w] \notin {"idle", "out"}
        /\ UNCHANGED <<phase, result, wave, snapshot, presented, evidence, probes, usage, changes>>
    BY DEF CancelWorker, Leaves
  <1> QED BY <1>1, <1>2, <1>3, <1>4, <1>5, OtherWorkerKeeps

LEMMA WorkSteps ==
  ASSUME IInv, NEW w \in Workers, Work(w)
  PROVE  IInv'
  BY RetrievalSteps, StartNodeStep, EnterToolStep, LeaveToolStep, ConditionStep,
     EnterJudgmentStep, AnswersStep, CallFails, EnterProbeStep, PolicyStep, ProbeReturnsStep,
     CancelWorkerStep DEF Work

-----------------------------------------------------------------------------
(* The run itself. *)

\* The first failure in program order is one of a node of the wave.
LEMMA FirstFailedFails ==
  ASSUME IInv, Failed # {}
  PROVE  /\ FirstFailed \in Nodes /\ raised[FirstFailed] \in Errors
         /\ Outcome(raised[FirstFailed]) \in Errors
  <1>1. Failed \subseteq Nat
    BY GraphAssumption DEF Failed
  <1>2. \E i \in Failed : \A k \in Failed : ~ (<<k, i>> \in OpToRel(<, Nat))
    BY <1>1, WFMin, NatLessThanWellFounded
  <1>3. \E i \in Failed : \A k \in Failed : i <= k
    <2>1. PICK i \in Failed : \A k \in Failed : ~ (<<k, i>> \in OpToRel(<, Nat))
      BY <1>2
    <2>2. \A k \in Failed : ~ k < i
      BY <1>1, <2>1 DEF OpToRel
    <2> QED BY <1>1, <2>2
  <1> DEFINE first == CHOOSE i \in Failed : \A k \in Failed : i <= k
  <1>4. first \in Failed
    BY <1>3
  <1>5. first \in 1..Len(Order) /\ raised[Order[first]] # "none" /\ FirstFailed = Order[first]
    BY <1>4 DEF Failed, FirstFailed
  <1>6. Order[first] \in Nodes
    BY <1>5, GraphAssumption
  <1>7. raised[FirstFailed] \in Errors
    BY <1>5, <1>6 DEF IInv, TypeOK, Workers
  <1> QED BY <1>5, <1>6, <1>7 DEF Outcome, Errors

LEMMA ScheduleSteps ==
  ASSUME IInv, Schedule
  PROVE  IInv'
  <1>0. TypeOK
    BY DEF IInv
  <1>1. CASE Retrieved
    <2>1. TypeOK'
      BY <1>0, <1>1 DEF Retrieved, TypeOK, workers, evidence, usage
    <2>2. Executed' /\ Waves' /\ Progress'
      BY <1>1 DEF IInv, Executed, Waves, Progress, Retrieved, workers, evidence, usage
    <2> QED BY <2>1, <2>2 DEF IInv
  <1>2. CASE StartWave
    <2>1. Ready \subseteq Pending /\ \A n \in Ready : DependsOn[n] \subseteq recorded
      <3>1. ASSUME NEW n \in Ready, NEW m \in DependsOn[n]
            PROVE  m \in recorded
        <4>1. m \in Nodes /\ status[m] = "completed"
          BY GraphAssumption DEF Ready, Pending
        <4> QED BY <4>1 DEF IInv, Executed
      <3> QED BY <3>1 DEF Ready
    <2>2. Pending \subseteq Nodes
      BY DEF Pending
    <2>3. /\ status' = [n \in Nodes |-> IF n \in SkipsNow THEN "skipped"
                                        ELSE IF n \in Ready THEN "running" ELSE status[n]]
          /\ phase = "waves" /\ wave = {}
          /\ UNCHANGED <<raised, permits, snapshot, presented, evidence, probes, usage, changes>>
      BY <1>2 DEF StartWave
    <2>4. status' \in [Nodes -> States]
      BY <1>0, <2>3 DEF TypeOK, States
    <2>5. \A n \in Nodes : status'[n] = "completed" => status[n] = "completed"
      BY <2>3
    <2>6. CASE /\ wave' = Ready /\ UNCHANGED <<phase, result>>
               /\ at' = [w \in Workers |-> IF w \in Ready THEN "start" ELSE at[w]]
      <3>1. TypeOK'
        BY <1>0, <2>1, <2>2, <2>3, <2>4, <2>6 DEF TypeOK, States, evidence, usage
      <3>2. Executed'
        BY <2>1, <2>2, <2>3, <2>5, <2>6 DEF IInv, Executed, evidence, Workers
      <3>3. Waves'
        <4>1. \A p \in Providers : p \notin Ready
          BY <2>1, <2>2, GraphAssumption
        <4>2. \A n \in Nodes : at[n] \in {"idle", "out"} /\ n \notin permits
          BY <2>3 DEF IInv, Waves
        <4> QED BY <2>3, <2>6, <4>1, <4>2 DEF IInv, Waves, Workers
      <3>4. Progress'
        BY <2>3, <2>6 DEF IInv, Progress
      <3> QED BY <3>1, <3>2, <3>3, <3>4 DEF IInv
    <2>7. CASE Ends("no_progress") /\ UNCHANGED <<wave, at>>
      <3>1. TypeOK'
        BY <1>0, <2>3, <2>4, <2>7 DEF TypeOK, States, Ends, Errors, evidence, usage
      <3>2. Executed' /\ Waves' /\ Progress'
        BY <2>3, <2>5, <2>7 DEF IInv, Executed, Waves, Progress, Ends, evidence
      <3> QED BY <3>1, <3>2 DEF IInv
    <2> QED BY <1>2, <2>6, <2>7 DEF StartWave
  <1>3. CASE EndWave
    <2>1. /\ phase = "waves" /\ wave' = {} /\ \A n \in wave : at[n] = "out"
          /\ UNCHANGED <<at, raised, permits, snapshot, presented, evidence, probes, dispatched, changes>>
      BY <1>3 DEF EndWave
    <2>2. CASE Failed = {}
      <3>1. UNCHANGED <<phase, result, status, reported>>
        BY <1>3, <2>2 DEF EndWave
      <3>2. TypeOK'
        BY <1>0, <2>1, <3>1 DEF TypeOK, evidence
      <3>3. Executed' /\ Waves' /\ Progress'
        BY <2>1, <3>1 DEF IInv, Executed, Waves, Progress, evidence, RequiredDone
      <3> QED BY <3>2, <3>3 DEF IInv
    <2>3. CASE Failed # {}
      <3>1. /\ phase' = "ended" /\ result' = Outcome(raised[FirstFailed])
            /\ status' = [status EXCEPT ![FirstFailed] = "failed"]
            /\ reported' \in {reported + 1, reported}
        BY <1>3, <2>3 DEF EndWave, Ends
      <3>2. FirstFailed \in Nodes /\ result' \in Errors
        BY <2>3, <3>1, FirstFailedFails
      <3>3. /\ status' \in [Nodes -> States]
            /\ \A n \in Nodes : status'[n] = "completed" => status[n] = "completed"
        BY <1>0, <3>1, <3>2 DEF TypeOK, States
      <3>4. TypeOK'
        BY <1>0, <2>1, <3>1, <3>2, <3>3 DEF TypeOK, States, evidence
      <3>5. Executed' /\ Waves'
        BY <2>1, <3>1, <3>3 DEF IInv, Executed, Waves, evidence
      <3>6. Progress'
        BY <2>1, <3>1, <3>2 DEF IInv, Waves, Progress, Errors
      <3> QED BY <3>4, <3>5, <3>6 DEF IInv
    <2> QED BY <2>2, <2>3
  <1>4. CASE BeginCheck
    <2>1. TypeOK'
      BY <1>0, <1>4 DEF BeginCheck, Ends, Errors, TypeOK, workers, evidence, usage
    <2>2. Executed' /\ Waves' /\ Progress'
      BY <1>4 DEF IInv, Executed, Waves, Progress, BeginCheck, Ends, RequiredDone, workers, evidence
    <2> QED BY <2>1, <2>2 DEF IInv
  <1>5. CASE CheckReturns
    <2>1. /\ phase = "checking" /\ phase' = "ended" /\ result' \in Errors \cup {"completed"}
          /\ UNCHANGED <<workers, wave, snapshot, presented, recorded, stale, probes, usage, changes>>
          /\ accepted' \in {accepted, Judgments \cap recorded}
          /\ count' \in {count, count + Cardinality(accepted' \ accepted)}
      BY <1>5 DEF CheckReturns, Ends, Errors
    <2>2. accepted' \subseteq Judgments
      BY <1>0, <2>1 DEF TypeOK
    <2>3. Cardinality(accepted' \ accepted) \in Nat
      <3>1. IsFiniteSet(accepted' \ accepted)
        BY <2>2, GraphAssumption, FS_Subset DEF Nodes
      <3> QED BY <3>1, FS_CardinalityType
    <2>4. count' \in Nat
      BY <1>0, <2>1, <2>3 DEF TypeOK
    <2>5. TypeOK'
      BY <1>0, <2>1, <2>2, <2>4 DEF TypeOK, workers, usage
    <2>6. Executed' /\ Waves' /\ Progress'
      BY <2>1 DEF IInv, Executed, Waves, Progress, RequiredDone, workers
    <2> QED BY <2>5, <2>6 DEF IInv
  <1>6. CASE CheckRaises
    <2>1. TypeOK'
      BY <1>0, <1>6 DEF CheckRaises, Ends, Errors, TypeOK, workers, evidence, usage
    <2>2. Executed' /\ Waves' /\ Progress'
      BY <1>6 DEF IInv, Executed, Waves, Progress, CheckRaises, Ends, workers, evidence
    <2> QED BY <2>1, <2>2 DEF IInv
  <1>7. CASE Cancelled
    <2>1. TypeOK'
      BY <1>0, <1>7 DEF Cancelled, Ends, Errors, TypeOK, workers, evidence, usage
    <2>2. Executed' /\ Waves' /\ Progress'
      BY <1>7 DEF IInv, Executed, Waves, Progress, Cancelled, Ends, workers, evidence
    <2> QED BY <2>1, <2>2 DEF IInv
  <1> QED BY <1>1, <1>2, <1>3, <1>4, <1>5, <1>6, <1>7 DEF Schedule

LEMMA HostSteps ==
  ASSUME IInv, Cancel \/ Finished \/ \E x \in Records : Invalidate(x)
  PROVE  IInv'
  <1>0. TypeOK
    BY DEF IInv
  <1>1. CASE Cancel
    <2>1. TypeOK'
      BY <1>0, <1>1 DEF Cancel, TypeOK, workers, evidence, usage
    <2>2. Executed' /\ Waves' /\ Progress'
      BY <1>1 DEF IInv, Executed, Waves, Progress, Cancel, workers, evidence
    <2> QED BY <2>1, <2>2 DEF IInv
  <1>2. CASE Finished
    <2>1. TypeOK'
      BY <1>0, <1>2 DEF Finished, vars, TypeOK, workers, evidence, usage
    <2>2. Executed' /\ Waves' /\ Progress'
      BY <1>2 DEF IInv, Executed, Waves, Progress, RequiredDone, Finished, vars, workers, evidence
    <2> QED BY <2>1, <2>2 DEF IInv
  <1>3. CASE \E x \in Records : Invalidate(x)
    <2>1. TypeOK'
      BY <1>0, <1>3, LimitsAssumption DEF Invalidate, TypeOK, workers, usage
    <2>2. Executed' /\ Waves' /\ Progress'
      BY <1>3 DEF IInv, Executed, Waves, Progress, RequiredDone, Invalidate, workers
    <2> QED BY <2>1, <2>2 DEF IInv
  <1> QED BY <1>1, <1>2, <1>3

LEMMA Starts == Init => IInv
  <1> SUFFICES ASSUME Init
               PROVE  IInv
    OBVIOUS
  <1>1. TypeOK
    BY LimitsAssumption DEF Init, TypeOK
  <1>2. Executed /\ Waves /\ Progress
    BY GraphAssumption DEF Init, Executed, Waves, Progress, Workers
  <1> QED BY <1>1, <1>2 DEF IInv

LEMMA GoesOn == IInv /\ [Next]_vars => IInv'
  <1> SUFFICES ASSUME IInv, [Next]_vars
               PROVE  IInv'
    OBVIOUS
  <1>1. CASE Next
    BY <1>1, WorkSteps, ScheduleSteps, HostSteps DEF Next
  <1>2. CASE UNCHANGED vars
    <2>1. TypeOK'
      BY <1>2 DEF IInv, vars, TypeOK, workers, evidence, usage
    <2>2. Executed' /\ Waves' /\ Progress'
      BY <1>2 DEF IInv, Executed, Waves, Progress, RequiredDone, vars, workers, evidence
    <2> QED BY <2>1, <2>2 DEF IInv
  <1> QED BY <1>1, <1>2

LEMMA Invariant == Spec => []IInv
  BY Starts, GoesOn, PTL DEF Spec

-----------------------------------------------------------------------------
\* Every state of a run has its types, for any graph and limits.
THEOREM TypeCorrect == Spec => []TypeOK
  <1>1. IInv => TypeOK
    BY DEF IInv
  <1> QED BY <1>1, Invariant, PTL

\* What n derives from by its dependencies has records when n's dependencies do.
LEMMA RequiresRecorded ==
  ASSUME IInv, NEW n \in Nodes, DependsOn[n] \subseteq recorded
  PROVE  Requires[n] \subseteq recorded
  <1> DEFINE C == {n} \cup recorded
  <1>1. C \in SUBSET Records /\ {n} \subseteq C
    BY DEF IInv, TypeOK, Records
  <1>2. \A m \in C \cap Nodes : DependsOn[m] \subseteq C
    BY DEF IInv, Executed
  <1>3. Closure({n}, DependsOn) \subseteq C
    BY <1>1, <1>2 DEF Closure
  <1> QED BY <1>3 DEF Requires

\* For any graph: a node runs only after everything it depends on left a record,
\* and a run that completes executed its whole graph.
THEOREM InactiveBranchesUnused == Spec => []NothingFromInactiveBranches
  <1>1. ASSUME IInv
        PROVE  NothingFromInactiveBranches
    <2>1. \A n \in Nodes : at[n] # "idle" \/ n \in recorded => Requires[n] \subseteq recorded
      BY <1>1, RequiresRecorded DEF IInv, Executed
    <2>2. \A n \in Nodes : status[n] = "completed" => n \in recorded
      BY <1>1 DEF IInv, Executed
    <2>3. ASSUME result = "completed", NEW m \in Nodes
          PROVE  m \in recorded
      <3>1. \A n \in Required : n \in Nodes /\ n \in recorded
        BY <1>1, <2>2, <2>3, GraphAssumption DEF IInv, Progress, RequiredDone
      <3>2. PICK n \in Required : m = n \/ m \in Requires[n]
        BY NeededAssumption
      <3> QED BY <2>1, <3>1, <3>2
    <2>4. result = "completed" => recorded = Nodes
      BY <1>1, <2>3 DEF IInv, TypeOK
    <2> QED BY <2>1, <2>2, <2>4 DEF NothingFromInactiveBranches
  <1> QED BY <1>1, Invariant, PTL

\* For any graph and limits, a run that ended has left no node at work and no
\* permit with one.
THEOREM NothingOutlivesRun == Spec => []WorkEndsWithRun
  <1>1. IInv => WorkEndsWithRun
    BY DEF IInv, Waves, Progress, WorkEndsWithRun
  <1> QED BY <1>1, Invariant, PTL

\* For any graph and host, a run completes over current evidence only.
THEOREM CompletesOverCurrent == Spec => CompletedIsCurrent
  <1> DEFINE A == result' = "completed" /\ result # "completed" =>
                    /\ \A n \in Required : status[n] = "completed" /\ Current(n)
                    /\ \A j \in Judgments \cap recorded : Current(j) /\ j \in accepted'
  <1>1. ASSUME IInv, [Next]_vars
        PROVE  [A]_vars
    <2> SUFFICES ASSUME result' = "completed", result # "completed"
                 PROVE  A
      OBVIOUS
    <2>1. CheckReturns
      <3>1. ~ UNCHANGED result
        OBVIOUS
      <3>2. ASSUME NEW w \in Workers
            PROVE  ~ Work(w)
        <4>1. ~ RetrievalFails("failed") /\ ~ RetrievalFails("budget")
          BY <3>1 DEF RetrievalFails, Ends
        <4> QED BY <3>1, <4>1
              DEF Work, EnterRetrieval, LeaveRetrieval, StartNode, EnterTool, LeaveTool, Condition,
                  EnterJudgment, Answers, ProviderFails, RetryRefused, EnterProbe, ProbeFails,
                  Policy, ProbeReturns, CancelWorker
      <3>3. ~ EndWave
        <4> SUFFICES ASSUME EndWave
                     PROVE  FALSE
          OBVIOUS
        <4>1. Failed # {} /\ result' = Outcome(raised[FirstFailed])
          BY <3>1 DEF EndWave, Ends
        <4> QED BY <1>1, <4>1, FirstFailedFails DEF Errors
      <3> QED BY <1>1, <3>1, <3>2, <3>3
            DEF Next, Schedule, Retrieved, StartWave, BeginCheck, CheckRaises, Cancelled, Cancel,
                Invalidate, Finished, Ends, vars
    <2>2. RequiredCurrent /\ DecisionsCurrent /\ accepted' = Judgments \cap recorded
      BY <2>1 DEF CheckReturns, Ends
    <2>3. RequiredDone
      BY <1>1, <2>1 DEF IInv, Progress, CheckReturns
    <2> QED BY <2>2, <2>3 DEF RequiredCurrent, DecisionsCurrent, RequiredDone
  <1> QED BY <1>1, Invariant, PTL DEF Spec, CompletedIsCurrent

-----------------------------------------------------------------------------
(* Usage. *)

\* Decisions the provider is working on, and those whose answer came to nothing.
Asked == {j \in Judgments : at[j] = "working"}
Discarded == {j \in Judgments : raised[j] \in {"stale", "provider", "retry"}}

\* Every dispatched decision is reported, under way, or known to be unreported;
\* a node that failed is one of the wave.
Accounts ==
  /\ \A t \in Tools : raised[t] \notin {"stale", "provider", "retry"}
  /\ \A n \in Nodes : raised[n] # "none" => at[n] = "out"
  /\ phase \notin {"cancelling", "ended"} => \A n \in Nodes : raised[n] # "none" => n \in wave
  /\ reported <= dispatched
  /\ phase # "cancelling" /\ result # "cancelled" =>
       dispatched = reported + Cardinality(Asked) + Unsettled

LEMMA Finite ==
  ASSUME NEW S, S \subseteq Judgments
  PROVE  IsFiniteSet(S) /\ Cardinality(S) \in Nat
  BY GraphAssumption, FS_Subset, FS_CardinalityType DEF Nodes

LEMMA CountChanges ==
  ASSUME NEW S, NEW j \in Judgments, S \subseteq Judgments
  PROVE  /\ j \notin S => Cardinality(S \cup {j}) = Cardinality(S) + 1
         /\ j \in S => Cardinality(S \ {j}) = Cardinality(S) - 1
  BY Finite, FS_AddElement, FS_RemoveElement

\* What a step of node n does to the counts.
LEMMA NodeAccounts ==
  ASSUME IInv, Accounts, NEW n \in Nodes, phase = "waves", at[n] \notin {"idle", "out"},
         UNCHANGED <<phase, result, wave>>,
         \A w \in Workers \ {n} : at'[w] = at[w] /\ raised'[w] = raised[w],
         raised'[n] # "none" => at'[n] = "out",
         n \in Tools => raised'[n] \notin {"stale", "provider", "retry"},
         \/ /\ n \in Judgments => (at'[n] = "working" <=> at[n] = "working")
            /\ raised'[n] \notin {"stale", "provider", "retry"} /\ UNCHANGED <<dispatched, reported>>
         \/ /\ n \in Judgments /\ at[n] # "working" /\ at'[n] = "working"
            /\ raised'[n] \notin {"stale", "provider", "retry"}
            /\ dispatched' = dispatched + 1 /\ reported' = reported
         \/ /\ n \in Judgments /\ at[n] = "working" /\ at'[n] # "working"
            /\ raised'[n] \notin {"stale", "provider", "retry"}
            /\ dispatched' = dispatched /\ reported' = reported + 1
         \/ /\ n \in Judgments /\ at[n] = "working" /\ at'[n] # "working"
            /\ raised'[n] \in {"stale", "provider", "retry"}
            /\ UNCHANGED <<dispatched, reported>>
  PROVE  Accounts'
  <1>1. result = "none" /\ result' = "none" /\ n \in wave
    BY DEF IInv, Progress, Waves
  <1>2. Unsettled = Cardinality(Discarded) /\ Unsettled' = Cardinality(Discarded')
    BY <1>1 DEF Unsettled, Discarded
  <1>3. raised[n] = "none" /\ n \notin Discarded
    BY DEF Accounts, Discarded
  <1>4. /\ \A j \in Judgments \ {n} : j \in Asked' <=> j \in Asked
        /\ \A j \in Judgments \ {n} : j \in Discarded' <=> j \in Discarded
        /\ Asked \subseteq Judgments /\ Asked' \subseteq Judgments
        /\ Discarded \subseteq Judgments /\ Discarded' \subseteq Judgments
    BY DEF Asked, Discarded, Workers, Nodes
  <1>5. /\ Cardinality(Asked) \in Nat /\ Cardinality(Discarded) \in Nat
        /\ dispatched \in Nat /\ reported \in Nat
    BY <1>4, Finite DEF IInv, TypeOK
  <1>6. dispatched = reported + Cardinality(Asked) + Cardinality(Discarded)
    BY <1>1, <1>2 DEF Accounts
  <1>7. /\ reported' <= dispatched'
        /\ dispatched' = reported' + Cardinality(Asked') + Cardinality(Discarded')
    <2>1. CASE /\ n \in Judgments => (at'[n] = "working" <=> at[n] = "working")
               /\ raised'[n] \notin {"stale", "provider", "retry"} /\ UNCHANGED <<dispatched, reported>>
      <3>1. Asked' = Asked /\ Discarded' = Discarded
        BY <1>3, <1>4, <2>1 DEF Asked, Discarded
      <3> QED BY <1>5, <1>6, <2>1, <3>1
    <2>2. CASE /\ n \in Judgments /\ at[n] # "working" /\ at'[n] = "working"
               /\ raised'[n] \notin {"stale", "provider", "retry"}
               /\ dispatched' = dispatched + 1 /\ reported' = reported
      <3>1. Asked' = Asked \cup {n} /\ n \notin Asked /\ Discarded' = Discarded
        BY <1>3, <1>4, <2>2 DEF Asked, Discarded
      <3>2. Cardinality(Asked') = Cardinality(Asked) + 1
        BY <1>4, <2>2, <3>1, CountChanges
      <3> QED BY <1>5, <1>6, <2>2, <3>1, <3>2
    <2>3. CASE /\ n \in Judgments /\ at[n] = "working" /\ at'[n] # "working"
               /\ raised'[n] \notin {"stale", "provider", "retry"}
               /\ dispatched' = dispatched /\ reported' = reported + 1
      <3>1. Asked' = Asked \ {n} /\ n \in Asked /\ Discarded' = Discarded
        BY <1>3, <1>4, <2>3 DEF Asked, Discarded
      <3>2. Cardinality(Asked') = Cardinality(Asked) - 1 /\ Cardinality(Asked') \in Nat
        BY <1>4, <2>3, <3>1, CountChanges, Finite
      <3> QED BY <1>5, <1>6, <2>3, <3>1, <3>2
    <2>4. CASE /\ n \in Judgments /\ at[n] = "working" /\ at'[n] # "working"
               /\ raised'[n] \in {"stale", "provider", "retry"}
               /\ UNCHANGED <<dispatched, reported>>
      <3>1. Asked' = Asked \ {n} /\ n \in Asked /\ Discarded' = Discarded \cup {n}
        BY <1>4, <2>4 DEF Asked, Discarded
      <3>2. Cardinality(Asked') = Cardinality(Asked) - 1
        BY <1>4, <2>4, <3>1, CountChanges
      <3>3. Cardinality(Discarded') = Cardinality(Discarded) + 1
        BY <1>3, <1>4, <2>4, <3>1, CountChanges
      <3> QED BY <1>5, <1>6, <2>4, <3>2, <3>3
    <2> QED BY <2>1, <2>2, <2>3, <2>4
  <1>8. /\ \A t \in Tools : raised'[t] \notin {"stale", "provider", "retry"}
        /\ \A m \in Nodes : raised'[m] # "none" => at'[m] = "out"
        /\ \A m \in Nodes : raised'[m] # "none" => m \in wave'
    BY <1>1 DEF Accounts, Workers, Nodes
  <1> QED BY <1>1, <1>2, <1>7, <1>8 DEF Accounts

\* A step that sends nothing, and fails otherwise than by discarding an answer.
LEMMA PlainAccounts ==
  ASSUME IInv, Accounts, NEW n \in Nodes, phase = "waves", at[n] \notin {"idle", "out"},
         n \in Judgments => at[n] # "working",
         UNCHANGED <<phase, result, wave, usage>>,
         \/ \E to \in Places : Moves(n, to) /\ (n \in Judgments => to # "working")
         \/ \E error \in Errors \ {"stale", "provider", "retry"} : Raises(n, error)
         \/ \E state \in States : Finishes(n, state)
  PROVE  Accounts'
  <1>1. raised[n] = "none" /\ n \in Workers
    BY DEF Accounts, Workers
  <1>2. /\ \A w \in Workers \ {n} : at'[w] = at[w] /\ raised'[w] = raised[w]
        /\ n \in Judgments => at'[n] # "working"
        /\ raised'[n] \notin {"stale", "provider", "retry"}
        /\ raised'[n] # "none" => at'[n] = "out"
    <2>1. CASE \E to \in Places : Moves(n, to) /\ (n \in Judgments => to # "working")
      BY <1>1, <2>1, NodeTypes DEF Moves
    <2>2. CASE \E error \in Errors \ {"stale", "provider", "retry"} : Raises(n, error)
      BY <2>2, NodeTypes DEF Raises
    <2>3. CASE \E state \in States : Finishes(n, state)
      BY <1>1, <2>3, NodeTypes DEF Finishes
    <2> QED BY <2>1, <2>2, <2>3
  <1>3. UNCHANGED <<dispatched, reported>>
    BY DEF usage
  <1> QED BY <1>2, <1>3, NodeAccounts

LEMMA PlainSteps ==
  ASSUME IInv, Accounts, NEW n \in Nodes,
         \/ StartNode(n) \/ Condition(n) \/ (n \in Tools /\ (EnterTool(n) \/ LeaveTool(n)))
         \/ EnterProbe(n) \/ ProbeFails(n) \/ Policy(n) \/ ProbeReturns(n)
  PROVE  Accounts'
  <1>1. /\ phase = "waves" /\ at[n] \notin {"idle", "out"}
        /\ UNCHANGED <<phase, result, wave, usage>>
        /\ n \in Judgments => at[n] # "working"
    BY GraphAssumption
       DEF StartNode, Condition, EnterTool, LeaveTool, EnterProbe, ProbeFails, Policy, ProbeReturns
  <1>2. \/ \E to \in Places : Moves(n, to) /\ (n \in Judgments => to # "working")
        \/ \E error \in Errors \ {"stale", "provider", "retry"} : Raises(n, error)
        \/ \E state \in States : Finishes(n, state)
    <2>1. CASE StartNode(n)
      BY <2>1 DEF StartNode, Begins, Places, Errors
    <2>2. CASE Condition(n)
      BY <2>2 DEF Condition, Begins, Places, Errors, States
    <2>3. CASE n \in Tools /\ EnterTool(n)
      BY <2>3, GraphAssumption DEF EnterTool, Places, Errors
    <2>4. CASE n \in Tools /\ LeaveTool(n)
      BY <2>4 DEF LeaveTool, Errors, States
    <2>5. CASE EnterProbe(n) \/ ProbeFails(n)
      BY <2>5 DEF EnterProbe, ProbeFails, Places, Errors
    <2>6. CASE Policy(n)
      BY <2>6 DEF Policy, Errors, States
    <2>7. CASE ProbeReturns(n)
      BY <2>7 DEF ProbeReturns, Places, Errors
    <2> QED BY <2>1, <2>2, <2>3, <2>4, <2>5, <2>6, <2>7
  <1> QED BY <1>1, <1>2, PlainAccounts

LEMMA InvestigatesPlainly ==
  ASSUME NEW n \in Nodes, NEW records, Investigates(n, records)
  PROVE  \/ Moves(n, "probe_queued")
         \/ \E error \in Errors \ {"stale", "provider", "retry"} : Raises(n, error)
  BY DEF Investigates, Errors

LEMMA EnterJudgmentAccounts ==
  ASSUME IInv, Accounts, NEW n \in Judgments, EnterJudgment(n)
  PROVE  Accounts'
  <1>0. n \in Nodes /\ n \in Workers
    BY DEF Nodes, Workers
  <1>1. /\ phase = "waves" /\ at[n] = "queued" /\ UNCHANGED <<phase, result, wave, reported>>
        /\ raised[n] = "none" /\ n \notin Tools
    BY <1>0, GraphAssumption DEF EnterJudgment, Accounts
  <1>2. CASE Moves(n, "working") /\ dispatched' = dispatched + 1
    <2>1. /\ \A w \in Workers \ {n} : at'[w] = at[w] /\ raised'[w] = raised[w]
          /\ at'[n] = "working" /\ raised'[n] = "none"
      BY <1>0, <1>1, <1>2, NodeTypes DEF Moves
    <2> QED BY <1>0, <1>1, <1>2, <2>1, NodeAccounts
  <1>3. CASE ~ (Moves(n, "working") /\ dispatched' = dispatched + 1)
    <2>1. /\ dispatched' = dispatched
          /\ \/ Raises(n, "failed") \/ Raises(n, "refuted") \/ Raises(n, "budget")
             \/ Investigates(n, count)
      BY <1>3 DEF EnterJudgment
    <2>2. \/ Moves(n, "probe_queued")
          \/ \E error \in Errors \ {"stale", "provider", "retry"} : Raises(n, error)
      BY <1>0, <2>1, InvestigatesPlainly DEF Errors
    <2> QED BY <1>0, <1>1, <2>1, <2>2, PlainAccounts DEF Places, usage
  <1> QED BY <1>2, <1>3

\* The answer is reported unless it is discarded.
LEMMA AnswerAccounts ==
  ASSUME IInv, Accounts, NEW n \in Judgments, Answers(n) \/ ProviderFails(n) \/ RetryRefused(n)
  PROVE  Accounts'
  <1>0. n \in Nodes /\ n \in Workers
    BY DEF Nodes, Workers
  <1>1. /\ phase = "waves" /\ at[n] = "working" /\ UNCHANGED <<phase, result, wave, dispatched>>
        /\ raised[n] = "none" /\ n \notin Tools
    BY <1>0, GraphAssumption DEF Answers, ProviderFails, RetryRefused, Accounts, usage
  <1>2. CASE reported' = reported /\ \E error \in {"stale", "provider", "retry"} : Raises(n, error)
    <2>1. /\ \A w \in Workers \ {n} : at'[w] = at[w] /\ raised'[w] = raised[w]
          /\ at'[n] = "out" /\ raised'[n] \in {"stale", "provider", "retry"}
      BY <1>0, <1>2, NodeTypes DEF Raises
    <2> QED BY <1>0, <1>1, <1>2, <2>1, NodeAccounts
  <1>3. CASE ~ (reported' = reported /\ \E error \in {"stale", "provider", "retry"} : Raises(n, error))
    <2>1. /\ reported' = reported + 1
          /\ \/ Raises(n, "refuted") \/ Decided(n) \/ Investigates(n, count + 1)
      BY <1>3 DEF Answers, ProviderFails, RetryRefused, usage
    <2>2. \/ Moves(n, "probe_queued") \/ Moves(n, "policy") \/ Finishes(n, "completed")
          \/ \E error \in Errors \ {"stale", "provider", "retry"} : Raises(n, error)
      BY <1>0, <2>1, InvestigatesPlainly DEF Decided, Errors
    <2>3. /\ \A w \in Workers \ {n} : at'[w] = at[w] /\ raised'[w] = raised[w]
          /\ at'[n] # "working" /\ raised'[n] \notin {"stale", "provider", "retry"}
          /\ raised'[n] # "none" => at'[n] = "out"
      BY <1>0, <1>1, <2>2, NodeTypes DEF Moves, Raises, Finishes
    <2> QED BY <1>0, <1>1, <2>1, <2>3, NodeAccounts
  <1> QED BY <1>2, <1>3

\* A step that leaves the nodes and the decisions as they are.
LEMMA AwayAccounts ==
  ASSUME IInv, Accounts, UNCHANGED <<dispatched, reported>>,
         \A n \in Nodes : at'[n] = at[n] /\ raised'[n] = raised[n],
         phase' \notin {"cancelling", "ended"} =>
           phase \notin {"cancelling", "ended"} /\ wave \subseteq wave',
         phase' # "cancelling" /\ result' # "cancelled" =>
           /\ phase # "cancelling" /\ result # "cancelled"
           /\ UNCHANGED result \/ (result = "none" /\ Discarded = {})
              \/ (result = "none" /\ result' \notin {"stale", "provider"})
  PROVE  Accounts'
  <1>1. Asked' = Asked /\ Discarded' = Discarded
    BY DEF Asked, Discarded, Nodes
  <1>2. phase' # "cancelling" /\ result' # "cancelled" => Unsettled' = Unsettled
    BY <1>1 DEF Unsettled, Discarded
  <1> QED BY <1>1, <1>2 DEF Accounts, Nodes

LEMMA WorkAccounts ==
  ASSUME IInv, Accounts, NEW w \in Workers, Work(w)
  PROVE  Accounts'
  <1>1. CASE w \in Nodes /\ ~ CancelWorker(w) /\ w \notin Providers
    BY <1>1, GraphAssumption, PlainSteps, EnterJudgmentAccounts, AnswerAccounts DEF Work, Nodes
  <1>2. CASE w \in Providers /\ (EnterRetrieval(w) \/ LeaveRetrieval(w))
    <2>1. /\ \A n \in Nodes : at'[n] = at[n] /\ raised'[n] = raised[n]
          /\ UNCHANGED <<wave, usage>>
      BY <1>2, GraphAssumption
         DEF EnterRetrieval, LeaveRetrieval, Moves, Raises, IInv, TypeOK, Workers
    <2>2. /\ phase # "cancelling"
          /\ \/ UNCHANGED <<phase, result>>
             \/ phase = "retrieving" /\ phase' = "ended" /\ result' \in {"budget", "failed"}
      BY <1>2 DEF EnterRetrieval, LeaveRetrieval, RetrievalFails, Ends
    <2>3. phase = "retrieving" => result = "none"
      BY DEF IInv, Progress
    <2> QED BY <2>1, <2>2, <2>3, AwayAccounts DEF usage
  <1>3. CASE CancelWorker(w)
    <2>1. /\ at' = [at EXCEPT ![w] = "out"] /\ raised' = [raised EXCEPT ![w] = "cancelled"]
          /\ UNCHANGED <<phase, result, wave, usage>>
          /\ phase = "cancelling" \/ (phase = "ended" /\ result = "cancelled")
      BY <1>3 DEF CancelWorker, Raises, IInv, Progress
    <2>2. /\ \A t \in Tools : raised'[t] \notin {"stale", "provider", "retry"}
          /\ \A n \in Nodes : raised'[n] # "none" => at'[n] = "out"
      BY <2>1 DEF Accounts, IInv, TypeOK, Workers, Nodes
    <2> QED BY <2>1, <2>2 DEF Accounts, usage
  <1> QED BY <1>1, <1>2, <1>3, GraphAssumption DEF Work, Workers, Nodes

LEMMA ScheduleAccounts ==
  ASSUME IInv, Accounts, Schedule
  PROVE  Accounts'
  <1>1. CASE Retrieved
    BY <1>1, AwayAccounts DEF Retrieved, workers, usage
  <1>2. CASE StartWave
    <2>1. /\ phase = "waves" /\ wave = {} /\ UNCHANGED <<raised, usage>>
          /\ \/ UNCHANGED <<phase, result>>
                /\ at' = [w \in Workers |-> IF w \in Ready THEN "start" ELSE at[w]]
             \/ phase' = "ended" /\ result' = "no_progress" /\ UNCHANGED at
      BY <1>2 DEF StartWave, Ends
    <2>2. \A n \in Nodes : raised[n] = "none" /\ at[n] \in {"idle", "out"}
      BY <2>1 DEF Accounts, IInv, Waves
    <2>3. result = "none"
      BY <2>1 DEF IInv, Progress
    <2>4. \A n \in Nodes : at'[n] # "working" /\ raised'[n] = "none"
      BY <2>1, <2>2 DEF Workers
    <2>5. Asked = {} /\ Asked' = {} /\ Discarded = {} /\ Discarded' = {}
      BY <2>2, <2>4 DEF Asked, Discarded, Nodes
    <2>6. Unsettled = Cardinality({}) /\ Unsettled' = Cardinality({})
      BY <2>5 DEF Unsettled, Discarded
    <2> QED BY <2>1, <2>3, <2>4, <2>5, <2>6 DEF Accounts, usage, Nodes
  <1>3. CASE EndWave
    <2>1. /\ phase = "waves" /\ wave' = {} /\ result = "none" /\ UNCHANGED <<at, raised, dispatched>>
          /\ \A n \in Nodes : at[n] \in {"idle", "out"}
      BY <1>3 DEF EndWave, IInv, Progress, Waves
    <2>2. Asked = {} /\ Asked' = {} /\ Discarded' = Discarded
      BY <2>1 DEF Asked, Discarded, Nodes
    <2>3. dispatched = reported + Cardinality(Discarded)
      <3>1. Cardinality(Asked) = 0
        BY <2>2, FS_EmptySet
      <3>2. Unsettled = Cardinality(Discarded)
        BY <2>1 DEF Unsettled, Discarded
      <3>3. Cardinality(Discarded) \in Nat /\ reported \in Nat
        BY Finite DEF Discarded, IInv, TypeOK
      <3> QED BY <2>1, <3>1, <3>2, <3>3 DEF Accounts
    <2>4. CASE Failed = {}
      <3>1. UNCHANGED <<phase, result, reported>>
        BY <1>3, <2>4 DEF EndWave
      <3>2. \A n \in Nodes : raised[n] = "none"
        <4> SUFFICES ASSUME NEW n \in Nodes, raised[n] # "none"
                     PROVE  FALSE
          OBVIOUS
        <4>1. n \in wave
          BY <2>1 DEF Accounts
        <4>2. PICK i \in 1..Len(Order) : Order[i] = n
          BY GraphAssumption
        <4> QED BY <2>4, <4>1, <4>2 DEF Failed
      <3>3. Unsettled' = Unsettled
        BY <2>2, <3>1 DEF Unsettled, Discarded
      <3> QED BY <2>1, <2>2, <3>1, <3>2, <3>3 DEF Accounts
    <2>5. CASE Failed # {}
      <3>1. /\ phase' = "ended" /\ result' = Outcome(raised[FirstFailed])
            /\ reported' = IF Settles THEN reported + 1 ELSE reported
        BY <1>3, <2>5 DEF EndWave, Ends
      <3>2. FirstFailed \in Nodes
        BY <2>5, FirstFailedFails
      <3>3. Cardinality(Discarded) \in Nat /\ reported \in Nat
        BY Finite DEF Discarded, IInv, TypeOK
      <3>4. Cardinality(Asked') = 0
        BY <2>2, FS_EmptySet
      <3>5. CASE Settles
        <4>1. FirstFailed \in Discarded /\ result' \in {"stale", "provider"}
          BY <3>1, <3>2, <3>5 DEF Settles, Outcome, Discarded, Accounts, Nodes
        <4>2. Unsettled' = Cardinality(Discarded) - 1
          BY <2>2, <4>1 DEF Unsettled, Discarded
        <4>3. Cardinality(Discarded) >= 1
          <5>1. Cardinality(Discarded \ {FirstFailed}) = Cardinality(Discarded) - 1
                /\ Cardinality(Discarded \ {FirstFailed}) \in Nat
            BY <4>1, CountChanges, Finite DEF Discarded
          <5> QED BY <3>3, <5>1
        <4>4. reported' <= dispatched' /\ dispatched' = reported' + Cardinality(Asked') + Unsettled'
          BY <2>1, <2>3, <3>1, <3>3, <3>4, <3>5, <4>2, <4>3
        <4> QED BY <2>1, <3>1, <4>4 DEF Accounts
      <3>6. CASE ~ Settles
        <4>1. result' \notin {"stale", "provider"}
          BY <3>1, <3>6 DEF Settles, Outcome
        <4>2. Unsettled' = Cardinality(Discarded)
          BY <2>2, <4>1 DEF Unsettled, Discarded
        <4>3. reported' <= dispatched' /\ dispatched' = reported' + Cardinality(Asked') + Unsettled'
          BY <2>1, <2>3, <3>1, <3>3, <3>4, <3>6, <4>2
        <4> QED BY <2>1, <3>1, <4>3 DEF Accounts
      <3> QED BY <3>5, <3>6
    <2> QED BY <2>4, <2>5
  <1>4. CASE BeginCheck \/ CheckReturns \/ CheckRaises
    <2>1. /\ phase \in {"waves", "checking"} /\ wave = {} /\ result = "none"
          /\ UNCHANGED <<workers, wave, usage>> /\ phase' \in {"checking", "ended"}
      BY <1>4 DEF BeginCheck, CheckReturns, CheckRaises, Ends, IInv, Waves, Progress
    <2>2. \A n \in Nodes : raised[n] = "none"
      BY <2>1 DEF Accounts
    <2>3. Discarded = {}
      BY <2>2 DEF Discarded, Nodes
    <2> QED BY <2>1, <2>3, AwayAccounts DEF workers, usage
  <1>5. CASE Cancelled
    BY <1>5, AwayAccounts DEF Cancelled, Ends, workers, usage
  <1> QED BY <1>1, <1>2, <1>3, <1>4, <1>5 DEF Schedule

LEMMA OtherAccounts ==
  ASSUME IInv, Accounts, Cancel \/ Finished \/ UNCHANGED vars \/ \E x \in Records : Invalidate(x)
  PROVE  Accounts'
  BY AwayAccounts DEF Cancel, Finished, Invalidate, vars, workers, usage

LEMMA AccountsStart == Init => Accounts
  <1> SUFFICES ASSUME Init
               PROVE  Accounts
    OBVIOUS
  <1>1. Asked = {} /\ Discarded = {}
    BY GraphAssumption DEF Init, Asked, Discarded, Workers, Nodes
  <1>2. Unsettled = 0 /\ Cardinality(Asked) = 0
    BY <1>1, FS_EmptySet DEF Init, Unsettled, Discarded
  <1> QED BY <1>2 DEF Init, Accounts, Workers, Nodes

\* For any graph, limits and host, the usage of every decision sent to the provider
\* is in the result of the run, but for what other nodes of its last wave discarded
\* and for the attempts of a decision whose retry was refused.
THEOREM UsageIsAccounted == Spec => []UsageAccounted
  <1>1. Accounts /\ IInv /\ [Next]_vars => Accounts'
    BY WorkAccounts, ScheduleAccounts, OtherAccounts DEF Next
  <1>2. ASSUME IInv, Accounts
        PROVE  UsageAccounted
    <2>1. ASSUME phase = "ended", result # "cancelled"
          PROVE  reported + Unsettled = dispatched
      <3>1. Asked = {}
        BY <1>2, <2>1 DEF IInv, Waves, Asked, Nodes
      <3>2. dispatched = reported + 0 + Unsettled
        BY <1>2, <2>1, <3>1, FS_EmptySet DEF Accounts
      <3>3. reported \in Nat /\ Unsettled \in Int
        BY <1>2, Finite DEF IInv, TypeOK, Unsettled
      <3> QED BY <3>2, <3>3
    <2> QED BY <1>2, <2>1 DEF Accounts, UsageAccounted
  <1> QED BY <1>1, <1>2, Invariant, AccountsStart, PTL DEF Spec

-----------------------------------------------------------------------------
(* Progress, as far as it can be stated of steps. *)

\* The awaits of a worker in their order: an investigation comes before the
\* decision it is made for.
Stage ==
  [idle |-> 0, start |-> 1, condition |-> 2, probe_queued |-> 3, probing |-> 4,
   queued |-> 5, working |-> 6, policy |-> 7, out |-> 8]

Phase == [retrieving |-> 0, waves |-> 1, checking |-> 2, cancelling |-> 3, ended |-> 4]

\* An investigation is begun: a new one, within the limit.
BeginsInvestigation ==
  /\ Cardinality(probes) < InvestigationSteps
  /\ \E f : f \notin probes /\ probes' = probes \cup {f}

\* Worker w comes to a later await, or decides again after a new investigation.
GetsOn(w) ==
  \/ Stage[at'[w]] > Stage[at[w]]
  \/ at'[w] = "probe_queued" /\ BeginsInvestigation

\* The run comes to a later phase, takes up more nodes, or ends a wave.
RunGetsOn ==
  \/ Phase[phase'] > Phase[phase]
  \/ phase' = phase /\ Pending' \subseteq Pending /\ Pending' # Pending
  \/ phase' = phase /\ Pending' = Pending /\ wave # {} /\ wave' = {}

\* Whoever makes a step gets on by it, and nobody is set back by the steps of others.
Advances ==
  /\ \A w \in Workers : Work(w) => GetsOn(w)
  /\ Schedule \/ Cancel => RunGetsOn
  /\ \A w \in Workers : GetsOn(w) \/ at'[w] = at[w]
  /\ RunGetsOn \/ (phase' = phase /\ Pending' = Pending /\ wave' = wave)
  /\ probes \subseteq probes'

\* A node that no wave took up has not begun.
Untouched ==
  /\ \A n \in Nodes : status[n] = "pending" => at[n] = "idle"
  /\ IsFiniteSet(probes)

\* What every step of worker w has in common.
WorkerStep(w) ==
  /\ GetsOn(w)
  /\ at[w] # "idle" /\ \A v \in Workers \ {w} : at'[v] = at[v]
  /\ \A n \in Nodes : status'[n] = "pending" <=> status[n] = "pending"
  /\ wave' = wave /\ (phase' = phase \/ Phase[phase'] > Phase[phase])
  /\ probes' = probes \/ \E f : probes' = probes \cup {f}

\* A worker that leaves its await for a later one.
LEMMA LaterAwait ==
  ASSUME IInv, Untouched, NEW w \in Workers, at[w] # "idle",
         \/ \E to \in Places : Stage[to] > Stage[at[w]] /\ Moves(w, to)
         \/ at[w] # "out" /\ \E error : Raises(w, error)
         \/ at[w] # "out" /\ w \in Nodes /\ \E state \in States \ {"pending"} : Finishes(w, state)
  PROVE  /\ GetsOn(w)
         /\ \A v \in Workers \ {w} : at'[v] = at[v]
         /\ \A n \in Nodes : status'[n] = "pending" <=> status[n] = "pending"
  <1>0. at \in [Workers -> Places] /\ status \in [Nodes -> States]
    BY DEF IInv, TypeOK, Places, States
  <1>1. CASE \E to \in Places : Stage[to] > Stage[at[w]] /\ Moves(w, to)
    BY <1>0, <1>1 DEF Moves, GetsOn, Stage, Places
  <1>2. CASE at[w] # "out" /\ \E error : Raises(w, error)
    BY <1>0, <1>2 DEF Raises, GetsOn, Stage, Places
  <1>3. CASE /\ at[w] # "out" /\ w \in Nodes
             /\ \E state \in States \ {"pending"} : Finishes(w, state)
    BY <1>0, <1>3 DEF Finishes, GetsOn, Stage, Places, Untouched
  <1> QED BY <1>1, <1>2, <1>3

\* A retrieval that fails ends the run, if it still waits for it.
LEMMA RetrievalsGetOn ==
  ASSUME IInv, Untouched, NEW p \in Providers, EnterRetrieval(p) \/ LeaveRetrieval(p)
  PROVE  WorkerStep(p)
  <1>1. p \in Workers /\ at[p] \in {"queued", "working"}
    BY DEF Workers, EnterRetrieval, LeaveRetrieval
  <1>2. \/ \E to \in Places : Stage[to] > Stage[at[p]] /\ Moves(p, to)
        \/ at[p] # "out" /\ \E error : Raises(p, error)
    BY DEF EnterRetrieval, LeaveRetrieval, Places, Stage
  <1>3. phase' = phase \/ Phase[phase'] > Phase[phase]
    BY DEF EnterRetrieval, LeaveRetrieval, RetrievalFails, Ends, Phase
  <1>4. wave' = wave /\ probes' = probes
    BY DEF EnterRetrieval, LeaveRetrieval
  <1> QED BY <1>1, <1>2, <1>3, <1>4, LaterAwait DEF WorkerStep

\* Nodes that begin, wait, call and return, ...
LEMMA NodesGetOn ==
  ASSUME IInv, Untouched, NEW n \in Nodes,
         \/ StartNode(n)
         \/ n \in Tools /\ (EnterTool(n) \/ LeaveTool(n))
         \/ n \in Judgments /\ (\/ Condition(n) \/ ProviderFails(n) \/ RetryRefused(n)
                                \/ EnterProbe(n) \/ ProbeFails(n) \/ Policy(n))
  PROVE  WorkerStep(n)
  <1>1. n \in Workers /\ at[n] # "idle" /\ at[n] # "out"
    BY DEF Workers, StartNode, EnterTool, LeaveTool, Condition, ProviderFails, RetryRefused,
           EnterProbe, ProbeFails, Policy
  <1>2. \/ \E to \in Places : Stage[to] > Stage[at[n]] /\ Moves(n, to)
        \/ \E error : Raises(n, error)
        \/ \E state \in States \ {"pending"} : Finishes(n, state)
    BY DEF StartNode, EnterTool, LeaveTool, Condition, ProviderFails, RetryRefused,
           EnterProbe, ProbeFails, Policy, Begins, Places, Stage, States
  <1>3. phase' = phase /\ wave' = wave /\ probes' = probes
    BY DEF StartNode, EnterTool, LeaveTool, Condition, ProviderFails, RetryRefused,
           EnterProbe, ProbeFails, Policy, usage
  <1> QED BY <1>1, <1>2, <1>3, LaterAwait DEF WorkerStep

\* ... judgments that investigate, once for each fingerprint and within the limit, ...
LEMMA InvestigatorsGetOn ==
  ASSUME IInv, Untouched, NEW n \in Nodes, at[n] # "idle", at[n] # "out", NEW k,
         Investigates(n, k), phase' = phase, wave' = wave
  PROVE  WorkerStep(n)
  <1>1. n \in Workers
    BY DEF Workers
  <1>2. probes' = probes \/ \E f : probes' = probes \cup {f}
    BY DEF Investigates
  <1>3. CASE \E error : Raises(n, error)
    BY <1>1, <1>2, <1>3, LaterAwait DEF WorkerStep
  <1>4. CASE ~ \E error : Raises(n, error)
    <2>1. /\ Moves(n, "probe_queued") /\ ~ Cardinality(probes) >= InvestigationSteps
          /\ Fingerprint(n, k) \notin probes /\ probes' = probes \cup {Fingerprint(n, k)}
      BY <1>4 DEF Investigates
    <2>2. Cardinality(probes) \in Nat /\ InvestigationSteps \in Nat
      BY LimitsAssumption, FS_CardinalityType DEF Untouched
    <2>3. BeginsInvestigation
      BY <2>1, <2>2 DEF BeginsInvestigation
    <2>4. at'[n] = "probe_queued" /\ \A v \in Workers \ {n} : at'[v] = at[v]
      BY <1>1, <2>1 DEF Moves, IInv, TypeOK
    <2>5. status' = status
      BY <2>1 DEF Moves
    <2> QED BY <1>2, <2>3, <2>4, <2>5 DEF WorkerStep, GetsOn
  <1> QED BY <1>3, <1>4

\* ... and the judgments that decide.
LEMMA DecidersGetOn ==
  ASSUME IInv, Untouched, NEW j \in Judgments,
         EnterJudgment(j) \/ Answers(j) \/ (j \in Choosers /\ ProbeReturns(j))
  PROVE  WorkerStep(j)
  <1>1. j \in Nodes /\ j \in Workers /\ at[j] # "idle" /\ at[j] # "out"
    BY DEF Nodes, Workers, EnterJudgment, Answers, ProbeReturns
  <1>2. phase' = phase /\ wave' = wave
    BY DEF EnterJudgment, Answers, ProbeReturns
  <1>3. CASE \E k : Investigates(j, k)
    BY <1>1, <1>2, <1>3, InvestigatorsGetOn
  <1>4. CASE ~ \E k : Investigates(j, k)
    <2>1. /\ \/ \E to \in Places : Stage[to] > Stage[at[j]] /\ Moves(j, to)
             \/ \E error : Raises(j, error)
             \/ \E state \in States \ {"pending"} : Finishes(j, state)
          /\ probes' = probes
      BY <1>4 DEF EnterJudgment, Answers, ProbeReturns, Decided, Places, Stage, States
    <2> QED BY <1>1, <1>2, <2>1, LaterAwait DEF WorkerStep
  <1> QED BY <1>3, <1>4

\* So every step of a worker gets it on, ...
LEMMA WorkGetsOn ==
  ASSUME IInv, Untouched, NEW w \in Workers, Work(w)
  PROVE  WorkerStep(w)
  <1>1. CASE CancelWorker(w)
    <2>1. /\ at[w] \notin {"idle", "out"} /\ Raises(w, "cancelled")
          /\ phase' = phase /\ wave' = wave /\ probes' = probes
      BY <1>1 DEF CancelWorker
    <2> QED BY <2>1, LaterAwait DEF WorkerStep
  <1>2. CASE ~ CancelWorker(w)
    <2>1. Choosers \subseteq Judgments /\ Tools \subseteq Nodes /\ Judgments \subseteq Nodes
      BY GraphAssumption DEF Nodes
    <2> QED BY <1>2, <2>1, RetrievalsGetOn, NodesGetOn, DecidersGetOn DEF Work
  <1> QED BY <1>1, <1>2

\* The scheduler comes to a later phase, takes up nodes or ends a wave; it sets no
\* worker back, since the nodes it takes up have not begun.
LEMMA ScheduleGetsOn ==
  ASSUME IInv, Untouched, Schedule \/ Cancel
  PROVE  /\ RunGetsOn /\ probes' = probes
         /\ \A w \in Workers : GetsOn(w) \/ at'[w] = at[w]
         /\ \A n \in Nodes : status'[n] = "pending" => status[n] = "pending" /\ at'[n] = at[n]
  <1>0. at \in [Workers -> Places] /\ status \in [Nodes -> States] /\ Nodes \subseteq Workers
    BY DEF IInv, TypeOK, Places, States, Workers
  <1>1. CASE StartWave
    <2>1. /\ status' = [n \in Nodes |-> IF n \in SkipsNow THEN "skipped"
                                        ELSE IF n \in Ready THEN "running" ELSE status[n]]
          /\ phase = "waves" /\ wave = {} /\ Pending # {} /\ probes' = probes
          /\ Ready \subseteq Pending /\ SkipsNow \subseteq Pending
      BY <1>1 DEF StartWave, Ready, SkipsNow
    <2>2. /\ Pending' = Pending \ (SkipsNow \cup Ready)
          /\ \A n \in Nodes : status'[n] = "pending" =>
               status[n] = "pending" /\ n \notin Ready
      BY <2>1 DEF Pending
    <2>3. CASE Ready # {}
      <3>1. phase' = phase /\ at' = [w \in Workers |-> IF w \in Ready THEN "start" ELSE at[w]]
        BY <1>1, <2>3 DEF StartWave
      <3>2. \A w \in Ready : w \in Workers /\ at[w] = "idle"
        BY <1>0, <2>1 DEF Pending, Untouched
      <3>3. \A w \in Workers : GetsOn(w) \/ at'[w] = at[w]
        BY <3>1, <3>2 DEF GetsOn, Stage
      <3>4. RunGetsOn
        BY <2>1, <2>2, <2>3, <3>1 DEF RunGetsOn
      <3> QED BY <1>0, <2>1, <2>2, <3>1, <3>3, <3>4
    <2>4. CASE Ready = {}
      <3>1. phase' = "ended" /\ at' = at
        BY <1>1, <2>4 DEF StartWave, Ends
      <3> QED BY <2>1, <2>2, <3>1 DEF RunGetsOn, Phase
    <2> QED BY <2>3, <2>4
  <1>2. CASE EndWave
    <2>1. phase = "waves" /\ wave # {} /\ wave' = {} /\ at' = at /\ probes' = probes
      BY <1>2 DEF EndWave
    <2>2. \/ phase' = phase /\ status' = status
          \/ phase' = "ended" /\ status' = [status EXCEPT ![FirstFailed] = "failed"]
      BY <1>2 DEF EndWave, Ends
    <2>3. RunGetsOn
      BY <2>1, <2>2 DEF RunGetsOn, Phase, Pending
    <2>4. \A n \in Nodes : status'[n] = "pending" => status[n] = "pending"
      BY <1>0, <2>2
    <2> QED BY <2>1, <2>3, <2>4
  <1>3. CASE Retrieved \/ BeginCheck \/ CheckReturns \/ CheckRaises \/ Cancelled \/ Cancel
    <2>1. at' = at /\ status' = status /\ probes' = probes
      BY <1>3 DEF Retrieved, BeginCheck, CheckReturns, CheckRaises, Cancelled, Cancel, workers
    <2>2. Phase[phase'] > Phase[phase]
      BY <1>3 DEF Retrieved, BeginCheck, CheckReturns, CheckRaises, Cancelled, Cancel, Ends, Phase
    <2> QED BY <2>1, <2>2 DEF RunGetsOn
  <1> QED BY <1>1, <1>2, <1>3 DEF Schedule

\* ... and every step of the run gets someone on and sets nobody back.
LEMMA EveryStepAdvances ==
  ASSUME IInv, Untouched, [Next]_vars
  PROVE  Advances /\ Untouched'
  <1>0. Nodes \subseteq Workers
    BY DEF Workers
  <1>1. ASSUME NEW w \in Workers, WorkerStep(w)
        PROVE  /\ \A v \in Workers : GetsOn(v) \/ at'[v] = at[v]
               /\ RunGetsOn \/ (phase' = phase /\ Pending' = Pending /\ wave' = wave)
               /\ probes \subseteq probes'
               /\ Untouched'
    <2>1. Pending' = Pending
      BY <1>1 DEF WorkerStep, Pending
    <2>2. IsFiniteSet(probes')
      BY <1>1, FS_AddElement DEF WorkerStep, Untouched
    <2>3. \A n \in Nodes : status'[n] = "pending" => at'[n] = "idle"
      <3>1. ASSUME NEW n \in Nodes, status'[n] = "pending" PROVE at'[n] = "idle"
        <4>1. status[n] = "pending" /\ at[n] = "idle" /\ n \in Workers
          BY <1>0, <1>1, <3>1 DEF WorkerStep, Untouched
        <4>2. n # w
          BY <4>1, <1>1 DEF WorkerStep
        <4> QED BY <4>1, <4>2, <1>1 DEF WorkerStep
      <3> QED BY <3>1
    <2> QED BY <1>1, <2>1, <2>2, <2>3 DEF WorkerStep, RunGetsOn, Untouched
  <1>2. \A w \in Workers : Work(w) => GetsOn(w)
    BY WorkGetsOn DEF WorkerStep
  <1>3. Schedule \/ Cancel => RunGetsOn
    BY ScheduleGetsOn
  <1>4. CASE \E w \in Workers : Work(w)
    BY <1>1, <1>2, <1>3, <1>4, WorkGetsOn DEF Advances
  <1>5. CASE Schedule \/ Cancel
    <2>1. Untouched'
      BY <1>5, ScheduleGetsOn DEF Untouched
    <2> QED BY <1>2, <1>3, <1>5, <2>1, ScheduleGetsOn DEF Advances
  <1>6. CASE (\E x \in Records : Invalidate(x)) \/ Finished \/ UNCHANGED vars
    <2>1. UNCHANGED <<phase, status, at, wave, probes>>
      BY <1>6 DEF Invalidate, Finished, vars, workers
    <2> QED BY <1>2, <1>3, <2>1 DEF Advances, Untouched, Pending
  <1> QED BY <1>4, <1>5, <1>6 DEF Next

\* Whatever is answered, refused, invalidated or cancelled, each step of a worker
\* brings it to a later await, or back to its decision after a new investigation,
\* of which there are only so many; each step of the scheduler brings the run to a
\* later phase, takes up nodes no wave had or ends a wave; and no step undoes what
\* another brought (the wave loop of Runtime.run and _investigate).
THEOREM RunGoesForward == Spec => []IsFiniteSet(probes) /\ [][Advances]_vars
  <1>1. Init => Untouched
    BY FS_EmptySet, GraphAssumption DEF Init, Untouched, Workers, Nodes
  <1>2. IInv /\ Untouched /\ [Next]_vars => Untouched' /\ [Advances]_vars
    BY EveryStepAdvances
  <1>3. Untouched => IsFiniteSet(probes)
    BY DEF Untouched
  <1> QED BY <1>1, <1>2, <1>3, Invariant, PTL DEF Spec
=============================================================================
