-------------------------- MODULE PlannerLoopProofs --------------------------
(***************************************************************************)
(* What the planner loop (PlannerLoop) keeps for any plans, limits and     *)
(* users of the ledger: its types, that every revision is of a new plan,   *)
(* that every call of the planner is measured once, that a step starts     *)
(* only when it may, that it uses the ledger as UsageLedger specifies, and *)
(* that every step of it gets on.                                          *)
(***************************************************************************)
EXTENDS PlannerLoop, FiniteSetTheorems, FunctionTheorems, SequenceTheorems,
        WellFoundedInduction, TLAPS

Limit(class) == IF class = "planner" THEN PlannerCalls ELSE PlanRevisions
RunCall(n) == <<"run", n>>
Looked == {"observed", "unknown"}
Numbers == 1..(PlannerCalls + PlanRevisions + MaxOthers + 1)

\* The limits of the shared ledger, for both classes of call.
Counted ==
  \A class \in {"planner", "revision"} :
    IsFiniteSet(calls[class]) /\ Cardinality(calls[class]) <= Limit(class)

\* The calls of this run in the ledger: those of the turns it had, and the one
\* that is under way or was left by an error.
TurnsAdmitted ==
  /\ \A n \in 1..turns : RunCall(n) \in calls["planner"]
  /\ pc \in {"project", "planning"} => RunCall(turns + 1) \in calls["planner"]
  /\ \A n \in Numbers : RunCall(n) \in calls["planner"] =>
       \/ n \in 1..turns
       \/ /\ n = turns + 1
          /\ pc \in {"project", "planning"} \/ (pc = "ended" /\ result \in {"error", "cancelled", "planner_budget"})

RevisionsAdmitted ==
  \A n \in 1..revision :
    RunCall(n) \in calls["revision"] \/ (n = revision /\ pc \in {"revising", "ended"})

\* Exactly the turns the run had are measured.
Measured ==
  \A n \in Numbers :
    IF n <= turns
    THEN \E kind \in Looked : \A other \in Looked :
           measured[<<RunCall(n), other>>] # "nothing" <=> other = kind
    ELSE \A kind \in Looked : measured[<<RunCall(n), kind>>] = "nothing"

\* Each revision followed a turn of its own and failed at most once.
Progressed ==
  /\ IsFiniteSet(seen)
  /\ EveryRevisionIsNew
  /\ pc = "respond" => revision < turns
  /\ failures <= revision
  /\ pc \in {"revising", "stepping", "running"} => failures < revision

IInv == TypeOK /\ Counted /\ TurnsAdmitted /\ RevisionsAdmitted /\ Measured /\ Progressed

\* As many calls of this run as numbers.
LEMMA RunCalls ==
  ASSUME NEW S, IsFiniteSet(S), NEW k \in Nat, \A n \in 1..k : RunCall(n) \in S
  PROVE  k <= Cardinality(S)
  <1> DEFINE T == {RunCall(n) : n \in 1..k}
             f == [n \in 1..k |-> RunCall(n)]
  <1>1. f \in Bijection(1..k, T)
    BY DEF Bijection, Injection, IsInjective, Surjection, RunCall
  <1>2. ExistsBijection(1..k, T)
    BY <1>1, Fun_ExistsBij
  <1>3. IsFiniteSet(1..k) /\ Cardinality(1..k) = k
    BY FS_Interval
  <1>4. Cardinality(T) = k
    BY <1>2, <1>3, FS_Bijection
  <1>5. T \subseteq S
    OBVIOUS
  <1> QED BY <1>4, <1>5, FS_Subset

\* The ledger counts as this module does.
LEMMA SameCount == \A S : Ledger!Cardinality(S) = Cardinality(S)
  BY Zenon DEF Ledger!Cardinality, Cardinality

\* What an admission leaves of the ledger.
LEMMA NamedAdmission ==
  ASSUME Ledger!TypeOK, Counted, NEW class \in {"planner", "revision"}, NEW id \in CallIds,
         Ledger!AdmitNamed(class, id, Deadline)
  PROVE  /\ Ledger!TypeOK' /\ Counted' /\ measured' = measured
         /\ calls'[class] = IF reply' = "ok" THEN calls[class] \cup {id} ELSE calls[class]
         /\ \A other \in {"planner", "revision"} \ {class} : calls'[other] = calls[other]
  <1>1. /\ reply' = Ledger!CallReply(class, id, Deadline)
        /\ calls' = [calls EXCEPT ![class] = IF reply' = "ok" THEN @ \cup {id} ELSE @]
        /\ UNCHANGED <<active, operations, attempts, children, measured, now>>
    BY DEF Ledger!AdmitNamed
  <1>2. calls \in [{"planner", "revision"} -> SUBSET CallIds]
    BY DEF Ledger!TypeOK
  <1>3. /\ calls'[class] = IF reply' = "ok" THEN calls[class] \cup {id} ELSE calls[class]
        /\ \A other \in {"planner", "revision"} \ {class} : calls'[other] = calls[other]
        /\ calls' \in [{"planner", "revision"} -> SUBSET CallIds]
    BY <1>1, <1>2
  <1>4. reply' \in Ledger!Replies
    BY <1>1 DEF Ledger!CallReply, Ledger!Replies
  <1>5. Ledger!TypeOK'
    BY <1>1, <1>3, <1>4 DEF Ledger!TypeOK
  <1>6. IsFiniteSet(calls'[class]) /\ Cardinality(calls'[class]) <= Limit(class)
    <2>1. CASE reply' # "ok" \/ id \in calls[class]
      <3>1. calls'[class] = calls[class]
        BY <2>1, <1>3
      <3> QED BY <3>1 DEF Counted
    <2>2. CASE reply' = "ok" /\ id \notin calls[class]
      <3>1. ~ Cardinality(calls[class]) >= Limit(class)
        BY <2>2, <1>1, SameCount DEF Ledger!CallReply, Limit
      <3>2. IsFiniteSet(calls[class]) /\ Cardinality(calls[class]) \in Nat
        BY FS_CardinalityType DEF Counted
      <3>3. /\ IsFiniteSet(calls[class] \cup {id})
            /\ Cardinality(calls[class] \cup {id}) = Cardinality(calls[class]) + 1
        BY <2>2, <3>2, FS_AddElement
      <3>4. Limit(class) \in Nat
        BY PlannerLimitsAssumption DEF Limit
      <3> QED BY <1>3, <2>2, <3>1, <3>2, <3>3, <3>4
    <2> QED BY <2>1, <2>2
  <1>7. Counted'
    <2> SUFFICES ASSUME NEW one \in {"planner", "revision"}
                 PROVE  IsFiniteSet(calls'[one]) /\ Cardinality(calls'[one]) <= Limit(one)
      BY DEF Counted, Limit
    <2>1. CASE one = class
      BY <2>1, <1>6
    <2>2. CASE one # class
      <3>1. calls'[one] = calls[one]
        BY <2>2, <1>3
      <3> QED BY <3>1 DEF Counted
    <2> QED BY <2>1, <2>2
  <1> QED BY <1>1, <1>3, <1>5, <1>7

\* A call of this run admitted for every number up to k keeps k within the limit.
LEMMA WithinLimit ==
  ASSUME Counted, NEW class \in {"planner", "revision"}, NEW k \in Nat,
         \A n \in 1..k : RunCall(n) \in calls[class]
  PROVE  k <= Limit(class)
  <1>1. IsFiniteSet(calls[class]) /\ Cardinality(calls[class]) <= Limit(class)
    BY DEF Counted
  <1>2. k <= Cardinality(calls[class]) /\ Cardinality(calls[class]) \in Nat
    BY <1>1, RunCalls, FS_CardinalityType
  <1>3. Limit(class) \in Nat
    BY PlannerLimitsAssumption DEF Limit
  <1> QED BY <1>1, <1>2, <1>3

-----------------------------------------------------------------------------
(* Steps that only move the run. *)

\* What the run counts stays, unless a revision fails.
LEMMA Moves ==
  ASSUME IInv, UNCHANGED <<calls, measured, turns, revision, seen>>,
         \/ UNCHANGED failures
         \/ /\ failures' = failures + 1 /\ pc \in {"revising", "stepping", "running"}
            /\ pc' \notin {"revising", "stepping", "running"},
         pc \in {"project", "planning"} =>
           \/ pc' \in {"project", "planning"}
           \/ pc' = "ended" /\ result' \in {"error", "cancelled", "planner_budget"},
         pc = "ended" => pc' = "ended" /\ result' = result,
         pc' \in {"project", "planning"} => pc \in {"project", "planning"},
         pc = "revising" => pc' \in {"revising", "ended"},
         pc' = "respond" => pc = "respond",
         pc' \in {"revising", "stepping", "running"} =>
           pc \in {"revising", "stepping", "running"}
  PROVE  Counted' /\ TurnsAdmitted' /\ RevisionsAdmitted' /\ Measured' /\ Progressed'
  <1>1. Counted'
    BY DEF IInv, Counted, Limit
  <1>2. TurnsAdmitted'
    BY DEF IInv, TurnsAdmitted, RunCall, Numbers
  <1>3. RevisionsAdmitted'
    BY DEF IInv, RevisionsAdmitted, RunCall
  <1>4. Measured'
    BY DEF IInv, Measured, RunCall, Looked, Numbers
  <1>5. Progressed'
    <2>1. failures \in Nat /\ revision \in Nat /\ turns \in Nat
      BY PlannerLimitsAssumption DEF IInv, TypeOK
    <2>2. IsFiniteSet(seen') /\ EveryRevisionIsNew'
      BY DEF IInv, Progressed, EveryRevisionIsNew
    <2>3. pc' = "respond" => revision' < turns'
      BY DEF IInv, Progressed
    <2>4. failures' <= revision'
      BY <2>1 DEF IInv, Progressed
    <2>5. pc' \in {"revising", "stepping", "running"} => failures' < revision'
      BY <2>1 DEF IInv, Progressed
    <2> QED BY <2>2, <2>3, <2>4, <2>5 DEF Progressed
  <1> QED BY <1>1, <1>2, <1>3, <1>4, <1>5

LEMMA QuietSteps ==
  ASSUME IInv,
         \/ Project \/ CallbackRaises \/ PlannerRefuses \/ StepRaises \/ ProposeResult \/ ResultValidated \/ AskOrHandOff
         \/ RevisionDone \/ StartStep \/ StepCompletes \/ StepStops \/ Cancel
  PROVE  IInv'
  <1>1. /\ UNCHANGED ledger /\ UNCHANGED <<turns, revision, seen, plan, stale, changes>>
        /\ position' = position \/ position' = position + 1
        /\ refs \subseteq refs'
        /\ pc' \in {"planning", "validating", "admit", "running", "stepping", "ended"}
        /\ result' \in Results
    BY DEF IInv, TypeOK, Results, Project, CallbackRaises, PlannerRefuses, StepRaises, ProposeResult, ResultValidated,
           AskOrHandOff, RevisionDone, StartStep, StepCompletes, StepStops, Cancel, Goes, Ends,
           execution
  <1>2. Counted' /\ TurnsAdmitted' /\ RevisionsAdmitted' /\ Measured' /\ Progressed'
    BY <1>1, Moves
       DEF Project, CallbackRaises, PlannerRefuses, StepRaises, ProposeResult, ResultValidated, AskOrHandOff, RevisionDone,
           StartStep, StepCompletes, StepStops, Cancel, Goes, Ends, execution, ledger
  <1>3. Ledger!TypeOK'
    BY <1>1 DEF IInv, TypeOK, ledger, Ledger!TypeOK
  <1>4. failures' \in 0..turns'
    <2>1. failures' \in Nat /\ revision' \in Nat /\ turns' \in Nat
      BY <1>1, PlannerLimitsAssumption
         DEF IInv, TypeOK, Project, CallbackRaises, PlannerRefuses, StepRaises, ProposeResult, ResultValidated, AskOrHandOff,
             RevisionDone, StartStep, StepCompletes, StepStops, Cancel, execution
    <2> QED BY <2>1, <1>2 DEF Progressed, EveryRevisionIsNew
  <1>5. TypeOK'
    BY <1>1, <1>3, <1>4 DEF IInv, TypeOK, Results
  <1> QED BY <1>2, <1>5 DEF IInv

-----------------------------------------------------------------------------
(* Steps of the host, of other users of the ledger, and of the clock. *)

LEMMA HostSteps ==
  ASSUME IInv, Finished \/ Tick \/ \E x \in Sources \cup refs : Invalidate(x)
  PROVE  IInv'
  <1>1. /\ UNCHANGED <<active, operations, attempts, calls, children, measured, reply>>
        /\ now' \in 0..MaxTime
    BY PlannerLimitsAssumption
       DEF IInv, TypeOK, Ledger!TypeOK, Finished, Tick, Ledger!Tick, Invalidate, vars, ledger
  <1>2. /\ UNCHANGED <<pc, turns, revision, seen, plan, position, refs, failures, result>>
        /\ stale' \subseteq Sources \cup refs'
        /\ changes' \in 0..MaxInvalidations
    BY PlannerLimitsAssumption
       DEF IInv, TypeOK, Finished, Tick, Invalidate, vars, execution
  <1>3. Counted' /\ TurnsAdmitted' /\ RevisionsAdmitted' /\ Measured' /\ Progressed'
    BY <1>1, <1>2, Moves
  <1>4. Ledger!TypeOK'
    BY <1>1 DEF IInv, TypeOK, Ledger!TypeOK
  <1>5. TypeOK'
    BY <1>2, <1>4 DEF IInv, TypeOK, Results
  <1> QED BY <1>3, <1>5 DEF IInv

LEMMA OtherSteps ==
  ASSUME IInv, NEW class \in {"planner", "revision"}, NEW n \in 1..MaxOthers,
         OtherAdmits(class, n)
  PROVE  IInv'
  <1>1. <<"other", n>> \in CallIds
    BY PlannerLimitsAssumption DEF CallIds
  <1>2. /\ Ledger!TypeOK' /\ Counted' /\ measured' = measured
        /\ \A other \in {"planner", "revision"} :
             calls[other] \subseteq calls'[other] /\ calls'[other] \subseteq calls[other] \cup {<<"other", n>>}
    BY <1>1, NamedAdmission DEF IInv, TypeOK, OtherAdmits
  <1>3. UNCHANGED <<pc, turns, revision, seen, plan, position, refs, failures, stale, result, changes>>
    BY DEF OtherAdmits, execution
  <1>4. \A m : /\ RunCall(m) \in calls'["planner"] <=> RunCall(m) \in calls["planner"]
               /\ RunCall(m) \in calls'["revision"] <=> RunCall(m) \in calls["revision"]
    BY <1>2 DEF RunCall
  <1>5. TypeOK'
    BY <1>2, <1>3 DEF IInv, TypeOK, Results
  <1>6. TurnsAdmitted'
    BY <1>3, <1>4 DEF IInv, TurnsAdmitted, RunCall, Numbers
  <1>7. RevisionsAdmitted'
    BY <1>3, <1>4 DEF IInv, RevisionsAdmitted, RunCall
  <1>8. Measured'
    BY <1>2, <1>3 DEF IInv, Measured, RunCall, Looked, Numbers
  <1>9. Progressed'
    BY <1>3 DEF IInv, Progressed, EveryRevisionIsNew
  <1> QED BY <1>2, <1>5, <1>6, <1>7, <1>8, <1>9 DEF IInv

-----------------------------------------------------------------------------
(* Steps of the run that the ledger counts or measures. *)

LEMMA AdmitCallStep ==
  ASSUME IInv, AdmitCall
  PROVE  IInv'
  <1>1. turns + 1 \in Numbers /\ RunCall(turns + 1) \in CallIds /\ turns \in Nat
    BY PlannerLimitsAssumption DEF IInv, TypeOK, CallIds, RunCall, Numbers
  <1>2. /\ Ledger!TypeOK' /\ Counted' /\ measured' = measured
        /\ calls'["planner"] = IF reply' = "ok" THEN calls["planner"] \cup {RunCall(turns + 1)}
                               ELSE calls["planner"]
        /\ calls'["revision"] = calls["revision"]
    BY <1>1, NamedAdmission DEF IInv, TypeOK, AdmitCall, RunCall
  <1>3. /\ UNCHANGED <<turns, revision, seen, plan, position, refs, failures, stale, changes>>
        /\ pc = "admit"
        /\ IF reply' = "ok" THEN pc' = "project" /\ result' = result
           ELSE pc' = "ended" /\ result' = "budget"
    BY DEF AdmitCall, Goes, Ends, execution
  <1>4. TypeOK'
    BY <1>2, <1>3 DEF IInv, TypeOK, Results
  <1>5. \A m \in Numbers : RunCall(m) = RunCall(turns + 1) => m = turns + 1
    BY DEF RunCall
  <1>6. TurnsAdmitted'
    <2>1. \A m \in 1..turns' : RunCall(m) \in calls'["planner"]
      BY <1>2, <1>3 DEF IInv, TurnsAdmitted, RunCall
    <2>2. pc' \in {"project", "planning"} => RunCall(turns' + 1) \in calls'["planner"]
      BY <1>2, <1>3 DEF RunCall
    <2>3. ASSUME NEW m \in Numbers, RunCall(m) \in calls'["planner"]
          PROVE  \/ m \in 1..turns'
                 \/ m = turns' + 1 /\ pc' \in {"project", "planning"}
      BY <2>3, <1>2, <1>3, <1>5 DEF IInv, TurnsAdmitted
    <2> QED BY <2>1, <2>2, <2>3, <1>3 DEF TurnsAdmitted, RunCall, Numbers
  <1>7. RevisionsAdmitted'
    BY <1>2, <1>3 DEF IInv, RevisionsAdmitted, RunCall
  <1>8. Measured'
    BY <1>2, <1>3 DEF IInv, Measured, RunCall, Looked, Numbers
  <1>9. Progressed'
    BY <1>3 DEF IInv, Progressed, EveryRevisionIsNew
  <1> QED BY <1>2, <1>4, <1>6, <1>7, <1>8, <1>9 DEF IInv

LEMMA AdmitRevisionStep ==
  ASSUME IInv, AdmitRevision
  PROVE  IInv'
  <1>1. revision \in Nat /\ failures \in Nat /\ turns \in Nat /\ turns <= PlannerCalls
    BY PlannerLimitsAssumption DEF IInv, TypeOK
  <1>2. RunCall(revision) \in CallIds
    BY <1>1, PlannerLimitsAssumption
       DEF IInv, TypeOK, Progressed, AdmitRevision, CallIds, RunCall
  <1>3. /\ Ledger!TypeOK' /\ Counted' /\ measured' = measured
        /\ calls'["revision"] = IF reply' = "ok" THEN calls["revision"] \cup {RunCall(revision)}
                                ELSE calls["revision"]
        /\ calls'["planner"] = calls["planner"]
    BY <1>2, NamedAdmission DEF IInv, TypeOK, AdmitRevision, RunCall
  <1>4. /\ UNCHANGED <<turns, revision, seen, plan, position, refs, stale, changes>>
        /\ pc = "revising"
        /\ IF reply' = "ok"
           THEN /\ pc' \in {"stepping", "admit"} /\ result' = result
                /\ failures' = failures \/ (failures' = failures + 1 /\ pc' = "admit")
           ELSE pc' = "ended" /\ result' = "budget" /\ failures' = failures
    BY <1>1 DEF AdmitRevision, Goes, Ends
  <1>5. failures < revision /\ revision <= turns
    BY <1>4 DEF IInv, Progressed, EveryRevisionIsNew
  <1>6. failures' \in Nat /\ failures' <= revision /\ (pc' = "stepping" => failures' < revision)
    BY <1>1, <1>4, <1>5
  <1>7. TypeOK'
    BY <1>1, <1>3, <1>4, <1>5, <1>6 DEF IInv, TypeOK, Results
  <1>8. TurnsAdmitted'
    BY <1>3, <1>4 DEF IInv, TurnsAdmitted, RunCall, Numbers
  <1>9. RevisionsAdmitted'
    BY <1>3, <1>4 DEF IInv, RevisionsAdmitted, RunCall
  <1>10. Measured'
    BY <1>3, <1>4 DEF IInv, Measured, RunCall, Looked, Numbers
  <1>11. Progressed'
    BY <1>4, <1>6 DEF IInv, Progressed, EveryRevisionIsNew
  <1> QED BY <1>3, <1>7, <1>8, <1>9, <1>10, <1>11 DEF IInv

\* The planner's turn is over, in time or not: it is measured once.
LEMMA TurnSteps ==
  ASSUME IInv, PlannerReturns \/ PlannerLate
  PROVE  IInv'
  <1>1. /\ pc = "planning" /\ turns' = turns + 1
        /\ UNCHANGED <<revision, seen, plan, position, refs, failures, stale, changes>>
        /\ \/ pc' = "respond" /\ result' = result
           \/ pc' = "ended" /\ result' = "budget"
    BY DEF PlannerReturns, PlannerLate, Goes, Ends, execution
  <1>2. turns \in Nat /\ revision \in Nat /\ failures \in Nat
    BY PlannerLimitsAssumption DEF IInv, TypeOK
  <1>3. \A n \in 1..(turns + 1) : RunCall(n) \in calls["planner"]
    BY <1>1, <1>2 DEF IInv, TurnsAdmitted
  <1>4. turns + 1 <= PlannerCalls
    BY <1>2, <1>3, WithinLimit DEF IInv, Limit
  <1>5. turns + 1 \in Numbers /\ RunCall(turns + 1) \in CallIds
    BY <1>2, <1>4, PlannerLimitsAssumption DEF CallIds, RunCall, Numbers
  <1>6. PICK kind \in Looked : Ledger!Record(RunCall(turns + 1), kind, "counted")
    BY DEF PlannerReturns, PlannerLate, Looked, RunCall
  <1>7. measured[<<RunCall(turns + 1), kind>>] = "nothing"
    BY <1>2, <1>5 DEF IInv, Measured
  <1>8. /\ reply' = "ok"
        /\ measured' = [measured EXCEPT ![<<RunCall(turns + 1), kind>>] = "counted"]
        /\ UNCHANGED <<active, operations, attempts, calls, children, now>>
    BY <1>6, <1>7 DEF Ledger!Record
  <1>9. measured \in [CallIds \X Ledger!Kinds -> {"counted"} \cup {"nothing"}]
    BY DEF IInv, TypeOK, Ledger!TypeOK
  <1>10. measured' \in [CallIds \X Ledger!Kinds -> {"counted"} \cup {"nothing"}]
    BY <1>8, <1>9
  <1>11. Ledger!TypeOK'
    BY <1>8, <1>10 DEF IInv, TypeOK, Ledger!TypeOK, Ledger!Replies
  <1>12. TypeOK'
    BY <1>1, <1>2, <1>4, <1>11 DEF IInv, TypeOK, Results
  <1>13. Counted'
    BY <1>8 DEF IInv, Counted, Limit
  <1>14. TurnsAdmitted'
    <2>1. \A m \in 1..turns' : RunCall(m) \in calls'["planner"]
      BY <1>1, <1>3, <1>8
    <2>2. \A m \in Numbers : RunCall(m) \in calls'["planner"] => m \in 1..turns'
      BY <1>1, <1>2, <1>8 DEF IInv, TurnsAdmitted
    <2> QED BY <1>1, <2>1, <2>2 DEF TurnsAdmitted, RunCall, Numbers
  <1>15. RevisionsAdmitted'
    BY <1>1, <1>8 DEF IInv, RevisionsAdmitted, RunCall
  <1>16. Measured'
    <2> SUFFICES ASSUME NEW n \in Numbers
                 PROVE  IF n <= turns'
                        THEN \E one \in Looked : \A other \in Looked :
                               measured'[<<RunCall(n), other>>] # "nothing" <=> other = one
                        ELSE \A one \in Looked : measured'[<<RunCall(n), one>>] = "nothing"
      BY DEF Measured, RunCall, Looked, Numbers
    <2>1. RunCall(n) \in CallIds /\ n \in Nat
      BY PlannerLimitsAssumption DEF Numbers, CallIds, RunCall
    <2>2. Looked \subseteq Ledger!Kinds
      BY DEF Looked, Ledger!Kinds
    <2>3. CASE n = turns + 1
      <3>1. \A other \in Looked : measured[<<RunCall(n), other>>] = "nothing"
        BY <2>3, <1>2 DEF IInv, Measured
      <3>2. \A other \in Looked : measured'[<<RunCall(n), other>>] =
              IF other = kind THEN "counted" ELSE measured[<<RunCall(n), other>>]
        BY <2>1, <2>2, <2>3, <1>8, <1>9
      <3>3. \A other \in Looked :
              measured'[<<RunCall(n), other>>] # "nothing" <=> other = kind
        BY <3>1, <3>2
      <3> QED BY <3>3, <2>3, <1>1, <1>2, <1>6
    <2>4. CASE n # turns + 1
      <3>1. RunCall(n) # RunCall(turns + 1)
        BY <2>4 DEF RunCall
      <3>2. \A other \in Looked : measured'[<<RunCall(n), other>>] = measured[<<RunCall(n), other>>]
        BY <2>1, <2>2, <3>1, <1>8, <1>9
      <3>3. n <= turns' <=> n <= turns
        BY <2>1, <2>4, <1>1, <1>2
      <3>4. IF n <= turns
            THEN \E one \in Looked : \A other \in Looked :
                   measured[<<RunCall(n), other>>] # "nothing" <=> other = one
            ELSE \A one \in Looked : measured[<<RunCall(n), one>>] = "nothing"
        BY DEF IInv, Measured
      <3> QED BY <3>2, <3>3, <3>4
    <2> QED BY <2>3, <2>4
  <1>17. Progressed'
    BY <1>1, <1>2 DEF IInv, Progressed, EveryRevisionIsNew
  <1> QED BY <1>12, <1>13, <1>14, <1>15, <1>16, <1>17 DEF IInv

\* A plan that is proposed again ends the run; a new one is a new revision.
LEMMA ProposeStep ==
  ASSUME IInv, NEW p \in Plans, Propose(p)
  PROVE  IInv'
  <1>1. turns \in Nat /\ revision \in Nat /\ failures \in Nat /\ seen \subseteq Plans
    BY PlannerLimitsAssumption DEF IInv, TypeOK
  <1>2. /\ UNCHANGED ledger /\ UNCHANGED <<turns, failures, changes>> /\ pc = "respond"
    BY DEF Propose
  <1>3. CASE p \in seen
    <2>1. /\ UNCHANGED <<revision, seen, plan, position, refs, stale>>
          /\ pc' = "ended" /\ result' = "no_progress"
      BY <1>3 DEF Propose, Ends
    <2>2. Counted' /\ TurnsAdmitted' /\ RevisionsAdmitted' /\ Measured' /\ Progressed'
      BY <1>2, <2>1, Moves DEF ledger
    <2>3. Ledger!TypeOK'
      BY <1>2 DEF IInv, TypeOK, ledger, Ledger!TypeOK
    <2>4. TypeOK'
      BY <1>2, <2>1, <2>3 DEF IInv, TypeOK, Results
    <2> QED BY <2>2, <2>4 DEF IInv
  <1>4. CASE p \notin seen
    <2>1. /\ seen' = seen \cup {p} /\ revision' = revision + 1
          /\ plan' = p /\ position' = 1 /\ refs' = {} /\ stale' = stale \cap Sources
          /\ pc' = "revising" /\ result' = result
      BY <1>4 DEF Propose, Goes
    <2>2. revision < turns /\ revision = Cardinality(seen) /\ failures <= revision
      BY <1>2 DEF IInv, Progressed, EveryRevisionIsNew
    <2>3. IsFiniteSet(seen') /\ Cardinality(seen') = Cardinality(seen) + 1
      BY <1>4, <2>1, FS_AddElement DEF IInv, Progressed
    <2>4. \A n \in 1..revision : RunCall(n) \in calls["revision"]
      BY <1>2 DEF IInv, RevisionsAdmitted
    <2>5. revision <= PlanRevisions
      BY <1>1, <2>4, WithinLimit DEF IInv, Limit
    <2>6. Ledger!TypeOK'
      BY <1>2 DEF IInv, TypeOK, ledger, Ledger!TypeOK
    <2>7. revision' \in 0..(PlanRevisions + 1)
      BY <1>1, <2>1, <2>5, PlannerLimitsAssumption
    <2>8. TypeOK'
      BY <1>1, <1>2, <2>1, <2>2, <2>6, <2>7 DEF IInv, TypeOK, Results
    <2>9. Counted'
      BY <1>2 DEF IInv, Counted, Limit, ledger
    <2>10. TurnsAdmitted'
      BY <1>2, <2>1 DEF IInv, TurnsAdmitted, RunCall, Numbers, ledger
    <2>11. RevisionsAdmitted'
      <3>1. \A n \in 1..revision' : n \in 1..revision \/ n = revision'
        BY <1>1, <2>1
      <3>2. calls' = calls
        BY <1>2 DEF ledger
      <3> QED BY <2>1, <2>4, <3>1, <3>2 DEF RevisionsAdmitted, RunCall
    <2>12. Measured'
      BY <1>2 DEF IInv, Measured, RunCall, Looked, Numbers, ledger
    <2>13. Progressed'
      BY <1>1, <1>2, <2>1, <2>2, <2>3 DEF Progressed, EveryRevisionIsNew
    <2> QED BY <2>8, <2>9, <2>10, <2>11, <2>12, <2>13 DEF IInv
  <1> QED BY <1>3, <1>4

-----------------------------------------------------------------------------
LEMMA Starts == Init => IInv
  <1> SUFFICES ASSUME Init
               PROVE  IInv
    OBVIOUS
  <1>1. /\ Ledger!Init
        /\ pc = "admit" /\ result = "none" /\ turns = 0 /\ revision = 0 /\ seen = {}
        /\ plan = "none" /\ position = 0 /\ refs = {} /\ failures = 0 /\ stale = {} /\ changes = 0
    BY DEF Init
  <1>2. calls = [class \in {"planner", "revision"} |-> {}]
    BY <1>1 DEF Ledger!Init
  <1>3. measured = [m \in CallIds \X Ledger!Kinds |-> "nothing"]
    BY <1>1 DEF Ledger!Init
  <1>4. Ledger!TypeOK
    BY <1>1, <1>2, <1>3, PlannerLimitsAssumption
       DEF Ledger!Init, Ledger!TypeOK, Ledger!Replies
  <1>5. TypeOK
    BY <1>1, <1>4, PlannerLimitsAssumption DEF TypeOK, Results
  <1>6. IsFiniteSet({}) /\ Cardinality({}) = 0
    BY FS_EmptySet
  <1>7. Counted
    BY <1>2, <1>6, PlannerLimitsAssumption DEF Counted, Limit
  <1>8. TurnsAdmitted /\ RevisionsAdmitted
    BY <1>1, <1>2 DEF TurnsAdmitted, RevisionsAdmitted
  <1>9. Measured
    <2>1. \A n \in Numbers, kind \in Looked : <<RunCall(n), kind>> \in CallIds \X Ledger!Kinds
      BY PlannerLimitsAssumption DEF Numbers, Looked, RunCall, CallIds, Ledger!Kinds
    <2>2. \A n \in Numbers : ~ n <= turns
      BY <1>1, PlannerLimitsAssumption DEF Numbers
    <2> QED BY <1>3, <2>1, <2>2 DEF Measured
  <1>10. Progressed
    BY <1>1, <1>6 DEF Progressed, EveryRevisionIsNew
  <1> QED BY <1>5, <1>7, <1>8, <1>9, <1>10 DEF IInv

LEMMA GoesOn == IInv /\ [Next]_vars => IInv'
  <1> SUFFICES ASSUME IInv, [Next]_vars
               PROVE  IInv'
    OBVIOUS
  <1>1. CASE Advance
    BY <1>1, QuietSteps, AdmitCallStep, AdmitRevisionStep, TurnSteps, ProposeStep DEF Advance
  <1>2. CASE Cancel
    BY <1>2, QuietSteps
  <1>3. CASE \E x \in Sources \cup refs : Invalidate(x)
    BY <1>3, HostSteps
  <1>4. CASE \E class \in {"planner", "revision"}, n \in 1..MaxOthers : OtherAdmits(class, n)
    BY <1>4, OtherSteps
  <1>5. CASE Tick \/ Finished
    BY <1>5, HostSteps
  <1>6. CASE UNCHANGED vars
    <2>1. UNCHANGED <<calls, measured, turns, revision, seen, failures, pc, result>>
      BY <1>6 DEF vars, ledger, execution
    <2>2. Counted' /\ TurnsAdmitted' /\ RevisionsAdmitted' /\ Measured' /\ Progressed'
      BY <2>1, Moves
    <2>3. Ledger!TypeOK'
      BY <1>6 DEF IInv, TypeOK, Ledger!TypeOK, vars, ledger
    <2>4. TypeOK'
      BY <1>6, <2>3 DEF IInv, TypeOK, Results, vars, execution
    <2> QED BY <2>2, <2>4 DEF IInv
  <1> QED BY <1>1, <1>2, <1>3, <1>4, <1>5, <1>6 DEF Next

LEMMA Invariant == Spec => []IInv
  BY Starts, GoesOn, PTL DEF Spec

\* Every state of the loop has its types: no limit of the shared ledger is passed,
\* and no more plans fail than turns were had.
THEOREM TypeCorrect == Spec => []TypeOK
  <1>1. IInv => TypeOK
    BY DEF IInv
  <1> QED BY <1>1, Invariant, PTL

\* For any plans and limits, no plan is executed twice, and each revision took a
\* turn of its own.
THEOREM RevisionsAreNew == Spec => []EveryRevisionIsNew
  <1>1. IInv => EveryRevisionIsNew
    BY DEF IInv, Progressed
  <1> QED BY <1>1, Invariant, PTL

\* For any limits and other users of the ledger, each turn of the planner is
\* measured once.
THEOREM EveryTurnMeasured == Spec => []TurnsMeasured
  <1>1. ASSUME IInv
        PROVE  TurnsMeasured
    <2> DEFINE kinds(n) ==
          {kind \in {"observed", "unknown"} : measured[<<<<"run", n>>, kind>>] # "nothing"}
        admitted == {n \in 1..PlannerCalls : <<"run", n>> \in calls["planner"]}
    <2>1. turns \in Nat /\ turns <= PlannerCalls
      BY <1>1, PlannerLimitsAssumption DEF IInv, TypeOK
    <2>2. 1..PlannerCalls \subseteq Numbers
      BY PlannerLimitsAssumption DEF Numbers
    <2>3. ASSUME NEW n \in 1..turns
          PROVE  Cardinality(kinds(n)) = 1
      <3>1. n \in Numbers /\ n <= turns
        BY <2>1, <2>2, PlannerLimitsAssumption
      <3>2. PICK kind \in Looked : \A other \in Looked :
              measured[<<RunCall(n), other>>] # "nothing" <=> other = kind
        BY <1>1, <3>1 DEF IInv, Measured
      <3>3. kinds(n) = {kind}
        BY <3>2 DEF Looked, RunCall
      <3> QED BY <3>3, FS_Singleton
    <2>4. 1..turns \subseteq admitted
      BY <1>1, <2>1, PlannerLimitsAssumption DEF IInv, TurnsAdmitted, RunCall
    <2>5. ASSUME NEW n \in admitted
          PROVE  \/ n \in 1..turns
                 \/ /\ n = turns + 1
                    /\ pc \in {"project", "planning"} \/ (pc = "ended" /\ result \in {"error", "cancelled", "planner_budget"})
      BY <1>1, <2>2 DEF IInv, TurnsAdmitted, RunCall
    <2>6. pc = "ended" /\ result \notin {"error", "cancelled", "planner_budget"} => admitted = 1..turns
      BY <2>4, <2>5
    <2>7. admitted \subseteq 1..(turns + 1)
      BY <2>1, <2>5
    <2> QED BY <2>3, <2>6, <2>7 DEF TurnsMeasured
  <1> QED BY <1>1, Invariant, PTL

-----------------------------------------------------------------------------
(* _validate_plan: a valid plan is ordered with every dependency first.    *)

PlanSteps(p) == Range(StepsOf[p])
Size(p) == Len(StepsOf[p])

LEMMA AllNumbers ==
  ASSUME NEW T \in SUBSET Nat, 0 \in T, \A n \in T : n + 1 \in T
  PROVE  T = Nat
  <1> SUFFICES ASSUME Nat \ T # {} PROVE FALSE
    OBVIOUS
  <1>1. PICK n \in Nat \ T : \A m \in Nat \ T : <<m, n>> \notin OpToRel(<, Nat)
    <2>1. IsWellFoundedOn(OpToRel(<, Nat), Nat)
      BY NatLessThanWellFounded
    <2> DEFINE C == Nat \ T
    <2>2. C \subseteq Nat /\ C # {}
      OBVIOUS
    <2> HIDE DEF C
    <2>3. \E x \in C : \A y \in C : <<y, x>> \notin OpToRel(<, Nat)
      BY <2>1, <2>2, WFMin
    <2> QED BY <2>3 DEF C
  <1>2. n # 0 /\ n - 1 \in Nat
    OBVIOUS
  <1>3. <<n - 1, n>> \in OpToRel(<, Nat)
    BY <1>2 DEF OpToRel
  <1>4. n - 1 \in T
    BY <1>1, <1>2, <1>3
  <1> QED BY <1>2, <1>4

LEMMA PlanTypes ==
  ASSUME NEW p \in Plans
  PROVE  /\ StepsOf[p] \in Seq(PlanSteps(p)) /\ Size(p) \in Nat
         /\ PlanSteps(p) = {StepsOf[p][i] : i \in 1..Size(p)}
         /\ \A i, k \in 1..Size(p) : StepsOf[p][i] = StepsOf[p][k] => i = k
  <1>1. IsInjective(StepsOf[p]) /\ StepsOf[p] \in Seq(Range(StepsOf[p]))
    BY PlansAssumption
  <1>2. DOMAIN StepsOf[p] = 1..Len(StepsOf[p]) /\ Len(StepsOf[p]) \in Nat
    BY <1>1
  <1> QED BY <1>1, <1>2 DEF PlanSteps, Size, Range, IsInjective

\* f is the list of the steps of ready among the first m of the plan, for each m up to n.
IsListing(f, n, p, ready) ==
  f = [i \in 0..n |->
        IF i = 0 THEN <<>>
        ELSE IF StepsOf[p][i] \in ready THEN Append(f[i - 1], StepsOf[p][i])
        ELSE f[i - 1]]

\* f is the order after each of the first n rounds.
IsRounds(f, n, p) ==
  f = [i \in 0..n |->
        IF i = 0 THEN <<>>
        ELSE LET ordered == f[i - 1]
             IN ordered \o AsListed(p, Ready(p, Range(ordered)))]

LEMMA ListingExists ==
  ASSUME NEW p, NEW ready, NEW m \in Nat
  PROVE  \E f : IsListing(f, m, p, ready)
  <1> DEFINE T == {n \in Nat : \E f : IsListing(f, n, p, ready)}
             After(list, i) == IF StepsOf[p][i] \in ready THEN Append(list, StepsOf[p][i]) ELSE list
  <1>1. 0 \in T
    <2>1. IsListing([i \in 0..0 |-> <<>>], 0, p, ready)
      BY DEF IsListing
    <2> QED BY <2>1
  <1>2. ASSUME NEW n \in T PROVE n + 1 \in T
    <2>1. PICK f : IsListing(f, n, p, ready)
      OBVIOUS
    <2>2. \A i \in 0..n : f[i] = IF i = 0 THEN <<>> ELSE After(f[i - 1], i)
      <3> DEFINE h == [i \in 0..n |-> IF i = 0 THEN <<>> ELSE After(f[i - 1], i)]
      <3>1. f = h
        BY <2>1 DEF IsListing
      <3>2. \A i \in 0..n : h[i] = IF i = 0 THEN <<>> ELSE After(f[i - 1], i)
        BY Zenon
      <3> HIDE DEF h
      <3> QED BY <3>1, <3>2
    <2> DEFINE last == After(f[n], n + 1)
               g == [i \in 0..(n + 1) |-> IF i = n + 1 THEN last ELSE f[i]]
    <2> HIDE DEF After, last
    <2>3. g[n + 1] = last /\ \A i \in 0..n : g[i] = f[i]
      OBVIOUS
    <2>4. g = [i \in 0..(n + 1) |-> g[i]]
      OBVIOUS
    <2> HIDE DEF g
    <2>5. ASSUME NEW k \in 0..(n + 1)
          PROVE  g[k] = IF k = 0 THEN <<>> ELSE After(g[k - 1], k)
      <3>1. CASE k = n + 1
        <4>1. k # 0 /\ k - 1 = n /\ n \in 0..n
          BY <3>1
        <4> QED BY <2>3, <3>1, <4>1 DEF last
      <3>2. CASE k \in 0..n
        <4>1. k # 0 => k - 1 \in 0..n
          BY <3>2
        <4> QED BY <2>2, <2>3, <3>2, <4>1
      <3> QED BY <3>1, <3>2
    <2>6. IsListing(g, n + 1, p, ready)
      BY <2>4, <2>5 DEF IsListing, After
    <2> QED BY <2>6
  <1>3. T \subseteq Nat
    OBVIOUS
  <1> HIDE DEF T
  <1>4. T = Nat
    BY <1>1, <1>2, <1>3, AllNumbers
  <1> QED BY <1>4 DEF T

LEMMA RoundsExist ==
  ASSUME NEW p, NEW m \in Nat
  PROVE  \E f : IsRounds(f, m, p)
  <1> DEFINE T == {n \in Nat : \E f : IsRounds(f, n, p)}
             After(ordered) == ordered \o AsListed(p, Ready(p, Range(ordered)))
  <1>1. 0 \in T
    <2>1. IsRounds([i \in 0..0 |-> <<>>], 0, p)
      BY DEF IsRounds
    <2> QED BY <2>1
  <1>2. ASSUME NEW n \in T PROVE n + 1 \in T
    <2>1. PICK f : IsRounds(f, n, p)
      OBVIOUS
    <2>2. \A i \in 0..n : f[i] = IF i = 0 THEN <<>> ELSE After(f[i - 1])
      <3> DEFINE h == [i \in 0..n |-> IF i = 0 THEN <<>> ELSE After(f[i - 1])]
      <3>1. f = h
        BY <2>1 DEF IsRounds
      <3>2. \A i \in 0..n : h[i] = IF i = 0 THEN <<>> ELSE After(f[i - 1])
        BY Zenon
      <3> HIDE DEF h
      <3> QED BY <3>1, <3>2
    <2> DEFINE last == After(f[n])
               g == [i \in 0..(n + 1) |-> IF i = n + 1 THEN last ELSE f[i]]
    <2> HIDE DEF After, last
    <2>3. g[n + 1] = last /\ \A i \in 0..n : g[i] = f[i]
      OBVIOUS
    <2>4. g = [i \in 0..(n + 1) |-> g[i]]
      OBVIOUS
    <2> HIDE DEF g
    <2>5. ASSUME NEW k \in 0..(n + 1)
          PROVE  g[k] = IF k = 0 THEN <<>> ELSE After(g[k - 1])
      <3>1. CASE k = n + 1
        <4>1. k # 0 /\ k - 1 = n /\ n \in 0..n
          BY <3>1
        <4> QED BY <2>3, <3>1, <4>1 DEF last
      <3>2. CASE k \in 0..n
        <4>1. k # 0 => k - 1 \in 0..n
          BY <3>2
        <4> QED BY <2>2, <2>3, <3>2, <4>1
      <3> QED BY <3>1, <3>2
    <2>6. IsRounds(g, n + 1, p)
      BY <2>4, <2>5 DEF IsRounds, After
    <2> QED BY <2>6
  <1>3. T \subseteq Nat
    OBVIOUS
  <1> HIDE DEF T
  <1>4. T = Nat
    BY <1>1, <1>2, <1>3, AllNumbers
  <1> QED BY <1>4 DEF T

LEMMA RangeOfAppend ==
  ASSUME NEW S, NEW list \in Seq(S), NEW x \in S
  PROVE  Range(Append(list, x)) = Range(list) \cup {x}
  <1> DEFINE longer == Append(list, x)
  <1>1. /\ Len(list) \in Nat /\ longer \in Seq(S) /\ Len(longer) = Len(list) + 1
        /\ longer[Len(list) + 1] = x /\ \A i \in 1..Len(list) : longer[i] = list[i]
    OBVIOUS
  <1> HIDE DEF longer
  <1>2. 1..(Len(list) + 1) = 1..Len(list) \cup {Len(list) + 1}
    BY <1>1
  <1>3. Range(longer) = {longer[i] : i \in 1..(Len(list) + 1)}
    BY <1>1 DEF Range
  <1>4. Range(list) = {list[i] : i \in 1..Len(list)}
    BY DEF Range
  <1> QED BY <1>1, <1>2, <1>3, <1>4 DEF longer

\* AsListed keeps the steps of ready, and only those.
LEMMA ListedSteps ==
  ASSUME NEW p \in Plans, NEW ready \in SUBSET PlanSteps(p)
  PROVE  AsListed(p, ready) \in Seq(ready) /\ Range(AsListed(p, ready)) = ready
  <1> DEFINE N == Size(p)
             f == CHOOSE f : IsListing(f, N, p, ready)
             s == StepsOf[p]
             Kept(n) == {s[k] : k \in 1..n} \cap ready
             T == {n \in Nat : n <= N => f[n] \in Seq(ready) /\ Range(f[n]) = Kept(n)}
  <1>1. N \in Nat /\ PlanSteps(p) = {s[k] : k \in 1..N}
    BY PlanTypes
  <1>2. AsListed(p, ready) = f[N]
    BY DEF AsListed, IsListing, Size
  <1>3. IsListing(f, N, p, ready)
    BY <1>1, ListingExists
  <1> HIDE DEF f, N
  <1>4. \A i \in 0..N : f[i] = IF i = 0 THEN <<>>
                              ELSE IF s[i] \in ready THEN Append(f[i - 1], s[i]) ELSE f[i - 1]
    <2> DEFINE h == [i \in 0..N |-> IF i = 0 THEN <<>>
                              ELSE IF s[i] \in ready THEN Append(f[i - 1], s[i]) ELSE f[i - 1]]
    <2>1. f = h
      BY <1>3 DEF IsListing
    <2>2. \A i \in 0..N : h[i] = IF i = 0 THEN <<>>
                              ELSE IF s[i] \in ready THEN Append(f[i - 1], s[i]) ELSE f[i - 1]
      BY Zenon
    <2> HIDE DEF h
    <2> QED BY <2>1, <2>2
  <1> HIDE DEF s
  <1>5. 0 \in T
    <2>1. f[0] = <<>>
      BY <1>1, <1>4
    <2>2. <<>> \in Seq(ready) /\ Range(<<>>) = {} /\ Kept(0) = {}
      BY DEF Range
    <2> HIDE DEF Kept
    <2>3. f[0] \in Seq(ready) /\ Range(f[0]) = Kept(0)
      BY <2>1, <2>2
    <2> QED BY <2>3
  <1>6. ASSUME NEW n \in T PROVE n + 1 \in T
    <2> SUFFICES ASSUME n + 1 <= N
                 PROVE  f[n + 1] \in Seq(ready) /\ Range(f[n + 1]) = Kept(n + 1)
      OBVIOUS
    <2>1. f[n] \in Seq(ready) /\ Range(f[n]) = Kept(n)
      BY <1>1
    <2>2. f[n + 1] = IF s[n + 1] \in ready THEN Append(f[n], s[n + 1]) ELSE f[n]
      <3>1. n + 1 \in 0..N /\ n + 1 # 0 /\ (n + 1) - 1 = n
        BY <1>1
      <3> QED BY <1>4, <3>1
    <2>3. Kept(n + 1) = Kept(n) \cup ({s[n + 1]} \cap ready)
      <3>1. 1..(n + 1) = 1..n \cup {n + 1}
        OBVIOUS
      <3> QED BY <3>1
    <2> HIDE DEF Kept
    <2>4. CASE s[n + 1] \in ready
      <3>1. f[n + 1] \in Seq(ready)
        BY <2>1, <2>2, <2>4
      <3>2. Range(Append(f[n], s[n + 1])) = Range(f[n]) \cup {s[n + 1]}
        BY <2>1, <2>4, RangeOfAppend
      <3> QED BY <2>1, <2>2, <2>3, <2>4, <3>1, <3>2
    <2>5. CASE s[n + 1] \notin ready
      BY <2>1, <2>2, <2>3, <2>5
    <2> QED BY <2>4, <2>5
  <1>7. T \subseteq Nat
    OBVIOUS
  <1> HIDE DEF T
  <1>8. T = Nat
    BY <1>5, <1>6, <1>7, AllNumbers
  <1> HIDE DEF Kept
  <1>9. f[N] \in Seq(ready) /\ Range(f[N]) = Kept(N)
    BY <1>1, <1>8 DEF T
  <1>10. Kept(N) = ready
    BY <1>1 DEF Kept
  <1> QED BY <1>2, <1>9, <1>10

\* Every step of the sequence comes after the steps it depends on.
DependenciesFirst(p, ordered) ==
  \A i \in 1..Len(ordered) : DependsOn[p][ordered[i]] \subseteq {ordered[k] : k \in 1..(i - 1)}

LEMMA RoundAppends ==
  ASSUME NEW p \in Plans, NEW ordered \in Seq(PlanSteps(p)), DependenciesFirst(p, ordered)
  PROVE  LET next == ordered \o AsListed(p, Ready(p, Range(ordered)))
         IN next \in Seq(PlanSteps(p)) /\ DependenciesFirst(p, next)
  <1> DEFINE ready == Ready(p, Range(ordered))
             more == AsListed(p, ready)
             next == ordered \o more
  <1>1. ready \subseteq PlanSteps(p)
    BY DEF Ready, PlanSteps
  <1>2. more \in Seq(ready)
    BY <1>1, ListedSteps
  <1>3. \A step \in ready : DependsOn[p][step] \subseteq Range(ordered)
    BY DEF Ready
  <1> HIDE DEF ready, more
  <1>4. more \in Seq(PlanSteps(p))
    BY <1>1, <1>2
  <1>5. /\ next \in Seq(PlanSteps(p)) /\ Len(next) = Len(ordered) + Len(more)
        /\ \A i \in 1..Len(ordered) : next[i] = ordered[i]
        /\ \A i \in 1..Len(more) : next[Len(ordered) + i] = more[i]
    BY <1>4
  <1>6. Range(ordered) = {next[k] : k \in 1..Len(ordered)}
    BY <1>5 DEF Range
  <1> HIDE DEF next
  <1>7. ASSUME NEW i \in 1..Len(next)
        PROVE  DependsOn[p][next[i]] \subseteq {next[k] : k \in 1..(i - 1)}
    <2>1. CASE i <= Len(ordered)
      <3>1. i \in 1..Len(ordered) /\ next[i] = ordered[i]
        BY <1>5, <2>1
      <3>2. \A k \in 1..(i - 1) : next[k] = ordered[k]
        BY <1>5, <3>1
      <3>3. DependsOn[p][ordered[i]] \subseteq {ordered[k] : k \in 1..(i - 1)}
        BY <3>1 DEF DependenciesFirst
      <3> QED BY <3>1, <3>2, <3>3
    <2>2. CASE i > Len(ordered)
      <3>1. Len(ordered) \in Nat /\ Len(more) \in Nat
        BY <1>2
      <3>2. i - Len(ordered) \in 1..Len(more) /\ Len(ordered) + (i - Len(ordered)) = i
        BY <1>5, <2>2, <3>1
      <3>3. next[i] = more[i - Len(ordered)]
        BY <1>5, <3>2
      <3>4. next[i] \in ready
        BY <1>2, <3>2, <3>3
      <3>5. 1..Len(ordered) \subseteq 1..(i - 1)
        BY <2>2, <3>1
      <3> QED BY <1>3, <1>6, <3>4, <3>5
    <2>3. i \in Nat /\ Len(ordered) \in Nat
      BY <1>2, <1>5
    <2>4. i <= Len(ordered) \/ i > Len(ordered)
      BY <2>3
    <2> QED BY <2>1, <2>2, <2>4
  <1> QED BY <1>5, <1>7 DEF DependenciesFirst, next, more, ready

LEMMA OrderedByDependencies ==
  ASSUME NEW p \in Plans
  PROVE  Ordered(p) \in Seq(PlanSteps(p)) /\ DependenciesFirst(p, Ordered(p))
  <1> DEFINE N == Size(p)
             f == CHOOSE f : IsRounds(f, N, p)
             T == {n \in Nat : n <= N => f[n] \in Seq(PlanSteps(p)) /\ DependenciesFirst(p, f[n])}
             After(ordered) == ordered \o AsListed(p, Ready(p, Range(ordered)))
  <1>1. N \in Nat
    BY PlanTypes
  <1>2. Ordered(p) = f[N]
    BY DEF Ordered, IsRounds, Size
  <1>3. IsRounds(f, N, p)
    BY <1>1, RoundsExist
  <1> HIDE DEF f, N
  <1>4. \A i \in 0..N : f[i] = IF i = 0 THEN <<>> ELSE After(f[i - 1])
    <2> DEFINE h == [i \in 0..N |-> IF i = 0 THEN <<>> ELSE After(f[i - 1])]
    <2>1. f = h
      BY <1>3 DEF IsRounds
    <2>2. \A i \in 0..N : h[i] = IF i = 0 THEN <<>> ELSE After(f[i - 1])
      BY Zenon
    <2> HIDE DEF h
    <2> QED BY <2>1, <2>2
  <1>5. 0 \in T
    <2>1. f[0] = <<>>
      BY <1>1, <1>4
    <2>2. <<>> \in Seq(PlanSteps(p)) /\ DependenciesFirst(p, <<>>)
      BY DEF DependenciesFirst
    <2> QED BY <2>1, <2>2
  <1>6. ASSUME NEW n \in T PROVE n + 1 \in T
    <2> SUFFICES ASSUME n + 1 <= N
                 PROVE  f[n + 1] \in Seq(PlanSteps(p)) /\ DependenciesFirst(p, f[n + 1])
      OBVIOUS
    <2>1. f[n] \in Seq(PlanSteps(p)) /\ DependenciesFirst(p, f[n])
      BY <1>1
    <2>2. f[n + 1] = After(f[n])
      <3>1. n + 1 \in 0..N /\ n + 1 # 0 /\ (n + 1) - 1 = n
        BY <1>1
      <3> HIDE DEF After
      <3> QED BY <1>4, <3>1
    <2> QED BY <2>1, <2>2, RoundAppends
  <1>7. T \subseteq Nat
    OBVIOUS
  <1> HIDE DEF T
  <1>8. T = Nat
    BY <1>5, <1>6, <1>7, AllNumbers
  <1> QED BY <1>1, <1>2, <1>8 DEF T

\* No step of a valid plan is left out of its order.
LEMMA ValidPlansAreOrdered ==
  ASSUME NEW p \in Plans, Valid(p)
  PROVE  /\ Size(p) <= Len(Ordered(p)) /\ Len(Ordered(p)) \in Nat
         /\ DependenciesFirst(p, Ordered(p))
  <1> DEFINE order == Ordered(p)
             M == Len(order)
             f == [k \in 1..M |-> order[k]]
             g == [k \in 1..Size(p) |-> StepsOf[p][k]]
  <1>1. order \in Seq(PlanSteps(p)) /\ DependenciesFirst(p, order)
    BY OrderedByDependencies
  <1>2. Range(order) = PlanSteps(p)
    BY DEF Valid, PlanSteps
  <1> HIDE DEF order
  <1>3. M \in Nat /\ Range(order) = {order[k] : k \in 1..M}
    BY <1>1 DEF Range
  <1>4. f \in Surjection(1..M, PlanSteps(p))
    BY <1>2, <1>3 DEF Surjection
  <1>5. Size(p) \in Nat /\ g \in Bijection(1..Size(p), PlanSteps(p))
    BY PlanTypes, SMTT(30) DEF Bijection, Injection, IsInjective, Surjection
  <1>6. /\ IsFiniteSet(1..M) /\ Cardinality(1..M) = M
        /\ IsFiniteSet(1..Size(p)) /\ Cardinality(1..Size(p)) = Size(p)
    <2>1. \A n \in Nat : IsFiniteSet(1..n) /\ Cardinality(1..n) = n
      BY FS_Interval
    <2> QED BY <1>3, <1>5, <2>1
  <1>7. IsFiniteSet(PlanSteps(p)) /\ Cardinality(PlanSteps(p)) = Size(p)
    <2>1. ExistsBijection(1..Size(p), PlanSteps(p))
      BY <1>5, Fun_ExistsBij
    <2> QED BY <2>1, <1>6, FS_Bijection
  <1>8. Cardinality(PlanSteps(p)) <= Cardinality(1..M)
    BY <1>4, <1>6, <1>7, FS_Surjection
  <1> QED BY <1>1, <1>3, <1>6, <1>7, <1>8 DEF order
-------------------------------------------------------------------------

-----------------------------------------------------------------------------
(* Steps start when what they depend on is done.                           *)

\* A revision under way is of a valid plan, and the steps before the next one are done.
StepsInTurn ==
  /\ pc = "revising" => plan \in Plans /\ position = 1
  /\ pc \in {"stepping", "running"} =>
       /\ plan \in Plans /\ Valid(plan)
       /\ position \in Nat \ {0}
       /\ \A i \in 1..(position - 1) : Ordered(plan)[i] \in refs

LEMMA StepsStartInTurn == Init => StepsInTurn
  BY DEF Init, StepsInTurn

\* What a plan lists is a matter of the plan alone.
LEMMA SamePlan ==
  ASSUME plan' = plan
  PROVE  Ordered(plan)' = Ordered(plan) /\ (Valid(plan) <=> Valid(plan)')
BY SMTT(60) DEF Ordered, AsListed, Ready, Valid

LEMMA StepsStayInTurn == StepsInTurn /\ [Next]_vars => StepsInTurn'
  <1> SUFFICES ASSUME StepsInTurn, [Next]_vars
               PROVE  StepsInTurn'
    OBVIOUS
  <1>1. ASSUME UNCHANGED <<plan, position, refs>>,
               pc' \in {"revising", "stepping", "running"} =>
                 pc' = pc \/ (pc' # "revising" /\ pc \in {"stepping", "running"})
        PROVE  StepsInTurn'
    <2>1. Ordered(plan)' = Ordered(plan) /\ (Valid(plan) <=> Valid(plan)')
      BY <1>1, SamePlan
    <2> QED BY <1>1, <2>1 DEF StepsInTurn
  <1>2. CASE StepCompletes
    <2> DEFINE order == Ordered(plan)
    <2>1. /\ plan \in Plans /\ Valid(plan) /\ position \in Nat \ {0}
          /\ \A i \in 1..(position - 1) : order[i] \in refs
      BY <1>2 DEF StepCompletes, StepsInTurn
    <2>2. /\ pc' = "stepping" /\ plan' = plan /\ position' = position + 1
          /\ refs' = refs \cup {order[position]}
      BY <1>2 DEF StepCompletes, Goes, Step
    <2>3. order' = order /\ Valid(plan)'
      BY <2>1, <2>2, SamePlan
    <2> HIDE DEF order
    <2>4. ASSUME NEW i \in 1..(position' - 1)
          PROVE  order[i] \in refs'
      <3>1. i \in 1..(position - 1) \/ i = position
        BY <2>1, <2>2
      <3> QED BY <2>1, <2>2, <3>1
    <2>5. \A i \in 1..(position' - 1) : order'[i] \in refs'
      BY <2>3, <2>4
    <2> QED BY <2>1, <2>2, <2>3, <2>5 DEF StepsInTurn, order
  <1>3. CASE \E p \in Plans : Propose(p)
    BY <1>3 DEF Propose, Ends, Goes, StepsInTurn
  <1>4. CASE AdmitRevision
    <2>1. /\ plan \in Plans /\ position = 1
          /\ UNCHANGED <<plan, position, refs>>
          /\ pc' \in {"ended", "admit"} \/ (pc' = "stepping" /\ Valid(plan))
      BY <1>4 DEF AdmitRevision, Ends, Goes, StepsInTurn
    <2>2. Valid(plan) => Valid(plan)'
      BY <2>1, SamePlan
    <2>3. 1..(position' - 1) = {}
      BY <2>1
    <2> QED BY <2>1, <2>2, <2>3 DEF StepsInTurn
  <1>5. CASE \/ AdmitCall \/ Project \/ PlannerReturns \/ PlannerLate \/ CallbackRaises \/ PlannerRefuses \/ StepRaises
             \/ ProposeResult \/ ResultValidated \/ AskOrHandOff \/ RevisionDone \/ StartStep
             \/ StepStops \/ Cancel
    BY <1>5, <1>1
       DEF AdmitCall, Project, PlannerReturns, PlannerLate, CallbackRaises, PlannerRefuses, StepRaises, ProposeResult,
           ResultValidated, AskOrHandOff, RevisionDone, StartStep, StepStops, Cancel,
           Ends, Goes, execution
  <1>6. CASE \/ \E x \in Sources \cup refs : Invalidate(x)
             \/ \E class \in {"planner", "revision"}, n \in 1..MaxOthers : OtherAdmits(class, n)
             \/ Tick \/ Finished \/ UNCHANGED vars
    BY <1>6, <1>1 DEF Invalidate, OtherAdmits, Tick, Finished, vars, execution
  <1> QED BY <1>2, <1>3, <1>4, <1>5, <1>6 DEF Next, Advance

LEMMA InTurn == Spec => []StepsInTurn
  BY StepsStartInTurn, StepsStayInTurn, PTL DEF Spec

\* For any plans, dependencies, invalidations and users of the ledger, a step starts
\* before the deadline, when every step it depends on completed in this revision, and
\* over arguments that exist and are current (PlannerEngine.run, _validate_plan and
\* _execute_step).
THEOREM StepsAreReady == Spec => StepsStartReady
  <1>1. ASSUME TypeOK, StepsInTurn, Next, pc' = "running", pc # "running"
        PROVE  /\ now < Deadline
               /\ DependsOn[plan][Step] \subseteq refs
               /\ \A x \in Uses[plan][Step] : x \in Sources \cup refs /\ Current(x)
    <2>1. StartStep
      <3>1. CASE Advance
        <4>1. ~ AdmitRevision
          BY <1>1 DEF AdmitRevision, Ends, Goes
        <4> QED BY <1>1, <3>1, <4>1
           DEF Advance, AdmitCall, Project, PlannerReturns, PlannerLate, CallbackRaises, PlannerRefuses, StepRaises,
               ProposeResult, ResultValidated, AskOrHandOff, Propose, RevisionDone,
               StepCompletes, StepStops, Ends, Goes
      <3>2. CASE Cancel \/ Tick \/ Finished
        BY <1>1, <3>2 DEF Cancel, Tick, Finished, Ends, vars
      <3>3. CASE \E x \in Sources \cup refs : Invalidate(x)
        BY <1>1, <3>3 DEF Invalidate
      <3>4. CASE \E class \in {"planner", "revision"}, n \in 1..MaxOthers : OtherAdmits(class, n)
        BY <1>1, <3>4 DEF OtherAdmits
      <3> QED BY <1>1, <3>1, <3>2, <3>3, <3>4 DEF Next
    <2>2. /\ pc = "stepping" /\ position <= Size(plan)
          /\ ~ now >= Deadline /\ ArgumentsBind
      BY <1>1, <2>1 DEF StartStep, Ends, Goes, Size
    <2>3. now < Deadline
      BY <1>1, <2>2, PlannerLimitsAssumption DEF TypeOK, Ledger!TypeOK
    <2> DEFINE order == Ordered(plan)
    <2>4. /\ plan \in Plans /\ Valid(plan) /\ position \in Nat \ {0}
          /\ \A i \in 1..(position - 1) : order[i] \in refs
      BY <1>1, <2>2 DEF StepsInTurn
    <2>5. /\ Size(plan) <= Len(order) /\ Len(order) \in Nat
          /\ DependenciesFirst(plan, order)
      BY <2>4, ValidPlansAreOrdered
    <2>6. Size(plan) \in Nat
      BY <2>4, PlanTypes
    <2>7. Step = order[position]
      BY DEF Step
    <2> HIDE DEF order
    <2>8. position \in 1..Len(order)
      BY <2>2, <2>4, <2>5, <2>6
    <2>9. DependsOn[plan][Step] \subseteq refs
      BY <2>4, <2>5, <2>7, <2>8 DEF DependenciesFirst
    <2>10. \A x \in Uses[plan][Step] : x \in Sources \cup refs /\ Current(x)
      BY <2>2 DEF ArgumentsBind
    <2> QED BY <2>3, <2>9, <2>10
  <1>2. ASSUME TypeOK, StepsInTurn, [Next]_vars
        PROVE  [pc' = "running" /\ pc # "running" =>
                  /\ now < Deadline
                  /\ DependsOn[plan][Step] \subseteq refs
                  /\ \A x \in Uses[plan][Step] : x \in Sources \cup refs /\ Current(x)]_vars
    BY <1>1, <1>2
  <1> QED BY <1>2, InTurn, TypeCorrect, PTL DEF Spec, StepsStartReady

-----------------------------------------------------------------------------
(* The planner and the others use the ledger as its specification allows.  *)

LEMMA LedgerDeadline ==
  ASSUME TypeOK
  PROVE  \E deadline \in Ledger!Deadlines : now >= Deadline <=> now >= deadline
  <1>1. now \in 0..MaxTime /\ MaxTime \in Nat /\ Deadline \in Nat
    BY PlannerLimitsAssumption DEF TypeOK, Ledger!TypeOK
  <1> DEFINE deadline == IF Deadline <= MaxTime THEN Deadline ELSE MaxTime + 1
  <1>2. deadline \in 0..(MaxTime + 1) /\ (now >= Deadline <=> now >= deadline)
    BY <1>1
  <1> QED BY <1>2 DEF Ledger!Deadlines

\* The calls a run may still make have ids of their own.
LEMMA CallNumbers ==
  ASSUME TypeOK
  PROVE  /\ RunCall(turns + 1) \in CallIds
         /\ revision >= 1 => RunCall(revision) \in CallIds
         /\ \A n \in 1..MaxOthers : <<"other", n>> \in CallIds
  BY PlannerLimitsAssumption DEF TypeOK, CallIds, RunCall

LEMMA LedgerSteps ==
  ASSUME IInv, [Next]_vars
  PROVE  [Ledger!Next]_(Ledger!vars)
  <1>1. PICK deadline \in Ledger!Deadlines : now >= Deadline <=> now >= deadline
    BY LedgerDeadline DEF IInv
  <1>2. ASSUME NEW class \in {"planner", "revision"}, NEW id \in CallIds,
               Ledger!AdmitNamed(class, id, Deadline)
        PROVE  Ledger!Call
    <2>1. Ledger!AdmitNamed(class, id, deadline)
      BY <1>1, <1>2 DEF Ledger!AdmitNamed, Ledger!CallReply
    <2> QED BY <2>1 DEF Ledger!Call
  <1>3. CASE AdmitCall
    <2>1. RunCall(turns + 1) \in CallIds
      BY CallNumbers DEF IInv
    <2> QED BY <1>2, <1>3, <2>1 DEF AdmitCall, RunCall, Ledger!Next
  <1>4. CASE AdmitRevision
    <2>1. pc = "revising"
      BY <1>4 DEF AdmitRevision
    <2>2. revision >= 1
      <3>1. failures < revision /\ failures \in Nat /\ revision \in Nat
        BY <2>1, PlannerLimitsAssumption DEF IInv, TypeOK, Progressed
      <3> QED BY <3>1
    <2>3. RunCall(revision) \in CallIds
      BY <2>2, CallNumbers DEF IInv
    <2> QED BY <1>2, <1>4, <2>3 DEF AdmitRevision, RunCall, Ledger!Next
  <1>5. CASE PlannerReturns \/ PlannerLate
    <2>1. RunCall(turns + 1) \in CallIds
      BY CallNumbers DEF IInv
    <2>2. PICK kind \in Looked : Ledger!Record(RunCall(turns + 1), kind, "counted")
      BY <1>5 DEF PlannerReturns, PlannerLate, Looked, RunCall
    <2>3. kind \in Ledger!Kinds /\ "counted" \in {"counted"}
      BY DEF Looked, Ledger!Kinds
    <2> QED BY <2>1, <2>2, <2>3 DEF Ledger!Call, Ledger!Next
  <1>6. CASE \/ Project \/ CallbackRaises \/ PlannerRefuses \/ StepRaises \/ ProposeResult \/ ResultValidated \/ AskOrHandOff
             \/ (\E p \in Plans : Propose(p)) \/ RevisionDone \/ StartStep \/ StepCompletes
             \/ StepStops \/ Cancel \/ (\E x \in Sources \cup refs : Invalidate(x)) \/ Finished
             \/ UNCHANGED vars
    BY <1>6
       DEF Project, CallbackRaises, PlannerRefuses, StepRaises, ProposeResult, ResultValidated, AskOrHandOff, Propose,
           RevisionDone, StartStep, StepCompletes, StepStops, Cancel, Invalidate, Finished, vars,
           ledger, Ledger!vars
  <1>7. CASE \E class \in {"planner", "revision"}, n \in 1..MaxOthers : OtherAdmits(class, n)
    BY <1>2, <1>7, CallNumbers DEF IInv, OtherAdmits, Ledger!Next
  <1>8. CASE Tick
    BY <1>8 DEF Tick, Ledger!Next
  <1> QED BY <1>3, <1>4, <1>5, <1>6, <1>7, <1>8 DEF Next, Advance

\* For any plans, limits and other users, everything the run does to the ledger is
\* what UsageLedger allows its callers (PlannerEngine.run over admit_planner_call,
\* admit_plan_revision and record_usage of limits.py).
THEOREM PlannerUsesTheLedger == Spec => Ledger!Spec
  <1>1. Init => Ledger!Init
    BY DEF Init
  <1>2. IInv /\ [Next]_vars => [Ledger!Next]_(Ledger!vars)
    BY LedgerSteps
  <1> QED BY <1>1, <1>2, Invariant, PTL DEF Spec, Ledger!Spec

-----------------------------------------------------------------------------
(* Progress, as far as it can be stated of steps. *)

\* Where run is in one turn of its loop, and how much of the plan it has done.
Stage ==
  [respond |-> 0, validating |-> 1, revising |-> 1, stepping |-> 2, running |-> 2,
   admit |-> 3, project |-> 4, planning |-> 5, ended |-> 6]

PlanDone == 2 * position + (IF pc = "running" THEN 1 ELSE 0)

\* The next turn, a later stage of this one, or more of the same plan.
GetsOn ==
  \/ turns' > turns
  \/ turns' = turns /\ Stage[pc'] > Stage[pc]
  \/ turns' = turns /\ plan' = plan /\ Stage[pc'] = Stage[pc] /\ PlanDone' > PlanDone

\* Every step of run gets it on; the world leaves run where it is.
Advances ==
  /\ Advance \/ Cancel => GetsOn
  /\ GetsOn \/ UNCHANGED <<turns, pc, plan, position>>

\* Nothing of this goes on without end: turns are limited, and so is a plan.
Bounded ==
  /\ turns \in 0..PlannerCalls /\ Stage[pc] \in 0..6
  /\ pc \in {"stepping", "running"} => plan \in Plans /\ PlanDone \in 2..(2 * Len(StepsOf[plan]) + 2)

PositionBound ==
  /\ pc = "stepping" => position \in 1..(Len(StepsOf[plan]) + 1)
  /\ pc = "running" => position \in 1..Len(StepsOf[plan])

\* A step is only started while the plan has one left.
LEMMA PositionStaysInPlan ==
  ASSUME TypeOK, StepsInTurn, PositionBound, [Next]_vars
  PROVE  PositionBound'
  <1>1. plan \in Plans => Len(StepsOf[plan]) \in Nat
    <2>1. plan \in Plans => Size(plan) \in Nat
      BY PlanTypes
    <2> QED BY <2>1 DEF Size
  <1>2. CASE UNCHANGED <<plan, position>> /\ (pc' = pc \/ pc' \notin {"stepping", "running"})
    BY <1>2 DEF PositionBound
  <1>3. CASE AdmitRevision
    <2>1. plan \in Plans /\ position = 1 /\ plan' = plan /\ position' = 1 /\ pc' # "running"
      BY <1>3 DEF AdmitRevision, Ends, Goes, StepsInTurn
    <2> QED BY <1>1, <2>1 DEF PositionBound
  <1>4. CASE StartStep
    <2>1. /\ plan \in Plans /\ position \in Nat \ {0} /\ position <= Len(StepsOf[plan])
          /\ plan' = plan /\ position' = position /\ pc' # "stepping"
      BY <1>4 DEF StartStep, Ends, Goes, StepsInTurn
    <2> QED BY <1>1, <2>1 DEF PositionBound
  <1>5. CASE StepCompletes
    <2>1. /\ plan \in Plans /\ position \in 1..Len(StepsOf[plan])
          /\ plan' = plan /\ position' = position + 1 /\ pc' = "stepping"
      BY <1>5 DEF StepCompletes, Ends, Goes, StepsInTurn, PositionBound
    <2> QED BY <1>1, <2>1 DEF PositionBound
  <1>6. CASE \E p \in Plans : Propose(p)
    BY <1>6 DEF Propose, Ends, Goes, PositionBound
  <1> QED BY <1>2, <1>3, <1>4, <1>5, <1>6
    DEF Next, Advance, AdmitCall, Project, PlannerReturns, PlannerLate, CallbackRaises, PlannerRefuses, StepRaises,
        ProposeResult, ResultValidated, AskOrHandOff, RevisionDone, StepStops, Cancel,
        Invalidate, OtherAdmits, Tick, Finished, Ends, Goes, execution, vars

\* Every step of run leads to a later turn, stage or step of the plan.
LEMMA RunGetsOn ==
  ASSUME TypeOK, StepsInTurn, Advance \/ Cancel
  PROVE  GetsOn
  <1>1. CASE PlannerReturns \/ PlannerLate
    <2>1. turns' = turns + 1
      BY <1>1 DEF PlannerReturns, PlannerLate
    <2> QED BY <2>1 DEF GetsOn, TypeOK
  <1>2. CASE StartStep
    BY <1>2 DEF StartStep, Goes, Ends, GetsOn, Stage, PlanDone, StepsInTurn
  <1>3. CASE StepCompletes
    BY <1>3 DEF StepCompletes, Goes, GetsOn, Stage, PlanDone, StepsInTurn
  <1>4. CASE ~ (PlannerReturns \/ PlannerLate \/ StartStep \/ StepCompletes)
    <2>1. turns' = turns
      BY <1>4 DEF Advance, AdmitCall, Project, CallbackRaises, PlannerRefuses, StepRaises, ProposeResult, ResultValidated,
         AskOrHandOff, Propose, AdmitRevision, RevisionDone, StepStops, Cancel
    <2>2. Stage[pc'] > Stage[pc]
      BY <1>4 DEF Advance, AdmitCall, Project, CallbackRaises, PlannerRefuses, StepRaises, ProposeResult, ResultValidated,
         AskOrHandOff, Propose, AdmitRevision, RevisionDone, StepStops, Cancel, Goes, Ends, Stage
    <2> QED BY <2>1, <2>2 DEF GetsOn
  <1> QED BY <1>1, <1>2, <1>3, <1>4

\* The host and the other users of the ledger leave run where it is.
LEMMA EveryStepAdvances ==
  ASSUME TypeOK, StepsInTurn, [Next]_vars
  PROVE  Advances
  <1>1. CASE Advance \/ Cancel
    BY <1>1, RunGetsOn DEF Advances
  <1>2. CASE ~ (Advance \/ Cancel)
    BY <1>2 DEF Advances, Next, Invalidate, OtherAdmits, Tick, Finished, execution, vars
  <1> QED BY <1>1, <1>2

\* Turns and plans are as long as the limits and the plan say.
LEMMA ThereIsAnEnd ==
  ASSUME TypeOK, StepsInTurn, PositionBound
  PROVE  Bounded
  <1>1. Stage[pc] \in 0..6
    BY DEF TypeOK, Stage
  <1>2. ASSUME pc \in {"stepping", "running"}
        PROVE  plan \in Plans /\ PlanDone \in 2..(2 * Len(StepsOf[plan]) + 2)
    <2>1. plan \in Plans /\ Size(plan) \in Nat
      BY <1>2, PlanTypes DEF StepsInTurn
    <2>2. Len(StepsOf[plan]) \in Nat
      BY <2>1 DEF Size
    <2> QED BY <1>2, <2>1, <2>2, SMTT(30) DEF PositionBound, PlanDone
  <1> QED BY <1>1, <1>2 DEF Bounded, TypeOK

\* Whatever the planner proposes and the host answers, invalidates or cancels, each
\* step of run leads to a later turn, a later stage of the turn or more of the same
\* plan, of which there are only so many, and other users of the ledger never undo it
\* (PlannerEngine.run retries no call and no step).
THEOREM PlannerGetsOn == Spec => []Bounded /\ [][Advances]_vars
  <1>1. Init => PositionBound
    BY DEF Init, PositionBound
  <1>2. TypeOK /\ StepsInTurn /\ PositionBound /\ [Next]_vars => PositionBound'
    BY PositionStaysInPlan
  <1>3. TypeOK /\ StepsInTurn /\ PositionBound => Bounded
    BY ThereIsAnEnd
  <1>4. TypeOK /\ StepsInTurn /\ [Next]_vars => [Advances]_vars
    BY EveryStepAdvances
  <1> QED BY <1>1, <1>2, <1>3, <1>4, TypeCorrect, InTurn, PTL DEF Spec
=============================================================================
