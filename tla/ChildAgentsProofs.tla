-------------------------- MODULE ChildAgentsProofs --------------------------
(***************************************************************************)
(* What is proved of the ledger, of the stores that child runs project and *)
(* import, and of their composition, for any configuration of agents.      *)
(*                                                                         *)
(* 1. The ledger, for any ids, limits and callers: its types, the limits   *)
(*    of RunLimits, the finality of every admitted identity, the worth of  *)
(*    a released reservation.  These theorems are about UsageLedger's Spec *)
(*    and use none of ChildAgents' assumptions on the tree of runs.        *)
(* 2. The composition uses the ledger as any callers may, so it keeps all  *)
(*    of that.                                                             *)
(* 3. For the agents whose record names are distinct on every path that    *)
(*    can run (NamesDistinct), ComposedInv: every store is as add and      *)
(*    invalidate leave one, a child has what it was lent as its caller has *)
(*    it, and its caller has, once the child was absorbed, a copy of all   *)
(*    the child has.  A copy keeps the links, the order and what was       *)
(*    replaced, so what is current in it is current where it comes from.   *)
(* 4. Control, whatever the names (ControlInv): nobody waits for somebody  *)
(*    who waits for him, as long as there is a slot at all and, for the    *)
(*    projections of the calls, names are distinct; every step passes one  *)
(*    of finitely many milestones; below a run that ended no run or node   *)
(*    runs, and below a cancelled one none begins: only retrievals beside  *)
(*    one that raised may go on.                                           *)
(* 5. The stores only grow, and nothing in them becomes current again.     *)
(***************************************************************************)
EXTENDS ChildAgents, FiniteSetTheorems, FunctionTheorems, SequenceTheorems,
        WellFoundedInduction, TLAPS

-----------------------------------------------------------------------------
(* The ledger. *)

\* Everything that is counted is a finite set.
CountsAreFinite ==
  /\ IsFiniteSet(active) /\ IsFiniteSet(Admitted) /\ IsFiniteSet(Submitted)
  /\ \A class \in Classes : IsFiniteSet(calls[class])
  /\ IsFiniteSet(AdmittedChildren)

IInv == TypeOK /\ CountsAreFinite /\ LimitsHold /\ ReleasesMatch

\* The questions of one attempt, as the pairs Submitted counts.
LEMMA QuestionsOfAttempt ==
  ASSUME NEW id, NEW n \in Nat
  PROVE  IsFiniteSet({id} \X (1..n)) /\ Cardinality({id} \X (1..n)) = n
<1> DEFINE f == [k \in 1..n |-> <<id, k>>]
<1>1. f \in Bijection(1..n, {id} \X (1..n))
  BY DEF Bijection, Injection, IsInjective, Surjection
<1>2. ExistsBijection(1..n, {id} \X (1..n))
  BY <1>1, Fun_ExistsBij
<1>3. IsFiniteSet(1..n) /\ Cardinality(1..n) = n
  BY FS_Interval
<1> QED BY <1>2, <1>3, FS_Bijection

\* A first admission adds the attempt and exactly its questions.
LEMMA NewAttempt ==
  ASSUME TypeOK, NEW id \in AttemptIds, NEW n \in 1..MaxQuestions,
         attempts[id] = 0, attempts' = [attempts EXCEPT ![id] = n]
  PROVE  /\ Admitted' = Admitted \cup {id} /\ id \notin Admitted
         /\ Submitted' = Submitted \cup ({id} \X (1..n))
         /\ Submitted \cap ({id} \X (1..n)) = {}
<1>1. /\ attempts'[id] = n /\ \A j \in AttemptIds \ {id} : attempts'[j] = attempts[j]
      /\ \A j \in AttemptIds : attempts[j] \in 0..MaxQuestions
  BY DEF TypeOK
<1>2. Admitted' = Admitted \cup {id} /\ id \notin Admitted
  BY <1>1 DEF Admitted
<1>3. Submitted' = Submitted \cup ({id} \X (1..n))
  BY <1>1, BoundsAssumption DEF Submitted
<1>4. Submitted \cap ({id} \X (1..n)) = {}
  BY <1>1 DEF Submitted
<1> QED BY <1>2, <1>3, <1>4

\* Admitting a provider attempt keeps both limits, by the sum the code computes.
LEMMA AttemptKeeps ==
  ASSUME IInv, NEW id \in AttemptIds, NEW n \in 1..MaxQuestions, NEW deadline,
         AdmitProviderAttempt(id, n, deadline)
  PROVE  /\ attempts' \in [AttemptIds -> 0..MaxQuestions]
         /\ IsFiniteSet(Admitted') /\ Cardinality(Admitted') <= ProviderAttempts
         /\ IsFiniteSet(Submitted') /\ Cardinality(Submitted') <= SubmittedQuestions
         /\ \A j \in Admitted : attempts'[j] = attempts[j]
<1> USE DEF IInv
<1>1. CASE attempts' = attempts
  BY <1>1 DEF TypeOK, CountsAreFinite, LimitsHold, Admitted, Submitted
<1>2. CASE attempts' # attempts
  <2>1. /\ AttemptReply(id, n, deadline) = "ok"
        /\ attempts' = [attempts EXCEPT ![id] = n] /\ attempts[id] # n
    BY <1>2 DEF AdmitProviderAttempt, TypeOK
  <2>2. /\ attempts[id] = 0 /\ ~ (Cardinality(Admitted) >= ProviderAttempts)
        /\ ~ (Cardinality(Submitted) + n > SubmittedQuestions)
    BY <2>1 DEF AttemptReply
  <2>3. /\ Admitted' = Admitted \cup {id} /\ id \notin Admitted
        /\ Submitted' = Submitted \cup ({id} \X (1..n))
        /\ Submitted \cap ({id} \X (1..n)) = {}
    BY <2>1, <2>2, NewAttempt
  <2>4. Cardinality(Admitted) \in Nat /\ Cardinality(Submitted) \in Nat
    BY FS_CardinalityType DEF CountsAreFinite
  <2>5. IsFiniteSet(Admitted') /\ Cardinality(Admitted') = Cardinality(Admitted) + 1
    BY <2>3, FS_AddElement DEF CountsAreFinite
  <2> DEFINE Q == {id} \X (1..n)
  <2>6. IsFiniteSet(Q) /\ Cardinality(Q) = n
    <3>1. n \in Nat
      OBVIOUS
    <3> QED BY <3>1, QuestionsOfAttempt
  <2>7. IsFiniteSet(Submitted') /\ Cardinality(Submitted') = Cardinality(Submitted) + n
    <3>1. Submitted' = Submitted \cup Q /\ Submitted \cap Q = {}
      BY <2>3
    <3> HIDE DEF Q
    <3>2. /\ IsFiniteSet(Submitted \cup Q)
          /\ Cardinality(Submitted \cup Q) =
               Cardinality(Submitted) + Cardinality(Q) - Cardinality(Submitted \cap Q)
      BY <2>6, FS_Union DEF CountsAreFinite
    <3>3. Cardinality(Submitted \cap Q) = 0
      BY <3>1, FS_EmptySet
    <3>4. Cardinality(Submitted \cup Q) = Cardinality(Submitted) + n
      BY <2>4, <2>6, <3>2, <3>3
    <3> QED BY <3>1, <3>2, <3>4
  <2>8. attempts' \in [AttemptIds -> 0..MaxQuestions]
    BY <2>1 DEF TypeOK
  <2>9. \A j \in Admitted : attempts'[j] = attempts[j]
    BY <2>1, <2>3 DEF TypeOK, Admitted
  <2> QED BY <2>2, <2>4, <2>5, <2>7, <2>8, <2>9, LimitsAssumption
<1> QED BY <1>1, <1>2

\* Admitting a counted call of any class keeps every class within its limit.
LEMMA NamedKeeps ==
  ASSUME IInv, NEW class \in Classes, NEW id \in CallIds, NEW deadline,
         AdmitNamed(class, id, deadline)
  PROVE  /\ calls' \in [Classes -> SUBSET CallIds]
         /\ \A c \in Classes : /\ IsFiniteSet(calls'[c]) /\ calls[c] \subseteq calls'[c]
                               /\ Cardinality(calls'[c]) <= ClassLimit[c]
<1> USE DEF IInv
<1>1. CASE calls' = calls
  BY <1>1 DEF TypeOK, CountsAreFinite, LimitsHold
<1>2. CASE calls' # calls
  <2>1. /\ calls' = [calls EXCEPT ![class] = calls[class] \cup {id}]
        /\ CallReply(class, id, deadline) = "ok" /\ id \notin calls[class]
    BY <1>2 DEF AdmitNamed, TypeOK
  <2>2. Cardinality(calls[class]) \in Nat /\ IsFiniteSet(calls[class])
    BY FS_CardinalityType DEF CountsAreFinite
  <2>3. Cardinality(calls[class]) < ClassLimit[class]
    BY <2>1, <2>2, LimitsAssumption DEF CallReply
  <2>4. /\ IsFiniteSet(calls'[class])
        /\ Cardinality(calls'[class]) = Cardinality(calls[class]) + 1
    BY <2>1, <2>2, FS_AddElement DEF TypeOK
  <2>5. \A c \in Classes \ {class} : calls'[c] = calls[c]
    BY <2>1 DEF TypeOK
  <2>6. calls' \in [Classes -> SUBSET CallIds]
    BY <2>1 DEF TypeOK
  <2>7. calls[class] \subseteq calls'[class]
    BY <2>1 DEF TypeOK
  <2>8. Cardinality(calls'[class]) <= ClassLimit[class]
    BY <2>2, <2>3, <2>4, LimitsAssumption
  <2> QED BY <2>4, <2>5, <2>6, <2>7, <2>8 DEF CountsAreFinite, LimitsHold
<1> QED BY <1>1, <1>2

\* Admitting a child run keeps their number and their depth within the limits.
LEMMA ChildKeeps ==
  ASSUME IInv, NEW run \in ChildRuns, NEW depth \in 1..MaxDepth, NEW deadline,
         AdmitChildRun(run, depth, deadline)
  PROVE  /\ children' \in [ChildRuns -> 0..MaxDepth]
         /\ IsFiniteSet(AdmittedChildren') /\ Cardinality(AdmittedChildren') <= ChildRunLimit
         /\ \A r \in ChildRuns : children'[r] <= ChildDepth
         /\ \A r \in AdmittedChildren : children'[r] = children[r]
<1> USE DEF IInv
<1>1. CASE children' = children
  BY <1>1 DEF TypeOK, CountsAreFinite, LimitsHold, AdmittedChildren
<1>2. CASE children' # children
  <2>1. /\ children' = [children EXCEPT ![run] = depth] /\ children[run] # depth
        /\ ChildReply(run, depth, deadline) = "ok"
    BY <1>2 DEF AdmitChildRun, TypeOK
  <2>2. /\ children[run] = 0 /\ ~ (depth > ChildDepth)
        /\ ~ (Cardinality(AdmittedChildren) >= ChildRunLimit)
    BY <2>1 DEF ChildReply
  <2>3. /\ children'[run] = depth /\ \A r \in ChildRuns \ {run} : children'[r] = children[r]
        /\ children' \in [ChildRuns -> 0..MaxDepth]
    BY <2>1, BoundsAssumption DEF TypeOK
  <2>4. AdmittedChildren' = AdmittedChildren \cup {run} /\ run \notin AdmittedChildren
    BY <2>2, <2>3 DEF AdmittedChildren
  <2>5. /\ Cardinality(AdmittedChildren) \in Nat /\ IsFiniteSet(AdmittedChildren')
        /\ Cardinality(AdmittedChildren') = Cardinality(AdmittedChildren) + 1
    BY <2>4, FS_AddElement, FS_CardinalityType DEF CountsAreFinite
  <2>6. Cardinality(AdmittedChildren') <= ChildRunLimit
    BY <2>2, <2>5, LimitsAssumption
  <2>7. \A r \in ChildRuns : children'[r] <= ChildDepth
    BY <2>2, <2>3, LimitsAssumption DEF LimitsHold
  <2>8. \A r \in AdmittedChildren : children'[r] = children[r]
    BY <2>3, <2>4 DEF AdmittedChildren
  <2> QED BY <2>3, <2>5, <2>6, <2>7, <2>8
<1> QED BY <1>1, <1>2

\* A slot is taken only while one is free, and left to be free again.
LEMMA OperationKeeps ==
  ASSUME IInv, NEW id \in Operations,
         (\E deadline \in Deadlines : EnterOperation(id, deadline)) \/ LeaveOperation(id)
  PROVE  /\ active' \subseteq operations' /\ operations' \subseteq Operations
         /\ IsFiniteSet(active') /\ Cardinality(active') <= ConcurrentOperations
         /\ operations \subseteq operations' /\ active' \cap operations \subseteq active
<1> USE DEF IInv
<1>1. Cardinality(active) \in Nat
  BY FS_CardinalityType DEF CountsAreFinite
<1>2. CASE LeaveOperation(id)
  <2>1. IsFiniteSet(active') /\ Cardinality(active') = Cardinality(active) - 1
    BY <1>2, FS_RemoveElement DEF LeaveOperation, CountsAreFinite
  <2>2. Cardinality(active') <= ConcurrentOperations
    BY <1>1, <2>1, LimitsAssumption DEF LimitsHold
  <2> QED BY <1>2, <2>1, <2>2 DEF LeaveOperation, TypeOK
<1>3. ASSUME NEW deadline \in Deadlines, EnterOperation(id, deadline)
      PROVE  /\ active' \subseteq operations' /\ operations' \subseteq Operations
             /\ IsFiniteSet(active') /\ Cardinality(active') <= ConcurrentOperations
             /\ operations \subseteq operations' /\ active' \cap operations \subseteq active
  <2>1. CASE UNCHANGED <<active, operations>>
    BY <2>1 DEF TypeOK, CountsAreFinite, LimitsHold
  <2>2. CASE ~ UNCHANGED <<active, operations>>
    <3>1. /\ active' = active \cup {id} /\ operations' = operations \cup {id}
          /\ OperationReply(id, deadline) = "ok"
      BY <1>3, <2>2 DEF EnterOperation
    <3>2. id \notin operations /\ ~ (Cardinality(active) >= ConcurrentOperations)
      BY <3>1 DEF OperationReply
    <3>3. IsFiniteSet(active') /\ Cardinality(active') = Cardinality(active) + 1
      BY <3>1, <3>2, FS_AddElement DEF CountsAreFinite, TypeOK
    <3>4. Cardinality(active') <= ConcurrentOperations
      BY <1>1, <3>2, <3>3, LimitsAssumption
    <3> QED BY <3>1, <3>2, <3>3, <3>4 DEF TypeOK
  <2> QED BY <2>1, <2>2
<1> QED BY <1>2, <1>3

\* Recording never changes a value that is there, so a release keeps matching.
LEMMA MeasurementKeeps ==
  ASSUME IInv, NEW id \in Operations,
         \/ \E kind \in Kinds, m \in Measurements : Record(id, kind, m)
         \/ ReleaseReservation(id)
  PROVE  /\ measured' \in [Operations \X Kinds -> Measurements \cup {NoMeasurement}]
         /\ ReleasesMatch'
         /\ \A m \in Operations \X Kinds :
              measured[m] # NoMeasurement => measured'[m] = measured[m]
         /\ reply' \in Replies
<1> USE DEF IInv, TypeOK, ReleasesMatch, Kinds, Replies
<1>1. ASSUME NEW kind \in Kinds, NEW m \in Measurements, Record(id, kind, m)
      PROVE  /\ measured' \in [Operations \X Kinds -> Measurements \cup {NoMeasurement}]
             /\ ReleasesMatch'
             /\ \A k \in Operations \X Kinds :
                  measured[k] # NoMeasurement => measured'[k] = measured[k]
             /\ reply' \in Replies
  <2>1. CASE UNCHANGED measured
    BY <1>1, <2>1 DEF Record
  <2>2. CASE /\ measured[<<id, kind>>] \in {NoMeasurement, m} /\ kind # "released"
             /\ measured' = [measured EXCEPT ![<<id, kind>>] = m]
    <3>1. measured' \in [Operations \X Kinds -> Measurements \cup {NoMeasurement}]
      BY <2>2
    <3>2. \A k \in Operations \X Kinds : measured[k] # NoMeasurement => measured'[k] = measured[k]
      BY <2>2
    <3>3. \A other \in Operations : measured'[<<other, "released">>] = measured[<<other, "released">>]
      BY <2>2
    <3>4. \A other \in Operations :
            measured[<<other, "reserved">>] # NoMeasurement =>
              measured'[<<other, "reserved">>] = measured[<<other, "reserved">>]
      BY <3>2
    <3>5. ReleasesMatch'
      BY <3>3, <3>4, MeasurementAssumption
    <3> QED BY <1>1, <3>1, <3>2, <3>5 DEF Record
  <2> QED BY <1>1, <2>1, <2>2 DEF Record
<1>2. CASE ReleaseReservation(id)
  <2>1. measured' \in [Operations \X Kinds -> Measurements \cup {NoMeasurement}]
    BY <1>2 DEF ReleaseReservation
  <2>2. \A k \in Operations \X Kinds : measured[k] # NoMeasurement => measured'[k] = measured[k]
    BY <1>2 DEF ReleaseReservation
  <2>3. ReleasesMatch'
    BY <1>2, ZenonT(60) DEF ReleaseReservation
  <2> QED BY <1>2, <2>1, <2>2, <2>3 DEF ReleaseReservation
<1> QED BY <1>1, <1>2

\* An unused ledger is within every limit.
LEMMA InitIsIInv == Init => IInv
<1> SUFFICES ASSUME Init PROVE IInv
  OBVIOUS
<1>1. TypeOK
  BY BoundsAssumption DEF Init, TypeOK, Replies
<1>2. /\ active = {} /\ Admitted = {} /\ Submitted = {} /\ AdmittedChildren = {}
      /\ \A class \in Classes : calls[class] = {}
  BY DEF Init, Admitted, Submitted, AdmittedChildren
<1>3. CountsAreFinite
  BY <1>2, FS_EmptySet DEF CountsAreFinite
<1>4. LimitsHold
  <2>1. \A run \in ChildRuns : children[run] <= ChildDepth
    BY LimitsAssumption DEF Init
  <2> QED BY <1>2, <2>1, FS_EmptySet, LimitsAssumption DEF LimitsHold
<1>5. ReleasesMatch
  BY DEF Init, ReleasesMatch, Kinds
<1> QED BY <1>1, <1>3, <1>4, <1>5 DEF IInv

\* What identities keep in one step: the step of IdentitiesAreFinal.
Final ==
  /\ \A id \in operations : id \in operations' /\ (id \in active' => id \in active)
  /\ \A id \in Admitted : attempts'[id] = attempts[id]
  /\ \A class \in Classes : calls[class] \subseteq calls'[class]
  /\ \A run \in AdmittedChildren : children'[run] = children[run]
  /\ \A m \in Operations \X Kinds :
       measured[m] # NoMeasurement => measured'[m] = measured[m]

\* Every call keeps IInv and what identities were given, one case per method.
LEMMA StepKeeps ==
  ASSUME IInv, [Next]_vars
  PROVE  IInv' /\ Final
<1> USE DEF IInv, CountsAreFinite, Final
<1>1. ASSUME NEW id \in Operations,
             (\E deadline \in Deadlines : EnterOperation(id, deadline)) \/ LeaveOperation(id)
      PROVE  IInv' /\ Final
  <2>1. /\ active' \subseteq operations' /\ operations' \subseteq Operations
        /\ IsFiniteSet(active') /\ Cardinality(active') <= ConcurrentOperations
        /\ operations \subseteq operations' /\ active' \cap operations \subseteq active
    BY <1>1, OperationKeeps
  <2>2. UNCHANGED <<attempts, calls, children, measured, now>> /\ reply' \in Replies
    BY <1>1 DEF EnterOperation, LeaveOperation, OperationReply, TypeOK, Replies
  <2> QED BY <2>1, <2>2
          DEF TypeOK, LimitsHold, ReleasesMatch, Admitted, Submitted, AdmittedChildren
<1>2. ASSUME NEW id \in AttemptIds, NEW n \in 1..MaxQuestions, NEW deadline \in Deadlines,
             AdmitProviderAttempt(id, n, deadline)
      PROVE  IInv' /\ Final
  <2>1. /\ attempts' \in [AttemptIds -> 0..MaxQuestions]
        /\ IsFiniteSet(Admitted') /\ Cardinality(Admitted') <= ProviderAttempts
        /\ IsFiniteSet(Submitted') /\ Cardinality(Submitted') <= SubmittedQuestions
        /\ \A j \in Admitted : attempts'[j] = attempts[j]
    BY <1>2, AttemptKeeps
  <2>2. /\ UNCHANGED <<active, operations, calls, children, measured, now>>
        /\ reply' \in Replies
    BY <1>2 DEF AdmitProviderAttempt, AttemptReply, Replies
  <2> QED BY <2>1, <2>2 DEF TypeOK, LimitsHold, ReleasesMatch, AdmittedChildren
<1>3. ASSUME NEW class \in Classes, NEW id \in CallIds, NEW deadline \in Deadlines,
             AdmitNamed(class, id, deadline)
      PROVE  IInv' /\ Final
  <2>1. /\ calls' \in [Classes -> SUBSET CallIds]
        /\ \A c \in Classes : /\ IsFiniteSet(calls'[c]) /\ calls[c] \subseteq calls'[c]
                              /\ Cardinality(calls'[c]) <= ClassLimit[c]
    BY <1>3, NamedKeeps
  <2>2. /\ UNCHANGED <<active, operations, attempts, children, measured, now>>
        /\ reply' \in Replies
    BY <1>3 DEF AdmitNamed, CallReply, Replies
  <2> QED BY <2>1, <2>2
          DEF TypeOK, LimitsHold, ReleasesMatch, Admitted, Submitted, AdmittedChildren
<1>4. ASSUME NEW run \in ChildRuns, NEW depth \in 1..MaxDepth, NEW deadline \in Deadlines,
             AdmitChildRun(run, depth, deadline)
      PROVE  IInv' /\ Final
  <2>1. /\ children' \in [ChildRuns -> 0..MaxDepth]
        /\ IsFiniteSet(AdmittedChildren') /\ Cardinality(AdmittedChildren') <= ChildRunLimit
        /\ \A r \in ChildRuns : children'[r] <= ChildDepth
        /\ \A r \in AdmittedChildren : children'[r] = children[r]
    BY <1>4, ChildKeeps
  <2>2. /\ UNCHANGED <<active, operations, attempts, calls, measured, now>>
        /\ reply' \in Replies
    BY <1>4 DEF AdmitChildRun, ChildReply, Replies
  <2> QED BY <2>1, <2>2 DEF TypeOK, LimitsHold, ReleasesMatch, Admitted, Submitted
<1>5. ASSUME NEW id \in Operations,
             \/ \E kind \in Kinds, m \in Measurements : Record(id, kind, m)
             \/ ReleaseReservation(id)
      PROVE  IInv' /\ Final
  <2>1. /\ measured' \in [Operations \X Kinds -> Measurements \cup {NoMeasurement}]
        /\ ReleasesMatch'
        /\ \A m \in Operations \X Kinds :
             measured[m] # NoMeasurement => measured'[m] = measured[m]
        /\ reply' \in Replies
    BY <1>5, MeasurementKeeps
  <2>2. UNCHANGED <<active, operations, attempts, calls, children, now>>
    BY <1>5 DEF Record, ReleaseReservation
  <2> QED BY <2>1, <2>2
          DEF TypeOK, LimitsHold, Admitted, Submitted, AdmittedChildren
<1>6. CASE Tick \/ UNCHANGED vars
  <2>1. UNCHANGED <<active, operations, attempts, calls, children, measured, reply>>
    BY <1>6 DEF Tick, vars
  <2>2. now' \in 0..MaxTime
    BY <1>6, BoundsAssumption DEF Tick, vars, TypeOK
  <2> QED BY <2>1, <2>2
          DEF TypeOK, LimitsHold, ReleasesMatch, Admitted, Submitted, AdmittedChildren
<1> QED BY <1>1, <1>2, <1>3, <1>4, <1>5, <1>6 DEF Next, Call

\* The inductive invariant of the ledger holds whatever its callers do.
THEOREM Invariance == Spec => []IInv
<1>1. IInv /\ [Next]_vars => IInv'
  BY StepKeeps
<1> QED BY InitIsIInv, <1>1, PTL DEF Spec

\* Every variable of the ledger keeps its type; an active operation is a known one.
THEOREM TypeCorrect == Spec => []TypeOK
<1>1. IInv => TypeOK
  BY DEF IInv
<1> QED BY Invariance, <1>1, PTL

\* For any limits, ids and callers, no limit of RunLimits is ever exceeded.
THEOREM LimitsAreHeld == Spec => []LimitsHold
<1>1. IInv => LimitsHold
  BY DEF IInv
<1> QED BY Invariance, <1>1, PTL

\* release_reservation releases the very amount reserve_usage reserved.
THEOREM ReleasesAreWorthReserved == Spec => []ReleasesMatch
<1>1. IInv => ReleasesMatch
  BY DEF IInv
<1> QED BY Invariance, <1>1, PTL

\* No call ever takes back or changes what another was granted or recorded.
THEOREM IdentitiesFinal == Spec => IdentitiesAreFinal
<1>1. IInv /\ [Next]_vars => [Final]_vars
  BY StepKeeps
<1>2. Spec => [][Final]_vars
  BY Invariance, <1>1, PTL DEF Spec
<1> QED BY <1>2 DEF IdentitiesAreFinal, Final

-----------------------------------------------------------------------------
(* The stores, by their records. *)

Links(r) == r.dependencies \cup r.supersedes \cup r.conflicts

Content ==
  [scope : {RunScope}, completed : BOOLEAN, dependencies : SUBSET Ids,
   supersedes : SUBSET Ids, conflicts : SUBSET Ids, expires : 0..(MaxTime + 1), position : Nat]

\* What an invalidation reaches from id, in a store with these records.
Reached(known, records, id) ==
  {j \in known : \A C \in SUBSET known :
     (id \in C /\ \A k \in C : {b \in DOMAIN records : k \in records[b].dependencies} \subseteq C)
        => j \in C}

\* Nothing a store is, or knows, depends on the other stores.
LEMMA StoreIs ==
  ASSUME NEW s, NEW r
  PROVE  /\ Store(s)!References(r) = Links(r)
         /\ Store(s)!Record = Content
BY DEF Store!References, Links, Store!Record, Content, Store!Never

\* What StaleWith calls affected is what the invalidation reaches.
LEMMA AffectedIs ==
  ASSUME NEW s, NEW known, NEW records, NEW id, known \subseteq DOMAIN records
  PROVE  Store(s)!Affected(known, IndexOf(records), id) = Reached(known, records, id)
<1> DEFINE index == IndexOf(records)
<1>1. \A k \in known : index[k] = {b \in DOMAIN records : k \in records[b].dependencies}
  BY DEF IndexOf
<1>2. ASSUME NEW C \in SUBSET known
      PROVE  (\A k \in C : index[k] \subseteq C) <=>
             (\A k \in C : {b \in DOMAIN records : k \in records[b].dependencies} \subseteq C)
  BY <1>1
<1> HIDE DEF index
<1>3. Store(s)!Affected(known, index, id) = Reached(known, records, id)
  BY <1>2 DEF Store!Affected, Reached
<1> QED BY <1>3 DEF index

\* What an invalidation reaches it leaves along every link to a dependent.
LEMMA ReachedIsClosed ==
  ASSUME NEW known, NEW records, NEW id \in known, known = DOMAIN records
  PROVE  /\ id \in Reached(known, records, id)
         /\ \A k \in Reached(known, records, id), b \in known :
              k \in records[b].dependencies => b \in Reached(known, records, id)
<1>1. id \in Reached(known, records, id)
  BY DEF Reached
<1>2. ASSUME NEW k \in Reached(known, records, id), NEW b \in known, k \in records[b].dependencies
      PROVE  b \in Reached(known, records, id)
  <2>1. SUFFICES ASSUME NEW C \in SUBSET known, id \in C,
                        \A j \in C : {x \in DOMAIN records : j \in records[x].dependencies} \subseteq C
                 PROVE  b \in C
    BY <1>2 DEF Reached
  <2>2. k \in C
    BY <2>1 DEF Reached
  <2> QED BY <1>2, <2>1, <2>2
<1> QED BY <1>1, <1>2

\* It reaches nothing that some closed set with its origin leaves out.
LEMMA ReachedIsLeast ==
  ASSUME NEW known, NEW records, NEW id \in known, known = DOMAIN records,
         NEW C \in SUBSET known, id \in C,
         \A k \in C, b \in known : k \in records[b].dependencies => b \in C
  PROVE  Reached(known, records, id) \subseteq C
<1>1. \A k \in C : {b \in DOMAIN records : k \in records[b].dependencies} \subseteq C
  OBVIOUS
<1> QED BY <1>1 DEF Reached

\* The store as it was when a record had been added.
LEMMA RecordsUntilAre ==
  ASSUME NEW s, NEW id
  PROVE  /\ DOMAIN RecordsUntil(s, id) = Until(s, id)
         /\ \A x \in Until(s, id) : RecordsUntil(s, id)[x] = s.records[x]
         /\ Until(s, id) \subseteq Known(s)
BY DEF RecordsUntil, Until

\* What adding a record invalidated, in these terms.
LEMMA ReplacedByIs ==
  ASSUME NEW s, NEW id
  PROVE  ReplacedBy(s, id) =
           {x \in UNION {Reached(Until(s, id), RecordsUntil(s, id), old) :
                           old \in s.records[id].supersedes} : ~ s.records[x].completed}
<1>1. \A old : Store(s)!Affected(Until(s, id), IndexOf(RecordsUntil(s, id)), old)
                 = Reached(Until(s, id), RecordsUntil(s, id), old)
  BY AffectedIs, RecordsUntilAre
<1> QED BY <1>1 DEF ReplacedBy

\* A store that is well kept, with what its definition takes from EvidenceStore
\* written out.
LEMMA WellKeptIs ==
  ASSUME NEW s
  PROVE  WellKept(s) <=>
           /\ s = [records |-> s.records, stale |-> s.stale]
           /\ Known(s) \subseteq Ids /\ IsFiniteSet(Known(s))
           /\ s.records \in [Known(s) -> Content]
           /\ \A id \in Known(s) : s.records[id].position < Cardinality(Known(s))
           /\ \A id, x \in Known(s) : s.records[id].position = s.records[x].position => id = x
           /\ \A id \in Known(s) : \A ref \in Links(s.records[id]) :
                ref \in Known(s) /\ s.records[ref].position < s.records[id].position
           /\ Replaced(s) \subseteq s.stale /\ s.stale \subseteq Known(s)
BY StoreIs DEF WellKept

\* A later state of a store: it may have more records, ranked after those it had.
Grows(s, t) ==
  /\ Known(s) \subseteq Known(t) /\ s.stale \subseteq t.stale
  /\ \A x \in Known(s) : t.records[x] = s.records[x]
  /\ \A x \in Known(s), y \in Known(t) \ Known(s) : s.records[x].position < t.records[y].position

\* A store that has grown twice has grown.
LEMMA GrowsInTurn ==
  ASSUME NEW s, NEW t, NEW u, Grows(s, t), Grows(t, u)
  PROVE  Grows(s, u)
BY DEF Grows

\* What a record replaced is decided when it is added.
LEMMA ReplacedIsKept ==
  ASSUME NEW s, NEW t, WellKept(s), Grows(s, t), NEW id \in Known(s),
         \A x \in Known(t) : t.records[x].position \in Nat
  PROVE  ReplacedBy(t, id) = ReplacedBy(s, id)
<1>1. \A x \in Known(s) : s.records[x].position \in Nat
  BY WellKeptIs DEF Content
<1>3. Until(t, id) = Until(s, id)
  BY <1>1 DEF Until, Grows
<1>4. \A x \in Until(s, id) : t.records[x] = s.records[x]
  BY DEF Until, Grows
<1>5. RecordsUntil(t, id) = RecordsUntil(s, id)
  BY <1>3, <1>4 DEF RecordsUntil
<1>6. t.records[id] = s.records[id]
  BY DEF Grows
<1>7. \A x \in Until(s, id) : t.records[x].completed = s.records[x].completed
  BY <1>4
<1>8. \A old : Reached(Until(s, id), RecordsUntil(s, id), old) \subseteq Until(s, id)
  BY DEF Reached
<1>9. UNION {Reached(Until(s, id), RecordsUntil(s, id), old) : old \in s.records[id].supersedes}
        \subseteq Until(s, id)
  BY <1>8
<1> QED BY <1>3, <1>5, <1>6, <1>7, <1>9, ReplacedByIs, ZenonT(60)

\* The store a child has before it begins.
LEMMA EmptyIsWellKept == WellKept(EmptyStore) /\ Known(EmptyStore) = {}
<1>1. Known(EmptyStore) = {} /\ EmptyStore.stale = {}
  BY DEF EmptyStore, Known
<1>2. Replaced(EmptyStore) = {}
  BY <1>1 DEF Replaced
<1>3. EmptyStore.records \in [Known(EmptyStore) -> Content]
  BY DEF EmptyStore, Known
<1>4. EmptyStore = [records |-> EmptyStore.records, stale |-> EmptyStore.stale]
  BY DEF EmptyStore
<1>5. IsFiniteSet(Known(EmptyStore))
  BY <1>1, FS_EmptySet
<1> QED BY <1>1, <1>2, <1>3, <1>4, <1>5, WellKeptIs

\* What is the same in two records, whatever their places in their stores.
Same(x, y) ==
  /\ x.completed = y.completed /\ x.expires = y.expires /\ x.dependencies = y.dependencies
  /\ x.supersedes = y.supersedes /\ x.conflicts = y.conflicts

\* Adding a record (EvidenceStore.add) ranks it last and invalidates what derives
\* from all it supersedes.
LEMMA AddedIs ==
  ASSUME NEW s, WellKept(s), NEW id \in Ids \ Known(s), NEW r \in Content,
         Links(r) \subseteq Known(s)
  PROVE  LET t == Added(s, id, r) IN
         /\ WellKept(t) /\ Grows(s, t)
         /\ Known(t) = Known(s) \cup {id}
         /\ Same(t.records[id], r) /\ t.records[id].position = Cardinality(Known(s))
         /\ t.stale \subseteq s.stale \cup Replaced(t)
         /\ Replaced(s) \subseteq Replaced(t)
<1> DEFINE t == Added(s, id, r)
           new == [r EXCEPT !.position = Cardinality(Known(s))]
<1>1. /\ t.records = RecordsWith(s, id, r)
      /\ t.stale = Store(s)!StaleWith(RecordsWith(s, id, r), IndexOf(RecordsWith(s, id, r)), r.supersedes)
      /\ t = [records |-> t.records, stale |-> t.stale]
  BY DEF Added
<1>2. Known(t) = Known(s) \cup {id}
  BY <1>1 DEF Known, RecordsWith
<1>3. t.records[id] = new /\ \A x \in Known(s) : t.records[x] = s.records[x]
  BY <1>1 DEF RecordsWith
<1>4. Cardinality(Known(s)) \in Nat
  BY WellKeptIs, FS_CardinalityType
<1>5. new \in Content /\ Same(new, r) /\ new.position = Cardinality(Known(s))
      /\ Links(new) = Links(r) /\ new.supersedes = r.supersedes
  BY <1>4 DEF Content, Same, Links
<1> HIDE DEF new
<1>6. \A x \in Known(s) : s.records[x] \in Content /\ s.records[x].position \in Nat
                          /\ s.records[x].position < Cardinality(Known(s))
  BY WellKeptIs DEF Content
<1>7. t.records \in [Known(t) -> Content]
  <2>1. t.records = [x \in Known(t) |-> t.records[x]]
    BY <1>1, <1>2 DEF RecordsWith, Known
  <2>2. \A x \in Known(t) : t.records[x] \in Content
    BY <1>2, <1>3, <1>5, <1>6
  <2> HIDE DEF t
  <2> QED BY <2>1, <2>2
<1>8. Until(t, id) = Known(t)
  BY <1>2, <1>3, <1>4, <1>5, <1>6 DEF Until
<1>9. RecordsUntil(t, id) = t.records
  BY <1>7, <1>8 DEF RecordsUntil
<1>10. t.stale = s.stale \cup ReplacedBy(t, id)
  <2>1. \A old : Store(s)!Affected(Known(t), IndexOf(t.records), old) = Reached(Known(t), t.records, old)
    BY AffectedIs DEF Known
  <2>2. DOMAIN t.records = Known(t)
    BY DEF Known
  <2>3. t.stale = s.stale \cup {j \in UNION {Store(s)!Affected(Known(t), IndexOf(t.records), old) :
                                            old \in r.supersedes} : ~ t.records[j].completed}
    BY <1>1, <2>2 DEF Store!StaleWith
  <2> HIDE DEF t
  <2>4. ReplacedBy(t, id) = {x \in UNION {Reached(Known(t), t.records, old) : old \in r.supersedes} :
                               ~ t.records[x].completed}
    BY <1>3, <1>5, <1>8, <1>9, ReplacedByIs
  <2> QED BY <2>1, <2>3, <2>4
<1> HIDE DEF t
<1>11. Grows(s, t)
  BY <1>2, <1>3, <1>5, <1>6, <1>10 DEF Grows
<1>12. IsFiniteSet(Known(t)) /\ Cardinality(Known(t)) = Cardinality(Known(s)) + 1
  BY <1>2, WellKeptIs, FS_AddElement
<1>13. \A x \in Known(t) : \A ref \in Links(t.records[x]) :
         ref \in Known(t) /\ t.records[ref].position < t.records[x].position
  <2>1. ASSUME NEW x \in Known(s), NEW ref \in Links(t.records[x])
        PROVE  ref \in Known(t) /\ t.records[ref].position < t.records[x].position
    BY <1>2, <1>3, <2>1, WellKeptIs
  <2>2. ASSUME NEW ref \in Links(t.records[id])
        PROVE  ref \in Known(t) /\ t.records[ref].position < t.records[id].position
    BY <1>2, <1>3, <1>5, <1>6, <2>2
  <2> QED BY <1>2, <2>1, <2>2
<1>14. \A x \in Known(s) : ReplacedBy(t, x) = ReplacedBy(s, x)
  <2>1. \A x \in Known(t) : t.records[x].position \in Nat
    BY <1>7 DEF Content
  <2> QED BY <1>11, <2>1, ReplacedIsKept
<1>15. Replaced(t) = Replaced(s) \cup ReplacedBy(t, id)
  BY <1>2, <1>14 DEF Replaced
<1>16. Replaced(t) \subseteq t.stale
  BY <1>10, <1>15, WellKeptIs
<1>17. t.stale \subseteq Known(t)
  <2>1. ReplacedBy(t, id) \subseteq Known(t)
    BY <1>8, ReplacedByIs DEF Reached
  <2> QED BY <1>2, <1>10, <2>1, WellKeptIs
<1>18. \A x, y \in Known(t) : t.records[x].position = t.records[y].position => x = y
  <2>1. \A x, y \in Known(s) : s.records[x].position = s.records[y].position => x = y
    BY WellKeptIs
  <2> QED BY <1>2, <1>3, <1>5, <1>6, <2>1
<1>19. \A x \in Known(t) : t.records[x].position < Cardinality(Known(t))
  BY <1>2, <1>3, <1>4, <1>5, <1>6, <1>12
<1>20. Known(t) \subseteq Ids
  BY <1>2, WellKeptIs
<1>21. WellKept(t)
  BY <1>1, <1>7, <1>12, <1>13, <1>16, <1>17, <1>18, <1>19, <1>20, WellKeptIs
<1> QED
  <2>1. Same(t.records[id], r) /\ t.records[id].position = Cardinality(Known(s))
    BY <1>3, <1>5
  <2>2. t.stale \subseteq s.stale \cup Replaced(t) /\ Replaced(s) \subseteq Replaced(t)
    BY <1>10, <1>15
  <2> QED BY <1>2, <1>11, <1>21, <2>1, <2>2 DEF t

\* The records of a set under the names f gives them.
Image(f, ids) == {f[id] : id \in ids}

\* All s has is in t, linked to the same records and in the same order.
Copied(s, t, f) ==
  /\ \A x \in Known(s) :
       /\ f[x] \in Known(t)
       /\ t.records[f[x]].completed = s.records[x].completed
       /\ t.records[f[x]].expires = s.records[x].expires
       /\ t.records[f[x]].dependencies = Image(f, s.records[x].dependencies)
       /\ t.records[f[x]].supersedes = Image(f, s.records[x].supersedes)
  /\ \A x, y \in Known(s) : s.records[x].position <= s.records[y].position =>
                            t.records[f[x]].position <= t.records[f[y]].position

\* What was replaced in a store is replaced in a copy of it.
LEMMA CopyIsReplaced ==
  ASSUME NEW s, NEW t, NEW f, WellKept(s), WellKept(t), Copied(s, t, f), NEW x \in Replaced(s)
  PROVE  f[x] \in t.stale
<1>1. PICK id \in Known(s) : x \in ReplacedBy(s, id)
  BY DEF Replaced
<1> DEFINE S == Until(s, id)
           T == Until(t, f[id])
           SR == RecordsUntil(s, id)
           TR == RecordsUntil(t, f[id])
<1>2. PICK old \in s.records[id].supersedes :
        x \in Reached(S, SR, old) /\ ~ s.records[x].completed
  BY <1>1, ReplacedByIs
<1>3. /\ S = DOMAIN SR /\ T = DOMAIN TR /\ S \subseteq Known(s) /\ T \subseteq Known(t)
      /\ \A y \in S : SR[y] = s.records[y]
      /\ \A y \in T : TR[y] = t.records[y]
  BY RecordsUntilAre
<1>4. \A y \in S : f[y] \in T
  BY DEF Until, Copied
<1>5. old \in S
  <2>1. old \in Known(s) /\ s.records[old].position < s.records[id].position
    BY WellKeptIs DEF Links
  <2>2. s.records[old].position \in Nat /\ s.records[id].position \in Nat
    BY <2>1, WellKeptIs DEF Content
  <2> QED BY <2>1, <2>2 DEF Until
<1>6. f[old] \in T /\ f[old] \in t.records[f[id]].supersedes
  BY <1>4, <1>5 DEF Copied, Image
<1> DEFINE A == Reached(T, TR, f[old])
           C == {y \in S : f[y] \in A}
<1> HIDE DEF S, T, SR, TR
<1>7. f[old] \in A /\ \A k \in A, b \in T : k \in TR[b].dependencies => b \in A
  BY <1>3, <1>6, ReachedIsClosed
<1>8. \A k \in C, b \in S : k \in SR[b].dependencies => b \in C
  <2> SUFFICES ASSUME NEW k \in C, NEW b \in S, k \in SR[b].dependencies PROVE f[b] \in A
    OBVIOUS
  <2>1. f[k] \in TR[f[b]].dependencies
    BY <1>3, <1>4 DEF Copied, Image
  <2> QED BY <1>4, <1>7, <2>1
<1> HIDE DEF A
<1>9. Reached(S, SR, old) \subseteq C
  <2> HIDE DEF C
  <2>1. C \in SUBSET S /\ old \in C
    BY <1>5, <1>7 DEF C
  <2> QED BY <1>3, <1>5, <1>8, <2>1, ReachedIsLeast
<1>10. f[x] \in A /\ x \in Known(s)
  BY <1>2, <1>3, <1>9
<1>11. ~ t.records[f[x]].completed
  BY <1>2, <1>10 DEF Copied
<1>12. f[x] \in ReplacedBy(t, f[id])
  BY <1>6, <1>10, <1>11, ReplacedByIs DEF A, T, TR
<1>13. f[id] \in Known(t)
  BY DEF Copied
<1> QED BY <1>12, <1>13, WellKeptIs DEF Replaced

-----------------------------------------------------------------------------
(* Currency: a record is current when a set of records vouches for it. *)

Vouched(s, S) ==
  \A x \in S :
    \/ s.records[x].completed
    \/ /\ x \notin s.stale /\ ~ (now >= s.records[x].expires)
       /\ s.records[x].dependencies \subseteq S

Supported(s, id) == \E S \in SUBSET Known(s) : id \in S /\ Vouched(s, S)

\* One unfolding of is_current.
Unfolded(s, f) ==
  [id \in Known(s) |->
     \/ s.records[id].completed
     \/ /\ id \notin s.stale /\ ~ (now >= s.records[id].expires)
        /\ \A d \in s.records[id].dependencies : f[d]]

\* A record has support exactly when what is_current asks of it and of its
\* dependencies holds.
LEMMA SupportUnfolds ==
  ASSUME NEW s, WellKept(s)
  PROVE  /\ [id \in Known(s) |-> Supported(s, id)]
              = Unfolded(s, [id \in Known(s) |-> Supported(s, id)])
         /\ \A id \in Known(s) :
              Supported(s, id) <=> \/ s.records[id].completed
                                   \/ /\ id \notin s.stale /\ ~ (now >= s.records[id].expires)
                                      /\ \A d \in s.records[id].dependencies : Supported(s, d)
<1> DEFINE f == [id \in Known(s) |-> Supported(s, id)]
<1>1. ASSUME NEW id \in Known(s)
      PROVE  \A d \in s.records[id].dependencies : d \in Known(s)
  BY WellKeptIs DEF Links
<1>2. ASSUME NEW id \in Known(s), Supported(s, id)
      PROVE  \/ s.records[id].completed
             \/ /\ id \notin s.stale /\ ~ (now >= s.records[id].expires)
                /\ \A d \in s.records[id].dependencies : Supported(s, d)
  <2>1. PICK S \in SUBSET Known(s) : id \in S /\ Vouched(s, S)
    BY <1>2 DEF Supported
  <2>2. \A d \in S : Supported(s, d)
    BY <2>1 DEF Supported
  <2> QED BY <2>1, <2>2 DEF Vouched
<1>3. ASSUME NEW id \in Known(s),
             \/ s.records[id].completed
             \/ /\ id \notin s.stale /\ ~ (now >= s.records[id].expires)
                /\ \A d \in s.records[id].dependencies : Supported(s, d)
      PROVE  Supported(s, id)
  <2> DEFINE S == {d \in Known(s) : Supported(s, d)} \cup {id}
  <2>1. ASSUME NEW d \in Known(s), Supported(s, d)
        PROVE  \/ s.records[d].completed
               \/ /\ d \notin s.stale /\ ~ (now >= s.records[d].expires)
                  /\ s.records[d].dependencies \subseteq S
    <3>1. PICK V \in SUBSET Known(s) : d \in V /\ Vouched(s, V)
      BY <2>1 DEF Supported
    <3>2. \A e \in V : e \in S
      BY <3>1 DEF Supported
    <3> HIDE DEF S
    <3> QED BY <3>1, <3>2 DEF Vouched
  <2>2. \/ s.records[id].completed
        \/ /\ id \notin s.stale /\ ~ (now >= s.records[id].expires)
           /\ s.records[id].dependencies \subseteq S
    BY <1>1, <1>3
  <2>3. Vouched(s, S)
    BY <2>1, <2>2 DEF Vouched
  <2>4. S \in SUBSET Known(s) /\ id \in S
    OBVIOUS
  <2> HIDE DEF S
  <2> QED BY <2>3, <2>4 DEF Supported
<1>4. \A id \in Known(s) : f[id] <=> Unfolded(s, f)[id]
  <2> SUFFICES ASSUME NEW id \in Known(s) PROVE f[id] <=> Unfolded(s, f)[id]
    OBVIOUS
  <2>1. \A d \in s.records[id].dependencies : f[d] = Supported(s, d)
    BY <1>1
  <2>2. f[id] = Supported(s, id)
    OBVIOUS
  <2> HIDE DEF f
  <2>3. Unfolded(s, f)[id] <=> \/ s.records[id].completed
                               \/ /\ id \notin s.stale /\ ~ (now >= s.records[id].expires)
                                  /\ \A d \in s.records[id].dependencies : f[d]
    BY DEF Unfolded
  <2> QED BY <1>2, <1>3, <2>1, <2>2, <2>3
<1>5. \A id \in Known(s) : f[id] \in BOOLEAN /\ Unfolded(s, f)[id] \in BOOLEAN
  BY DEF Supported, Unfolded
<1>6. f = [id \in Known(s) |-> f[id]] /\ Unfolded(s, f) = [id \in Known(s) |-> Unfolded(s, f)[id]]
  BY DEF Unfolded
<1>7. \A id \in Known(s) : f[id] = Unfolded(s, f)[id]
  BY <1>4, <1>5
<1>8. f = Unfolded(s, f)
  BY <1>6, <1>7, Zenon
<1> QED BY <1>2, <1>3, <1>8

\* is_current, by the sets that vouch: links lead to earlier records, so the
\* recursion has one solution.
LEMMA CurrentIsSupported ==
  ASSUME NEW s, WellKept(s), NEW id \in Known(s)
  PROVE  IsCurrent(s, id) <=> Supported(s, id)
<1> DEFINE f == Store(s)!CurrentAt(now)
           T == {n \in Nat : \E j \in Known(s) : /\ s.records[j].position = n
                                                 /\ ~ (f[j] <=> Supported(s, j))}
<1>1. f = Unfolded(s, f)
  <2>1. \E g : g = Unfolded(s, g)
    BY SupportUnfolds
  <2>2. f = CHOOSE g : g = Unfolded(s, g)
    BY DEF Store!CurrentAt, Unfolded, Known, Store!Known, Store!Expired
  <2> QED BY <2>1, <2>2
<1>2. \A j \in Known(s) : s.records[j].position \in Nat
  BY WellKeptIs DEF Content
<1>3. SUFFICES ASSUME T # {} PROVE FALSE
  BY <1>2 DEF IsCurrent, Store!IsCurrent
<1>4. PICK n \in T : \A m \in T : <<m, n>> \notin OpToRel(<, Nat)
  <2> HIDE DEF T
  <2>1. IsWellFoundedOn(OpToRel(<, Nat), Nat)
    BY NatLessThanWellFounded
  <2>2. T \subseteq Nat
    BY DEF T
  <2> QED BY <1>3, <2>1, <2>2, WFMin
<1>5. PICK j \in Known(s) : s.records[j].position = n /\ ~ (f[j] <=> Supported(s, j))
  OBVIOUS
<1> HIDE DEF f
<1>6. ASSUME NEW d \in s.records[j].dependencies
      PROVE  d \in Known(s) /\ (f[d] <=> Supported(s, d))
  <2>1. d \in Known(s) /\ s.records[d].position < n
    BY <1>5, WellKeptIs DEF Links
  <2>2. s.records[d].position \in Nat
    BY <1>2, <2>1
  <2>3. <<s.records[d].position, n>> \in OpToRel(<, Nat)
    BY <2>1, <2>2 DEF OpToRel
  <2> QED BY <1>4, <2>1, <2>2, <2>3
<1>7. f[j] <=> \/ s.records[j].completed
               \/ /\ j \notin s.stale /\ ~ (now >= s.records[j].expires)
                  /\ \A d \in s.records[j].dependencies : f[d]
  BY <1>1 DEF Unfolded
<1>8. Supported(s, j) <=> \/ s.records[j].completed
                          \/ /\ j \notin s.stale /\ ~ (now >= s.records[j].expires)
                             /\ \A d \in s.records[j].dependencies : Supported(s, d)
  BY SupportUnfolds
<1> QED BY <1>5, <1>6, <1>7, <1>8

\* What keeps currency: t has all s has, with the same content under the names f
\* gives it, and holds stale all that s does.
Mirrors(s, t, f) ==
  \A x \in Known(s) :
    /\ f[x] \in Known(t)
    /\ t.records[f[x]].completed = s.records[x].completed
    /\ t.records[f[x]].expires = s.records[x].expires
    /\ t.records[f[x]].dependencies = Image(f, s.records[x].dependencies)
    /\ t.records[f[x]].supersedes = Image(f, s.records[x].supersedes)
    /\ t.records[f[x]].conflicts = Image(f, s.records[x].conflicts)
    /\ x \in s.stale => f[x] \in t.stale

\* What is current in a copy is current where it was copied from.
LEMMA CopyIsCurrent ==
  ASSUME NEW s, NEW t, NEW f, WellKept(s), Mirrors(s, t, f), NEW x \in Known(s),
         Supported(t, f[x])
  PROVE  Supported(s, x)
<1>1. PICK T \in SUBSET Known(t) : f[x] \in T /\ Vouched(t, T)
  BY DEF Supported
<1> DEFINE S == {y \in Known(s) : f[y] \in T}
<1>2. ASSUME NEW y \in S
      PROVE  \/ s.records[y].completed
             \/ /\ y \notin s.stale /\ ~ (now >= s.records[y].expires)
                /\ s.records[y].dependencies \subseteq S
  <2>1. \A d \in s.records[y].dependencies : d \in Known(s)
    BY WellKeptIs DEF Links
  <2>2. f[y] \in T
    OBVIOUS
  <2>3. t.records[f[y]].completed
        \/ /\ f[y] \notin t.stale /\ ~ (now >= t.records[f[y]].expires)
           /\ t.records[f[y]].dependencies \subseteq T
    BY <1>1, <2>2 DEF Vouched
  <2>4. \A d \in s.records[y].dependencies : f[d] \in Image(f, s.records[y].dependencies)
    BY DEF Image
  <2> QED BY <2>1, <2>3, <2>4 DEF Mirrors
<1>3. Vouched(s, S) /\ S \in SUBSET Known(s) /\ x \in S
  <2>1. S \in SUBSET Known(s) /\ x \in S
    BY <1>1
  <2> HIDE DEF S
  <2> QED BY <1>2, <2>1 DEF Vouched
<1> HIDE DEF S
<1> QED BY <1>3 DEF Supported

-----------------------------------------------------------------------------
(* Records added in the order they have elsewhere. *)

\* A set of numbers with 0 and with every successor of its own is all of them.
LEMMA AllNumbers ==
  ASSUME NEW T \in SUBSET Nat, 0 \in T, \A n \in T : n + 1 \in T
  PROVE  T = Nat
<1> SUFFICES ASSUME Nat \ T # {} PROVE FALSE
  OBVIOUS
<1>1. PICK n \in Nat \ T : \A m \in Nat \ T : <<m, n>> \notin OpToRel(<, Nat)
  <2>1. IsWellFoundedOn(OpToRel(<, Nat), Nat)
    BY NatLessThanWellFounded
  <2> DEFINE C == Nat \ T
  <2>2. C \subseteq Nat /\ C # {}
    OBVIOUS
  <2> HIDE DEF C
  <2>3. \E x \in C : \A y \in C : <<y, x>> \notin OpToRel(<, Nat)
    BY <2>1, <2>2, WFMin
  <2> QED BY <2>3 DEF C
<1>2. n # 0 /\ n - 1 \in Nat
  OBVIOUS
<1>3. <<n - 1, n>> \in OpToRel(<, Nat)
  BY <1>2 DEF OpToRel
<1>4. n - 1 \in T
  BY <1>1, <1>2, <1>3
<1> QED BY <1>2, <1>4

Here(from, name, n) == {id \in DOMAIN name : from.records[id].position = n}

AddedAt(s, from, name, content, n) ==
  IF Here(from, name, n) = {} THEN s
  ELSE LET id == CHOOSE id \in Here(from, name, n) : TRUE
       IN  Added(s, name[id], content[id])

\* f says what the store is after each of the first m places.
IsAdding(f, m, base, from, name, content) ==
  f = [n \in 0..m |-> IF n = 0 THEN base ELSE AddedAt(f[n - 1], from, name, content, n - 1)]

\* The recursion of AddedInOrder has a solution for any number of turns.
LEMMA AddingExists ==
  ASSUME NEW m \in Nat, NEW base, NEW from, NEW name, NEW content
  PROVE  \E f : IsAdding(f, m, base, from, name, content)
<1> DEFINE T == {n \in Nat : \E f : IsAdding(f, n, base, from, name, content)}
           After(s, n) == AddedAt(s, from, name, content, n)
<1>1. 0 \in T
  <2>1. IsAdding([n \in 0..0 |-> base], 0, base, from, name, content)
    BY DEF IsAdding
  <2> QED BY <2>1
<1>2. ASSUME NEW n \in T PROVE n + 1 \in T
  <2>1. PICK f : IsAdding(f, n, base, from, name, content)
    OBVIOUS
  <2> DEFINE next == After(f[n], n)
             g == [k \in 0..(n + 1) |-> IF k = n + 1 THEN next ELSE f[k]]
  <2>2. ASSUME NEW k \in 0..(n + 1)
        PROVE  g[k] = IF k = 0 THEN base ELSE After(g[k - 1], k - 1)
    <3>1. CASE k = 0
      <4>1. g[k] = f[0] /\ 0 \in 0..n
        BY <3>1
      <4>2. f[0] = base
        BY <2>1, <4>1 DEF IsAdding
      <4> HIDE DEF g
      <4> QED BY <3>1, <4>1, <4>2
    <3>2. CASE k = n + 1
      <4>1. g[k - 1] = f[n] /\ g[k] = next /\ k - 1 = n /\ k # 0
        BY <3>2
      <4> HIDE DEF g
      <4> QED BY <3>2, <4>1
    <3>3. CASE k # 0 /\ k # n + 1
      <4>1. k \in 0..n /\ k - 1 \in 0..n
        BY <3>3
      <4>2. g[k - 1] = f[k - 1] /\ g[k] = f[k]
        BY <3>3, <4>1
      <4>3. f[k] = After(f[k - 1], k - 1)
        <5> DEFINE h == [l \in 0..n |-> IF l = 0 THEN base ELSE After(f[l - 1], l - 1)]
        <5>1. f = h
          BY <2>1 DEF IsAdding
        <5>2. h[k] = After(f[k - 1], k - 1)
          BY <3>3, <4>1
        <5> QED BY <5>1, <5>2
      <4> HIDE DEF g
      <4> QED BY <3>3, <4>2, <4>3
    <3> QED BY <3>1, <3>2, <3>3
  <2>3. g = [k \in 0..(n + 1) |-> g[k]]
    OBVIOUS
  <2> HIDE DEF g
  <2>4. IsAdding(g, n + 1, base, from, name, content)
    BY <2>2, <2>3 DEF IsAdding
  <2> QED BY <2>4
<1>3. T \subseteq Nat
  OBVIOUS
<1> HIDE DEF T
<1>4. T = Nat
  BY <1>1, <1>2, <1>3, AllNumbers
<1> QED BY <1>4 DEF T

\* Records added in order are added one position after the other.
LEMMA AddedInTurn ==
  ASSUME NEW base, NEW from, NEW name, NEW content, IsFiniteSet(Known(from))
  PROVE  \E f : /\ AddedInOrder(base, from, name, content) = f[Cardinality(Known(from))]
                /\ f[0] = base
                /\ \A n \in Nat : n < Cardinality(Known(from)) =>
                     f[n + 1] = AddedAt(f[n], from, name, content, n)
<1> DEFINE M == Cardinality(Known(from))
           f == CHOOSE f : IsAdding(f, M, base, from, name, content)
<1>1. AddedInOrder(base, from, name, content) = f[M]
  BY DEF AddedInOrder, IsAdding, AddedAt, Here
<1>2. M \in Nat
  BY FS_CardinalityType
<1> HIDE DEF M
<1>3. IsAdding(f, M, base, from, name, content)
  BY <1>2, AddingExists
<1> HIDE DEF f
<1> DEFINE After(s, n) == AddedAt(s, from, name, content, n)
           h == [n \in 0..M |-> IF n = 0 THEN base ELSE After(f[n - 1], n - 1)]
<1>4. f = h
  BY <1>3 DEF IsAdding
<1>5. h[0] = base
  BY <1>2
<1>6. ASSUME NEW n \in Nat, n < M PROVE h[n + 1] = After(f[n], n)
  <2>1. n + 1 \in 0..M /\ n + 1 # 0 /\ (n + 1) - 1 = n
    BY <1>2, <1>6
  <2> QED BY <2>1
<1>7. f[0] = base
  BY <1>4, <1>5
<1>8. \A n \in Nat : n < M => f[n + 1] = After(f[n], n)
  <2> HIDE DEF h
  <2> QED BY <1>4, <1>6
<1> QED BY <1>1, <1>7, <1>8 DEF M

Before(from, name, n) == {id \in DOMAIN name : from.records[id].position < n}

\* The names are new and each goes to one record, which refers to what the store
\* has or to what is added before it.
Addable(base, from, name, content) ==
  /\ DOMAIN name \subseteq Known(from)
  /\ \A id \in DOMAIN name :
       /\ name[id] \in Ids \ Known(base) /\ content[id] \in Content
       /\ Links(content[id]) \subseteq
            Known(base) \cup Image(name, Before(from, name, from.records[id].position))
  /\ \A id, x \in DOMAIN name : name[id] = name[x] => id = x

\* What the store is once the records ranked below n are added.
AddedBefore(t, n, base, from, name, content) ==
  /\ WellKept(t) /\ Grows(base, t)
  /\ Known(t) = Known(base) \cup Image(name, Before(from, name, n))
  /\ \A id \in Before(from, name, n) : Same(t.records[name[id]], content[id])
  /\ \A id, x \in Before(from, name, n) :
       from.records[id].position < from.records[x].position =>
         t.records[name[id]].position < t.records[name[x]].position
  /\ t.stale \subseteq base.stale \cup Replaced(t) /\ Replaced(base) \subseteq Replaced(t)

\* One turn of the adding keeps what holds before it.
LEMMA OneMoreAdded ==
  ASSUME NEW base, NEW from, NEW name, NEW content, WellKept(base), WellKept(from),
         Addable(base, from, name, content), NEW n \in Nat, NEW t,
         AddedBefore(t, n, base, from, name, content)
  PROVE  AddedBefore(AddedAt(t, from, name, content, n), n + 1, base, from, name, content)
<1> DEFINE D == Before(from, name, n)
           E == Before(from, name, n + 1)
           H == Here(from, name, n)
           u == AddedAt(t, from, name, content, n)
<1>1. \A id \in DOMAIN name : id \in Known(from) /\ from.records[id].position \in Nat
  BY WellKeptIs DEF Content, Addable
<1>2. E = D \cup H /\ D \cap H = {} /\ D \subseteq DOMAIN name /\ H \subseteq DOMAIN name
  BY <1>1 DEF Before, Here
<1>3. CASE H = {}
  BY <1>2, <1>3 DEF AddedAt, AddedBefore
<1>4. CASE H # {}
  <2> DEFINE id == CHOOSE id \in H : TRUE
  <2>1. id \in H /\ u = Added(t, name[id], content[id])
    BY <1>4 DEF AddedAt
  <2> HIDE DEF id, u
  <2>2. from.records[id].position = n /\ id \in DOMAIN name
    BY <2>1 DEF Here
  <2>3. H = {id}
    <3>1. ASSUME NEW x \in H PROVE x = id
      <4>1. from.records[x].position = from.records[id].position
        BY <2>2 DEF Here
      <4>2. x \in Known(from) /\ id \in Known(from)
        BY <1>1, <1>2, <2>2
      <4> QED BY <4>1, <4>2, WellKeptIs
    <3> QED BY <2>1, <3>1
  <2>4. E = D \cup {id} /\ id \notin D
    BY <1>2, <2>1, <2>3
  <2>5. WellKept(t) /\ Grows(base, t) /\ Known(t) = Known(base) \cup Image(name, D)
    BY DEF AddedBefore
  <2>6. name[id] \in Ids \ Known(t) /\ content[id] \in Content
    <3>1. \A x \in D : name[x] # name[id]
      BY <1>2, <2>2, <2>4 DEF Addable
    <3> QED BY <2>2, <2>5, <3>1 DEF Addable, Image
  <2>7. Links(content[id]) \subseteq Known(t)
    BY <2>2, <2>5 DEF Addable
  <2>8. /\ WellKept(u) /\ Grows(t, u)
        /\ Known(u) = Known(t) \cup {name[id]}
        /\ Same(u.records[name[id]], content[id])
        /\ u.records[name[id]].position = Cardinality(Known(t))
        /\ u.stale \subseteq t.stale \cup Replaced(u)
        /\ Replaced(t) \subseteq Replaced(u)
    BY <2>1, <2>5, <2>6, <2>7, AddedIs, ZenonT(60)
  <2>9. \A x \in D : name[x] \in Known(t) /\ u.records[name[x]] = t.records[name[x]]
    BY <2>5, <2>8 DEF Image, Grows
  <2>10. Known(u) = Known(base) \cup Image(name, E)
    BY <2>4, <2>5, <2>8 DEF Image
  <2>11. \A x \in E : Same(u.records[name[x]], content[x])
    BY <2>4, <2>8, <2>9 DEF AddedBefore
  <2>12. \A x \in D : u.records[name[x]].position < u.records[name[id]].position
    <3>1. \A x \in Known(t) : t.records[x].position < Cardinality(Known(t))
      BY <2>5, WellKeptIs
    <3> QED BY <2>8, <2>9, <3>1
  <2>13. \A x \in D : from.records[x].position \in Nat /\ from.records[x].position < n
    BY <1>1, <1>2 DEF Before
  <2>14. \A x, y \in E : from.records[x].position < from.records[y].position =>
                          u.records[name[x]].position < u.records[name[y]].position
    <3> SUFFICES ASSUME NEW x \in E, NEW y \in E,
                        from.records[x].position < from.records[y].position
                 PROVE  u.records[name[x]].position < u.records[name[y]].position
      OBVIOUS
    <3>1. CASE x \in D /\ y \in D
      BY <2>9, <3>1 DEF AddedBefore
    <3>2. CASE x \in D /\ y = id
      BY <2>12, <3>2
    <3>3. CASE x = id
      <4>1. from.records[x].position = n
        BY <2>2, <3>3
      <4>2. y = id \/ y \in D
        BY <2>4
      <4> QED BY <2>2, <2>13, <4>1, <4>2
    <3> QED BY <2>4, <3>1, <3>2, <3>3
  <2>15. Grows(base, u)
    BY <2>5, <2>8, GrowsInTurn
  <2>16. u.stale \subseteq base.stale \cup Replaced(u) /\ Replaced(base) \subseteq Replaced(u)
    BY <2>8 DEF AddedBefore
  <2> QED BY <2>8, <2>10, <2>11, <2>14, <2>15, <2>16 DEF AddedBefore, u
<1> QED BY <1>3, <1>4

\* All are added, with their content, in their order and after what was there.
LEMMA AddedInOrderIs ==
  ASSUME NEW base, NEW from, NEW name, NEW content, WellKept(base), WellKept(from),
         Addable(base, from, name, content)
  PROVE  LET t == AddedInOrder(base, from, name, content) IN
         /\ WellKept(t) /\ Grows(base, t)
         /\ Known(t) = Known(base) \cup Image(name, DOMAIN name)
         /\ \A id \in DOMAIN name : Same(t.records[name[id]], content[id])
         /\ \A id, x \in DOMAIN name :
              from.records[id].position < from.records[x].position =>
                t.records[name[id]].position < t.records[name[x]].position
         /\ t.stale \subseteq base.stale \cup Replaced(t)
         /\ Replaced(base) \subseteq Replaced(t)
<1> DEFINE M == Cardinality(Known(from))
           t == AddedInOrder(base, from, name, content)
<1>1. IsFiniteSet(Known(from)) /\ M \in Nat
  BY WellKeptIs, FS_CardinalityType
<1> HIDE DEF M
<1>2. PICK f : /\ t = f[M] /\ f[0] = base
               /\ \A n \in Nat : n < M => f[n + 1] = AddedAt(f[n], from, name, content, n)
  BY <1>1, AddedInTurn DEF M
<1> DEFINE Part(n) == AddedBefore(f[n], n, base, from, name, content)
           T == {n \in Nat : n <= M => Part(n)}
<1>3. \A id \in DOMAIN name : id \in Known(from) /\ from.records[id].position \in Nat
                              /\ from.records[id].position < M
  BY WellKeptIs DEF Content, Addable, M
<1>4. Part(0)
  <2>1. Before(from, name, 0) = {}
    BY <1>3 DEF Before
  <2>2. Grows(base, base)
    BY DEF Grows
  <2>3. base.stale \subseteq base.stale \cup Replaced(base)
    OBVIOUS
  <2> QED BY <1>2, <2>1, <2>2, <2>3 DEF AddedBefore, Image
<1>5. ASSUME NEW n \in T PROVE n + 1 \in T
  <2>1. CASE n + 1 <= M
    <3>1. Part(n) /\ f[n + 1] = AddedAt(f[n], from, name, content, n)
      BY <1>1, <1>2, <2>1
    <3>2. n \in Nat
      OBVIOUS
    <3> HIDE DEF T
    <3>3. Part(n + 1)
      BY <3>1, <3>2, OneMoreAdded
    <3> QED BY <3>2, <3>3 DEF T
  <2>2. CASE ~ (n + 1 <= M)
    BY <2>2
  <2> QED BY <2>1, <2>2
<1>6. T = Nat
  <2>1. 0 \in T /\ T \subseteq Nat
    BY <1>4
  <2> HIDE DEF T
  <2> QED BY <1>5, <2>1, AllNumbers
<1>7. Part(M)
  BY <1>1, <1>6
<1>8. Before(from, name, M) = DOMAIN name
  BY <1>3 DEF Before
<1>9. AddedBefore(t, M, base, from, name, content)
  BY <1>2, <1>7
<1> HIDE DEF t
<1> QED BY <1>8, <1>9 DEF AddedBefore, t

-----------------------------------------------------------------------------
(* The tree of runs, and the names of records. *)

\* A run is a path of tools, each offered by the agent before it.
LEMMA RunIs ==
  ASSUME NEW r \in Runs
  PROVE  /\ r \in Seq(Tools) /\ Len(r) \in 0..MaxDepth
         /\ \A i \in 1..Len(r) : r[i] \in Offers[DefinitionAt(r, i - 1)]
         /\ r \in Children <=> Len(r) # 0
<1>1. CASE r = Root
  BY <1>1, BoundsAssumption DEF Root, Children
<1>2. CASE r # Root
  <2>1. PICK d \in 1..MaxDepth : r \in [1..d -> Tools]
    BY <1>2 DEF Runs
  <2>2. d \in Nat /\ d # 0 /\ d <= MaxDepth
    BY <2>1, BoundsAssumption
  <2>3. r \in Seq(Tools) /\ Len(r) = d
    <3>1. r \in Seq(Tools)
      BY <2>1, <2>2, SeqDef
    <3>2. DOMAIN r = 1..d /\ DOMAIN r = 1..Len(r) /\ Len(r) \in Nat
      BY <2>1, <3>1, LenProperties
    <3> QED BY <2>2, <3>1, <3>2
  <2>4. \A i \in DOMAIN r : r[i] \in Offers[DefinitionAt(r, i - 1)]
    BY <1>2 DEF Runs
  <2> QED BY <1>2, <2>1, <2>2, <2>3, <2>4, BoundsAssumption DEF Children
<1> QED BY <1>1, <1>2

\* Every run on the way to a run runs an agent of the configuration.
LEMMA DefinitionsAre ==
  ASSUME NEW r \in Runs, NEW i \in 0..Len(r)
  PROVE  DefinitionAt(r, i) \in Definitions
<1>1. r \in Seq(Tools)
  BY RunIs
<1>2. i # 0 => r[i] \in Tools
  BY <1>1
<1> QED BY <1>2, DefinitionsAssumption DEF DefinitionAt

\* The caller of a child is a run, one step nearer to the root.
LEMMA CallerIs ==
  ASSUME NEW r \in Children
  PROVE  /\ r \in Runs /\ Caller(r) \in Runs /\ Caller(r) # r /\ r # Root
         /\ Len(r) \in Nat \ {0} /\ Len(Caller(r)) = Len(r) - 1
         /\ \A i \in 0..(Len(r) - 1) : DefinitionAt(Caller(r), i) = DefinitionAt(r, i)
         /\ Last(r) \in Tools /\ Last(r) \in Offers[DefinitionOf(Caller(r))]
<1> DEFINE n == Len(r) - 1
           c == Caller(r)
<1>1. /\ r \in Runs /\ r \in Seq(Tools) /\ Len(r) \in 1..MaxDepth /\ r # Root
      /\ \A i \in 1..Len(r) : r[i] \in Offers[DefinitionAt(r, i - 1)]
  BY RunIs, BoundsAssumption DEF Children
<1>2. n \in Nat /\ Len(r) = n + 1 /\ n + 1 <= MaxDepth
  BY <1>1, BoundsAssumption
<1>3. c = SubSeq(r, 1, n)
  BY DEF Caller, Front
<1> HIDE DEF n, c
<1>4. \A i \in 1..n : r[i] \in Tools
  BY <1>1, <1>2
<1>5. c \in Seq(Tools) /\ Len(c) = n /\ \A i \in 1..n : c[i] = r[i]
  <2>1. /\ SubSeq(r, 1, n) \in Seq(Tools)
        /\ Len(SubSeq(r, 1, n)) = IF 1 <= n THEN n - 1 + 1 ELSE 0
        /\ \A i \in 1..(n - 1 + 1) : SubSeq(r, 1, n)[i] = r[1 + i - 1]
    BY <1>2, <1>4, SubSeqProperties
  <2>2. n - 1 + 1 = n /\ \A i \in 1..n : 1 + i - 1 = i
    BY <1>2
  <2> QED BY <1>2, <1>3, <2>1, <2>2
<1>6. \A i \in 0..n : DefinitionAt(c, i) = DefinitionAt(r, i)
  BY <1>5 DEF DefinitionAt
<1>7. c \in Runs
  <2>1. CASE n = 0
    <3>1. c = <<>>
      BY <1>5, <2>1, EmptySeq
    <3> QED BY <3>1 DEF Runs, Root
  <2>2. CASE n # 0
    <3>1. n \in 1..MaxDepth
      BY <1>2, <2>2, BoundsAssumption
    <3>2. c \in [1..n -> Tools]
      BY <1>5, LenProperties
    <3>3. DOMAIN c = 1..n
      BY <3>2
    <3>4. \A i \in DOMAIN c : c[i] \in Offers[DefinitionAt(c, i - 1)]
      <4> SUFFICES ASSUME NEW i \in 1..n PROVE c[i] \in Offers[DefinitionAt(c, i - 1)]
        BY <3>3
      <4>1. i \in 1..Len(r) /\ i - 1 \in 0..n
        BY <1>2
      <4> QED BY <1>1, <1>5, <1>6, <4>1
    <3> QED BY <3>1, <3>2, <3>4 DEF Runs
  <2> QED BY <2>1, <2>2
<1>8. c # r
  BY <1>2, <1>5
<1>9. Last(r) = r[n + 1] /\ r[n + 1] \in Tools
  BY <1>1, <1>2 DEF Last
<1>10. Last(r) \in Offers[DefinitionOf(c)]
  <2>1. n + 1 \in 1..Len(r) /\ (n + 1) - 1 = n
    BY <1>2
  <2>2. r[n + 1] \in Offers[DefinitionAt(r, n)]
    BY <1>1, <2>1
  <2>3. DefinitionOf(c) = DefinitionAt(r, n)
    <3>1. n \in 0..n
      BY <1>2
    <3> QED BY <3>1, <1>5, <1>6 DEF DefinitionOf
  <2> QED BY <1>9, <2>2, <2>3
<1>11. Len(r) \in Nat \ {0} /\ Len(c) = Len(r) - 1 /\ \A i \in 0..(Len(r) - 1) : i \in 0..n
  BY <1>2, <1>5
<1> QED BY <1>1, <1>6, <1>7, <1>8, <1>9, <1>10, <1>11 DEF c

\* A name of its own is one name, of one record.
LEMMA OwnNamesAre ==
  ASSUME NEW x, NEW n, x = Own(n)
  PROVE  /\ Len(x) = 1 /\ Len(x) \in Nat /\ Len(x) > 0 /\ ~ (Len(x) > 1)
         /\ \A m : x = Own(m) => n = m
<1>1. x = <<n>>
  BY DEF Own
<1>2. Len(x) = 1
  BY <1>1
<1>3. \A m : x = Own(m) => n = m
  BY DEF Own
<1> QED BY <1>2, <1>3

\* What a caller calls a child's record tells the child and the record apart.
LEMMA NamesAre ==
  ASSUME NEW n \in Names, NEW r \in Children, NEW id \in Ids
  PROVE  /\ Own(n) \in Ids /\ Len(Own(n)) = 1 /\ Own(n)[1] = n
         /\ Scoped(r, id) \in Ids /\ Len(Scoped(r, id)) = Len(id) + 1
         /\ Head(Scoped(r, id)) = r /\ Tail(Scoped(r, id)) = id
         /\ Len(id) \in Nat
<1> DEFINE X == Names \cup Children
<1>1. id \in Seq(X) /\ r \in X /\ n \in X
  BY DEF Ids
<1>2. Own(n) \in Seq(X) /\ Len(Own(n)) = 1 /\ Own(n)[1] = n
  BY <1>1 DEF Own
<1> HIDE DEF X
<1>3. Scoped(r, id) \in Seq(X) /\ Len(Scoped(r, id)) = Len(id) + 1 /\ Len(id) \in Nat
  BY <1>1 DEF Scoped
<1>4. Head(Scoped(r, id)) = r /\ Tail(Scoped(r, id)) = id
  BY <1>1 DEF Scoped
<1> QED BY <1>2, <1>3, <1>4 DEF Ids, X

-----------------------------------------------------------------------------
(* The invariant of the composition. *)

Stages == {"idle", "running", "returned", "out"}
Endings == {"none", "refused", "completed", "unresolved", "cancelled", "failed"}
StepStates == {"idle", "working", "refused", "done", "raised"}

ComposedTypeOK ==
  /\ store = [r \in Runs |-> store[r]]
  /\ stage \in [Runs -> Stages] /\ ended \in [Runs -> Endings]
  /\ lent = [r \in Children |-> lent[r]] /\ imported = [r \in Children |-> imported[r]]
  /\ step \in [AllSteps -> StepStates]

\* Nothing goes on in a run that is not running, and no run goes on that may not.
StagesAgree ==
  /\ \A r \in Runs :
       /\ stage[r] # "running" => Quiet(r)
       /\ stage[r] \in {"idle", "running"} => ended[r] = "none"
       /\ stage[r] = "returned" => ended[r] = "completed"
  /\ \A r \in Children : stage[r] = "running" => MayRunUnder(r)

\* A run has left its caller all it found, or nothing.
ImportsAgree ==
  \A r \in Children :
    /\ stage[r] = "idle" => store[r] = EmptyStore /\ lent[r] = {}
    /\ ~ Absorbed(r) => imported[r] = {}
    /\ Absorbed(r) => imported[r] = {Scoped(r, id) : id \in Findings(r)}

\* Every store is one that add and invalidate leave; the host invalidates records
\* of the root only.
StoresKept ==
  /\ \A r \in Runs : WellKept(store[r])
  /\ \A r \in Children : store[r].stale \subseteq Replaced(store[r])

\* What a child was lent is what its caller has, in the same order and before all
\* the child found itself.
Lent(r) ==
  LET caller == store[Caller(r)]
      child == store[r]
  IN  /\ lent[r] \subseteq Known(caller) /\ lent[r] \subseteq Known(child)
      /\ \A x \in lent[r] :
           /\ Same(child.records[x], caller.records[x])
           /\ Links(child.records[x]) \subseteq lent[r]
           /\ \A y \in lent[r] : child.records[x].position <= child.records[y].position =>
                                 caller.records[x].position <= caller.records[y].position
           /\ \A y \in Findings(r) : child.records[x].position < child.records[y].position

AllLent == \A r \in Children : Lent(r)

NamesUpTo(r) == SessionNames \cup UNION {NamesOf(DefinitionAt(r, i)) : i \in 0..Len(r)}

FoundNames(r) == NamesOf(DefinitionOf(r)) \cup (IF r = Root THEN SessionNames ELSE {})

Lendings(r) == IF r = Root THEN {} ELSE lent[r]

\* The name of a record is one its run, or a run above it, gives, or begins with a
\* child of one of them; and a record is the run's own, lent, or a child's.
NameKept(r, x) ==
  /\ \/ \E n \in NamesUpTo(r) : x = Own(n)
     \/ Len(x) > 1 /\ Head(x) \in Children /\ Len(Head(x)) <= Len(r) + 1
  /\ \/ x \in Lendings(r)
     \/ \E n \in FoundNames(r) : x = Own(n)
     \/ \E q \in Calls(r) : x \in imported[q]

NamesKept == \A r \in Runs : \A x \in Known(store[r]) : NameKept(r, x)

\* Once a child has been absorbed, its caller has all that the child has.
CopyNames(r) == [x \in Known(store[r]) |-> InCaller(r, x)]
Mirrored(r) == Mirrors(store[r], store[Caller(r)], CopyNames(r))
AllMirrored == \A r \in Children : Absorbed(r) => Mirrored(r)

ContentsKept == ImportsAgree /\ StoresKept /\ AllLent /\ NamesKept /\ AllMirrored

ComposedInv == ComposedTypeOK /\ StagesAgree /\ ContentsKept

-----------------------------------------------------------------------------
\* A run may only use names of the configuration.
LEMMA FoundNamesAre ==
  ASSUME NEW r \in Runs
  PROVE  /\ FoundNames(r) \subseteq NamesUpTo(r) /\ NamesUpTo(r) \subseteq Names
         /\ r \in Children => NamesUpTo(Caller(r)) \subseteq NamesUpTo(r)
<1>1. Len(r) \in Nat
  BY RunIs, BoundsAssumption
<1>2. DefinitionOf(r) = DefinitionAt(r, Len(r)) /\ Len(r) \in 0..Len(r)
  BY <1>1 DEF DefinitionOf
<1>3. FoundNames(r) \subseteq NamesUpTo(r)
  BY <1>2 DEF FoundNames, NamesUpTo
<1>4. \A d \in Definitions : NamesOf(d) \subseteq Names
  BY DefinitionsAssumption DEF NamesOf
<1>5. NamesUpTo(r) \subseteq Names
  <2>1. \A i \in 0..Len(r) : NamesOf(DefinitionAt(r, i)) \subseteq Names
    BY <1>4, DefinitionsAre
  <2> QED BY <2>1 DEF NamesUpTo, SessionNames
<1>6. ASSUME r \in Children PROVE NamesUpTo(Caller(r)) \subseteq NamesUpTo(r)
  <2>1. /\ Len(Caller(r)) = Len(r) - 1
        /\ \A i \in 0..(Len(r) - 1) : DefinitionAt(Caller(r), i) = DefinitionAt(r, i)
    BY <1>6, CallerIs
  <2>2. \A i \in 0..Len(Caller(r)) : i \in 0..Len(r) /\ DefinitionAt(Caller(r), i) = DefinitionAt(r, i)
    BY <1>1, <2>1
  <2> QED BY <2>2 DEF NamesUpTo
<1> QED BY <1>3, <1>5, <1>6

\* A child and its caller may both grow: what was lent stays lent.
LEMMA LentIsKept ==
  ASSUME NEW r \in Children, Lent(r), lent'[r] = lent[r],
         Grows(store[r], store[r]'), Grows(store[Caller(r)], store[Caller(r)]')
  PROVE  Lent(r)'
<1> DEFINE child == store[r]
           caller == store[Caller(r)]
<1>1. \A x \in lent[r] : /\ child'.records[x] = child.records[x]
                         /\ caller'.records[x] = caller.records[x]
  BY DEF Lent, Grows
<1>2. /\ lent[r] \subseteq Known(child') /\ lent[r] \subseteq Known(caller')
  BY DEF Lent, Grows
<1>3. \A x \in lent[r] : \A y \in Findings(r)' :
        child'.records[x].position < child'.records[y].position
  <2> SUFFICES ASSUME NEW x \in lent[r], NEW y \in Findings(r)'
               PROVE  child'.records[x].position < child'.records[y].position
    OBVIOUS
  <2>1. CASE y \in Known(child)
    <3>1. y \in Findings(r)
      BY <2>1 DEF Findings
    <3> QED BY <1>1, <2>1, <3>1 DEF Lent, Grows
  <2>2. CASE y \notin Known(child)
    BY <1>1, <2>2 DEF Lent, Grows, Findings
  <2> QED BY <2>1, <2>2
<1> QED BY <1>1, <1>2, <1>3 DEF Lent

\* What was absorbed stays absorbed, whatever the caller adds.
LEMMA MirrorIsKept ==
  ASSUME NEW s, NEW t, NEW u, NEW f, Mirrors(s, t, f), Grows(t, u)
  PROVE  Mirrors(s, u, f)
BY DEF Mirrors, Grows

\* A step that only adds records of the runs' own, and to no absorbed run.
LEMMA AdditionsKeep ==
  ASSUME ComposedInv, lent' = lent, imported' = imported,
         \A r \in Runs : /\ Grows(store[r], store'[r]) /\ WellKept(store'[r])
                         /\ \A x \in Known(store'[r]) \ Known(store[r]) :
                              \E n \in FoundNames(r) : x = Own(n),
         \A r \in Children : /\ store'[r].stale \subseteq Replaced(store'[r])
                             /\ Absorbed(r)' <=> Absorbed(r)
                             /\ Absorbed(r) \/ stage'[r] = "idle" => store'[r] = store[r]
                             /\ stage'[r] = "idle" => stage[r] = "idle"
  PROVE  ContentsKept'
<1>1. ImportsAgree'
  <2> SUFFICES ASSUME NEW r \in Children
               PROVE  /\ stage'[r] = "idle" => store'[r] = EmptyStore /\ lent'[r] = {}
                      /\ ~ Absorbed(r)' => imported'[r] = {}
                      /\ Absorbed(r)' => imported'[r] = {Scoped(r, id) : id \in Findings(r)'}
    BY DEF ImportsAgree
  <2>1. Absorbed(r) => Findings(r)' = Findings(r)
    BY DEF Findings
  <2> QED BY <2>1 DEF ComposedInv, ContentsKept, ImportsAgree
<1>2. StoresKept'
  BY DEF StoresKept
<1>3. AllLent'
  <2> SUFFICES ASSUME NEW r \in Children PROVE Lent(r)'
    BY DEF AllLent
  <2>1. r \in Runs /\ Caller(r) \in Runs
    BY CallerIs
  <2> QED BY <2>1, LentIsKept DEF ComposedInv, ContentsKept, AllLent
<1>4. NamesKept'
  <2> SUFFICES ASSUME NEW r \in Runs, NEW x \in Known(store'[r]) PROVE NameKept(r, x)'
    BY DEF NamesKept
  <2>1. CASE x \in Known(store[r])
    <3>1. NameKept(r, x)
      BY <2>1 DEF ComposedInv, ContentsKept, NamesKept
    <3> QED BY <3>1 DEF NameKept, Lendings
  <2>2. CASE x \notin Known(store[r])
    <3>1. PICK n \in FoundNames(r) : x = Own(n)
      BY <2>2
    <3> QED BY <3>1, FoundNamesAre DEF NameKept
  <2> QED BY <2>1, <2>2
<1>5. AllMirrored'
  <2> SUFFICES ASSUME NEW r \in Children, Absorbed(r)' PROVE Mirrored(r)'
    BY DEF AllMirrored
  <2>1. Absorbed(r) /\ store'[r] = store[r] /\ Mirrored(r)
    BY DEF ComposedInv, ContentsKept, AllMirrored
  <2>2. Caller(r) \in Runs
    BY CallerIs
  <2>3. CopyNames(r)' = CopyNames(r)
    BY <2>1 DEF CopyNames, InCaller
  <2> QED BY <2>1, <2>2, <2>3, MirrorIsKept DEF Mirrored
<1> QED BY <1>1, <1>2, <1>3, <1>4, <1>5 DEF ContentsKept

\* The store a child begins with (project): what it was lent, as its caller has it.
LEMMA ProjectedIs ==
  ASSUME NEW s, WellKept(s), NEW view, Projectable(s, view)
  PROVE  LET t == Projected(s, view) IN
         /\ WellKept(t) /\ Known(t) = view /\ t.stale \subseteq Replaced(t)
         /\ \A x \in view : Same(t.records[x], s.records[x]) /\ Links(t.records[x]) \subseteq view
         /\ \A x, y \in view : t.records[x].position <= t.records[y].position =>
                               s.records[x].position <= s.records[y].position
<1> DEFINE name == [id \in view |-> id]
           content == [id \in view |-> s.records[id]]
           t == Projected(s, view)
<1>1. view \subseteq Known(s) /\ \A id \in view : Links(s.records[id]) \subseteq view
  BY StoreIs DEF Projectable
<1>2. DOMAIN name = view /\ \A id \in view : name[id] = id /\ content[id] = s.records[id]
  OBVIOUS
<1>3. t = AddedInOrder(EmptyStore, s, name, content)
  BY DEF Projected
<1> HIDE DEF name, content, t
<1>4. \A id \in view : /\ id \in Ids /\ s.records[id] \in Content /\ s.records[id].position \in Nat
                       /\ \A ref \in Links(s.records[id]) :
                            s.records[ref].position < s.records[id].position
  BY <1>1, WellKeptIs DEF Content
<1>5. \A S \in SUBSET view : Image(name, S) = S
  BY <1>2 DEF Image
<1>6. Addable(EmptyStore, s, name, content)
  <2>1. \A id \in view : Links(s.records[id]) \subseteq Before(s, name, s.records[id].position)
    BY <1>1, <1>2, <1>4 DEF Before
  <2>2. \A id \in view : Before(s, name, s.records[id].position) \in SUBSET view
    BY <1>2 DEF Before
  <2> QED BY <1>1, <1>2, <1>4, <1>5, <2>1, <2>2, EmptyIsWellKept DEF Addable
<1>7. /\ WellKept(t)
      /\ Known(t) = Known(EmptyStore) \cup Image(name, DOMAIN name)
      /\ \A id \in DOMAIN name : Same(t.records[name[id]], content[id])
      /\ \A id, x \in DOMAIN name :
           s.records[id].position < s.records[x].position =>
             t.records[name[id]].position < t.records[name[x]].position
      /\ t.stale \subseteq EmptyStore.stale \cup Replaced(t)
  <2>1. WellKept(EmptyStore)
    BY EmptyIsWellKept
  <2>2. LET u == AddedInOrder(EmptyStore, s, name, content) IN
        /\ WellKept(u) /\ Grows(EmptyStore, u)
        /\ Known(u) = Known(EmptyStore) \cup Image(name, DOMAIN name)
        /\ \A id \in DOMAIN name : Same(u.records[name[id]], content[id])
        /\ \A id, x \in DOMAIN name :
             s.records[id].position < s.records[x].position =>
               u.records[name[id]].position < u.records[name[x]].position
        /\ u.stale \subseteq EmptyStore.stale \cup Replaced(u)
        /\ Replaced(EmptyStore) \subseteq Replaced(u)
    BY <1>6, <2>1, AddedInOrderIs, Zenon
  <2> QED BY <1>3, <2>2
<1>8. Known(t) = view
  BY <1>2, <1>5, <1>7, EmptyIsWellKept
<1>9. \A x \in view : Same(t.records[x], s.records[x]) /\ Links(t.records[x]) \subseteq view
  BY <1>1, <1>2, <1>7 DEF Same, Links
<1>10. \A x \in view : t.records[x].position \in Nat
  BY <1>7, <1>8, WellKeptIs DEF Content
<1>11. \A x, y \in view : t.records[x].position <= t.records[y].position =>
                          s.records[x].position <= s.records[y].position
  <2> SUFFICES ASSUME NEW x \in view, NEW y \in view,
                      ~ (s.records[x].position <= s.records[y].position)
               PROVE  ~ (t.records[x].position <= t.records[y].position)
    OBVIOUS
  <2>1. s.records[y].position < s.records[x].position
    BY <1>4
  <2>2. t.records[y].position < t.records[x].position
    BY <1>2, <1>7, <2>1
  <2> QED BY <1>10, <2>2
<1>12. t.stale \subseteq Replaced(t)
  BY <1>7 DEF EmptyStore
<1> QED BY <1>7, <1>8, <1>9, <1>11, <1>12 DEF t

\* Any store is a later state of the empty one.
LEMMA EmptyGrows == ASSUME NEW t PROVE Grows(EmptyStore, t)
BY EmptyIsWellKept DEF Grows, EmptyStore

\* A child that begins (_run_child) has what it was lent, and nothing of its own.
LEMMA BeginsKeeps ==
  ASSUME ComposedInv, NEW r \in Children, stage[r] = "idle", NEW view,
         Projectable(store[Caller(r)], view), Begins(r, view), imported' = imported
  PROVE  ContentsKept'
<1> USE DEF ComposedInv, ContentsKept
<1> DEFINE caller == store[Caller(r)]
           child == Projected(store[Caller(r)], view)
<1>1. r \in Runs /\ Caller(r) \in Runs /\ Caller(r) # r /\ Len(Caller(r)) = Len(r) - 1
      /\ Len(r) \in Nat
  BY CallerIs
<1>2. WellKept(caller)
  BY <1>1 DEF StoresKept
<1>3. /\ WellKept(child) /\ Known(child) = view /\ child.stale \subseteq Replaced(child)
      /\ \A x \in view : Same(child.records[x], caller.records[x]) /\ Links(child.records[x]) \subseteq view
      /\ \A x, y \in view : child.records[x].position <= child.records[y].position =>
                            caller.records[x].position <= caller.records[y].position
  BY <1>2, ProjectedIs
<1> HIDE DEF child
<1>4. /\ store'[r] = child /\ \A q \in Runs \ {r} : store'[q] = store[q]
      /\ lent'[r] = view /\ \A q \in Children \ {r} : lent'[q] = lent[q]
      /\ stage'[r] = "running" /\ \A q \in Runs \ {r} : stage'[q] = stage[q]
      /\ ended' = ended
  BY <1>1 DEF Begins, ComposedTypeOK, child
<1>5. store[r] = EmptyStore /\ lent[r] = {} /\ ended[r] = "none"
  BY <1>1 DEF ImportsAgree, StagesAgree
<1>6. \A q \in Runs : Grows(store[q], store'[q])
  <2>1. \A q \in Runs : Grows(store[q], store[q])
    BY DEF Grows
  <2> QED BY <1>4, <1>5, <2>1, EmptyGrows
<1>7. \A q \in Children : Absorbed(q)' <=> Absorbed(q)
  BY <1>4 DEF Absorbed
<1>8. ImportsAgree'
  <2> SUFFICES ASSUME NEW q \in Children
               PROVE  /\ stage'[q] = "idle" => store'[q] = EmptyStore /\ lent'[q] = {}
                      /\ ~ Absorbed(q)' => imported'[q] = {}
                      /\ Absorbed(q)' => imported'[q] = {Scoped(q, id) : id \in Findings(q)'}
    BY DEF ImportsAgree
  <2>1. CASE q = r
    BY <1>4, <1>5, <1>7, <2>1 DEF ImportsAgree, Absorbed
  <2>2. CASE q # r
    <3>1. q \in Runs
      BY CallerIs
    <3>2. store'[q] = store[q] /\ lent'[q] = lent[q] /\ stage'[q] = stage[q]
      BY <1>4, <2>2, <3>1
    <3>3. Findings(q)' = Findings(q)
      BY <3>2 DEF Findings
    <3> QED BY <1>7, <3>2, <3>3 DEF ImportsAgree
  <2> QED BY <2>1, <2>2
<1>9. StoresKept'
  <2>1. \A q \in Children : q \in Runs
    BY CallerIs
  <2> QED BY <1>3, <1>4, <2>1 DEF StoresKept
<1>10. AllLent'
  <2> SUFFICES ASSUME NEW q \in Children PROVE Lent(q)'
    BY DEF AllLent
  <2>1. CASE q = r
    <3>1. Findings(r)' = {}
      BY <1>3, <1>4 DEF Findings
    <3>2. store'[Caller(r)] = caller
      BY <1>1, <1>4
    <3>3. view \subseteq Known(caller)
      BY DEF Projectable
    <3> QED BY <1>3, <1>4, <2>1, <3>1, <3>2, <3>3 DEF Lent
  <2>2. CASE q # r
    <3>1. q \in Runs /\ Caller(q) \in Runs
      BY CallerIs
    <3>2. Lent(q) /\ lent'[q] = lent[q]
      BY <1>4, <2>2 DEF AllLent
    <3> QED BY <1>6, <3>1, <3>2, LentIsKept
  <2> QED BY <2>1, <2>2
<1>11. NamesKept'
  <2> SUFFICES ASSUME NEW q \in Runs, NEW x \in Known(store'[q]) PROVE NameKept(q, x)'
    BY DEF NamesKept
  <2>1. CASE q = r
    <3>1. x \in view /\ view \subseteq Known(caller)
      BY <1>3, <1>4, <2>1 DEF Projectable
    <3>2. NameKept(Caller(r), x)
      BY <1>1, <3>1 DEF NamesKept
    <3>3. x \in Lendings(r)'
      BY <1>4, <3>1, CallerIs DEF Lendings
    <3>4. \/ \E n \in NamesUpTo(r) : x = Own(n)
          \/ Len(x) > 1 /\ Head(x) \in Children /\ Len(Head(x)) <= Len(r) + 1
      <4>1. CASE \E n \in NamesUpTo(Caller(r)) : x = Own(n)
        BY <1>1, <4>1, FoundNamesAre
      <4>2. CASE Len(x) > 1 /\ Head(x) \in Children /\ Len(Head(x)) <= Len(Caller(r)) + 1
        <5>1. Len(Head(x)) \in Nat
          BY <4>2, CallerIs
        <5> QED BY <1>1, <4>2, <5>1
      <4> QED BY <3>2, <4>1, <4>2 DEF NameKept
    <3> QED BY <2>1, <3>3, <3>4 DEF NameKept
  <2>2. CASE q # r
    <3>1. NameKept(q, x)
      BY <1>4, <2>2 DEF NamesKept
    <3>2. Lendings(q)' = Lendings(q)
      BY <1>4, <2>2 DEF Lendings, Children
    <3> QED BY <3>1, <3>2 DEF NameKept
  <2> QED BY <2>1, <2>2
<1>12. AllMirrored'
  <2> SUFFICES ASSUME NEW q \in Children, Absorbed(q)' PROVE Mirrored(q)'
    BY DEF AllMirrored
  <2>1. Absorbed(q) /\ Mirrored(q) /\ q # r
    BY <1>5, <1>7 DEF AllMirrored, Absorbed
  <2>2. q \in Runs /\ Caller(q) \in Runs
    BY CallerIs
  <2>3. store'[q] = store[q] /\ lent'[q] = lent[q]
    BY <1>4, <2>1, <2>2
  <2>4. CopyNames(q)' = CopyNames(q)
    BY <2>3 DEF CopyNames, InCaller
  <2> QED BY <1>6, <2>1, <2>2, <2>3, <2>4, MirrorIsKept DEF Mirrored
<1> QED BY <1>8, <1>9, <1>10, <1>11, <1>12

\* No name a child gave is known to its caller, so what the caller does not know is
\* exactly what the child found.
LEMMA NewAreFindings ==
  ASSUME ComposedInv, NamesDistinct, NEW r \in Children, stage[r] = "running"
  PROVE  /\ NewIn(store[r], store[Caller(r)]) = Findings(r)
         /\ \A x \in Findings(r) : x \in Ids /\ Scoped(r, x) \in Ids \ Known(store[Caller(r)])
<1> USE DEF ComposedInv, ContentsKept
<1> DEFINE c == Caller(r)
<1>1. r \in Runs /\ c \in Runs /\ Len(c) = Len(r) - 1 /\ Len(r) \in Nat
  BY CallerIs
<1>2. MayRunUnder(r) /\ imported[r] = {}
  BY <1>1 DEF StagesAgree, ImportsAgree, Absorbed
<1>3. Known(store[r]) \subseteq Ids /\ Known(store[c]) \subseteq Ids
  BY <1>1, WellKeptIs DEF StoresKept
<1>4. \A q \in Children : \A x \in imported[q] : Len(x) > 1 /\ Head(x) = q
  <2> SUFFICES ASSUME NEW q \in Children, NEW x \in imported[q] PROVE Len(x) > 1 /\ Head(x) = q
    OBVIOUS
  <2>1. PICK id \in Findings(q) : x = Scoped(q, id)
    BY DEF ImportsAgree
  <2>2. q \in Runs /\ id \in Known(store[q])
    BY <2>1, CallerIs DEF Findings
  <2>3. id \in Ids
    BY <2>2, WellKeptIs DEF StoresKept
  <2>4. \/ \E n \in NamesUpTo(q) : id = Own(n)
        \/ Len(id) > 1
    BY <2>2 DEF NamesKept, NameKept
  <2>5. Len(id) \in Nat /\ Len(id) > 0
    <3>1. CASE \E n \in NamesUpTo(q) : id = Own(n)
      BY <3>1, OwnNamesAre
    <3>2. CASE Len(id) > 1
      BY <3>2, <2>3 DEF Ids
    <3> QED BY <2>4, <3>1, <3>2
  <2>6. Len(Scoped(q, id)) = Len(id) + 1 /\ Head(Scoped(q, id)) = q
    BY <2>3 DEF Scoped, Ids
  <2> QED BY <2>1, <2>5, <2>6
<1>5. \A n \in FoundNames(r) : n \notin NamesUpTo(c)
  <2> SUFFICES ASSUME NEW n \in NamesOf(DefinitionOf(r)) PROVE n \notin NamesUpTo(c)
    BY CallerIs DEF FoundNames
  <2>1. n \notin SessionNames /\ \A i \in 0..(Len(r) - 1) : n \notin NamesOf(DefinitionAt(r, i))
    BY <1>2 DEF NamesDistinct
  <2>2. \A i \in 0..Len(c) : i \in 0..(Len(r) - 1) /\ DefinitionAt(c, i) = DefinitionAt(r, i)
    BY <1>1, CallerIs
  <2> QED BY <2>1, <2>2 DEF NamesUpTo
<1>6. lent[r] \subseteq Known(store[c])
  BY DEF AllLent, Lent
<1>7. ASSUME NEW x \in Findings(r), x \in Known(store[c])
      PROVE  FALSE
  <2>1. x \in Known(store[r]) /\ x \notin lent[r] /\ NameKept(r, x) /\ NameKept(c, x)
    BY <1>1, <1>7 DEF Findings, NamesKept
  <2>2. CASE \E n \in FoundNames(r) : x = Own(n)
    <3>1. PICK n \in FoundNames(r) : x = Own(n)
      BY <2>2
    <3>2. ~ (Len(x) > 1)
      BY <3>1, OwnNamesAre
    <3>3. PICK m \in NamesUpTo(c) : x = Own(m)
      BY <2>1, <3>2 DEF NameKept
    <3>4. n = m
      BY <3>1, <3>3, OwnNamesAre
    <3> QED BY <1>5, <3>4
  <2>3. CASE \E q \in Calls(r) : x \in imported[q]
    <3>1. PICK q \in Calls(r) : x \in imported[q]
      BY <2>3
    <3>2. q \in Children /\ Len(q) = Len(r) + 1
      <4>1. q \in Children /\ Caller(q) = r
        BY DEF Calls
      <4>2. Len(Caller(q)) = Len(q) - 1 /\ Len(q) \in Nat
        BY <4>1, CallerIs
      <4> QED BY <1>1, <4>1, <4>2
    <3>3. Len(x) > 1 /\ Head(x) = q
      BY <1>4, <3>1, <3>2
    <3>4. ~ \E n \in NamesUpTo(c) : x = Own(n)
      BY <3>3, OwnNamesAre
    <3>5. Len(q) <= Len(c) + 1
      BY <2>1, <3>3, <3>4 DEF NameKept
    <3> QED BY <1>1, <3>2, <3>5
  <2>4. r # Root
    BY CallerIs
  <2> QED BY <2>1, <2>2, <2>3, <2>4 DEF NameKept, Lendings
<1>8. ASSUME NEW x \in Findings(r)
      PROVE  x \in Ids /\ Scoped(r, x) \in Ids \ Known(store[c])
  <2>1. x \in Known(store[r]) /\ x \in Ids
    BY <1>3 DEF Findings
  <2>2. Scoped(r, x) \in Ids /\ Head(Scoped(r, x)) = r /\ Len(Scoped(r, x)) = Len(x) + 1
    <3>1. r \in Names \cup Children
      OBVIOUS
    <3>2. x \in Seq(Names \cup Children)
      BY <2>1 DEF Ids
    <3> DEFINE X == Names \cup Children
    <3> HIDE DEF X
    <3>3. r \in X /\ x \in Seq(X)
      BY <3>1, <3>2 DEF X
    <3>4. Scoped(r, x) \in Seq(X) /\ Head(Scoped(r, x)) = r /\ Len(Scoped(r, x)) = Len(x) + 1
      BY <3>3 DEF Scoped
    <3> QED BY <3>4 DEF Ids, X
  <2>3. Len(x) \in Nat /\ Len(x) > 0
    <3>1. \/ \E n \in NamesUpTo(r) : x = Own(n)
          \/ Len(x) > 1
      BY <1>1, <2>1 DEF NamesKept, NameKept
    <3>2. Len(x) \in Nat
      BY <2>1 DEF Ids
    <3>3. (\E n \in NamesUpTo(r) : x = Own(n)) => Len(x) = 1
      BY OwnNamesAre
    <3>4. Len(x) = 1 \/ Len(x) > 1
      BY <3>1, <3>3, Zenon
    <3> QED BY <3>2, <3>4
  <2>4. SUFFICES ASSUME Scoped(r, x) \in Known(store[c]) PROVE FALSE
    BY <2>1, <2>2
  <2> DEFINE y == Scoped(r, x)
  <2>5. Len(y) > 1 /\ Head(y) = r
    BY <2>2, <2>3
  <2>6. NameKept(c, y)
    BY <1>1, <2>4 DEF NamesKept
  <2> HIDE DEF y
  <2>7. CASE y \in Lendings(c)
    <3>1. c \in Children /\ y \in lent[c]
      BY <1>1, <2>7 DEF Lendings, Children
    <3>2. Caller(c) \in Runs /\ Len(Caller(c)) = Len(c) - 1 /\ y \in Known(store[Caller(c)])
      BY <3>1, CallerIs DEF AllLent, Lent
    <3>3. NameKept(Caller(c), y)
      BY <3>2 DEF NamesKept
    <3>4. ~ \E n \in NamesUpTo(Caller(c)) : y = Own(n)
      BY <2>5, OwnNamesAre
    <3>5. Len(r) <= Len(Caller(c)) + 1
      BY <2>5, <3>3, <3>4 DEF NameKept
    <3> QED BY <1>1, <3>2, <3>5
  <2>8. CASE \E n \in FoundNames(c) : y = Own(n)
    BY <2>5, <2>8, OwnNamesAre
  <2>9. CASE \E q \in Calls(c) : y \in imported[q]
    <3>1. PICK q \in Calls(c) : y \in imported[q]
      BY <2>9
    <3>2. q \in Children
      BY DEF Calls
    <3> QED BY <1>2, <1>4, <2>5, <3>1, <3>2
  <2> QED BY <2>6, <2>7, <2>8, <2>9 DEF NameKept
<1>9. NewIn(store[r], store[c]) = Findings(r)
  BY <1>6, <1>7 DEF NewIn, Findings
<1> QED BY <1>8, <1>9

\* A record as the caller has it: all its links renamed, all else as it was.
LEMMA RenamedIs ==
  ASSUME NEW r, NEW new, NEW made \in Content
  PROVE  LET left == Renamed(r, new, made) IN
         /\ left.completed = made.completed /\ left.expires = made.expires
         /\ left.dependencies = Mapped(r, new, made.dependencies)
         /\ left.supersedes = Mapped(r, new, made.supersedes)
         /\ left.conflicts = Mapped(r, new, made.conflicts)
         /\ (/\ Mapped(r, new, made.dependencies) \subseteq Ids
             /\ Mapped(r, new, made.supersedes) \subseteq Ids
             /\ Mapped(r, new, made.conflicts) \subseteq Ids) => left \in Content
<1> DEFINE d == Mapped(r, new, made.dependencies)
           u == Mapped(r, new, made.supersedes)
           c == Mapped(r, new, made.conflicts)
           left == [made EXCEPT !.dependencies = d, !.supersedes = u, !.conflicts = c]
<1>1. Renamed(r, new, made) = left
  BY DEF Renamed
<1> HIDE DEF d, u, c
<1>2. /\ left.completed = made.completed /\ left.expires = made.expires
      /\ left.dependencies = d /\ left.supersedes = u /\ left.conflicts = c
  BY DEF Content
<1>3. d \subseteq Ids /\ u \subseteq Ids /\ c \subseteq Ids => left \in Content
  BY DEF Content
<1> HIDE DEF left
<1> QED BY <1>1, <1>2, <1>3 DEF d, u, c

\* What the caller has once it imported the findings of a child
\* (_import_child_evidence).
LEMMA ImportsAre ==
  ASSUME ComposedInv, NamesDistinct, NEW r \in Children, stage[r] = "running"
  PROVE  LET caller == store[Caller(r)]
             t == WithImports(r, store[r], caller)
         IN  /\ WellKept(t) /\ Grows(caller, t)
             /\ Known(t) = Known(caller) \cup {Scoped(r, id) : id \in Findings(r)}
             /\ t.stale \subseteq caller.stale \cup Replaced(t)
             /\ Replaced(caller) \subseteq Replaced(t)
             /\ Mirrors(store[r], t, CopyNames(r))
<1> USE DEF ComposedInv, ContentsKept
<1> DEFINE caller == store[Caller(r)]
           child == store[r]
           new == Findings(r)
           name == [id \in new |-> Scoped(r, id)]
           content == [id \in new |-> Renamed(r, new, child.records[id])]
           f == CopyNames(r)
           t == WithImports(r, child, caller)
<1>1. r \in Runs /\ Caller(r) \in Runs
  BY CallerIs
<1>2. WellKept(child) /\ WellKept(caller) /\ Lent(r) /\ child.stale \subseteq Replaced(child)
  BY <1>1 DEF StoresKept, AllLent
<1>3. /\ NewIn(child, caller) = new
      /\ \A x \in new : x \in Ids /\ Scoped(r, x) \in Ids \ Known(caller)
  BY NewAreFindings
<1>4. t = AddedInOrder(caller, child, name, content)
  BY <1>3 DEF WithImports
<1>5. /\ new \subseteq Known(child) /\ lent[r] \subseteq Known(caller)
      /\ \A x \in Known(child) : x \in new \/ x \in lent[r]
      /\ \A x \in new : x \notin lent[r]
  BY <1>2 DEF Findings, Lent
<1>6. \A x \in Known(child) : f[x] = IF x \in new THEN Scoped(r, x) ELSE x
  BY <1>5 DEF CopyNames, InCaller
<1>7. \A x \in new : name[x] = Scoped(r, x) /\ name[x] = f[x]
  BY <1>5, <1>6
<1>8. DOMAIN name = new
  OBVIOUS
<1>9. \A x \in Known(child) : /\ child.records[x] \in Content
                              /\ child.records[x].position \in Nat
                              /\ \A ref \in Links(child.records[x]) :
                                   /\ ref \in Known(child)
                                   /\ child.records[ref].position < child.records[x].position
  BY <1>2, WellKeptIs DEF Content
<1>10. ASSUME NEW ids \in SUBSET Known(child)
       PROVE  Mapped(r, new, ids) = Image(f, ids)
  BY <1>6 DEF Mapped, Image
<1>11. \A x \in Known(child) : f[x] \in Ids
  BY <1>2, <1>3, <1>6, WellKeptIs, SMTT(30)
<1> HIDE DEF f, t, name
<1>12. ASSUME NEW x \in new
       PROVE  LET made == child.records[x]
                  left == Renamed(r, new, made)
              IN  /\ content[x] = left /\ left \in Content
                  /\ left.completed = made.completed /\ left.expires = made.expires
                  /\ left.dependencies = Image(f, made.dependencies)
                  /\ left.supersedes = Image(f, made.supersedes)
                  /\ left.conflicts = Image(f, made.conflicts)
                  /\ Links(left) = Image(f, Links(made))
  <2> DEFINE made == child.records[x]
             left == Renamed(r, new, made)
  <2>1. made \in Content /\ Links(made) \subseteq Known(child)
    BY <1>5, <1>9
  <2>2. /\ made.dependencies \in SUBSET Known(child) /\ made.supersedes \in SUBSET Known(child)
        /\ made.conflicts \in SUBSET Known(child)
    BY <2>1 DEF Links
  <2>3. /\ left.completed = made.completed /\ left.expires = made.expires
        /\ left.dependencies = Mapped(r, new, made.dependencies)
        /\ left.supersedes = Mapped(r, new, made.supersedes)
        /\ left.conflicts = Mapped(r, new, made.conflicts)
        /\ (/\ Mapped(r, new, made.dependencies) \subseteq Ids
            /\ Mapped(r, new, made.supersedes) \subseteq Ids
            /\ Mapped(r, new, made.conflicts) \subseteq Ids) => left \in Content
    BY <2>1, RenamedIs
  <2> HIDE DEF made, left
  <2>4. /\ left.dependencies = Image(f, made.dependencies)
        /\ left.supersedes = Image(f, made.supersedes)
        /\ left.conflicts = Image(f, made.conflicts)
    BY <1>10, <2>2, <2>3
  <2>5. \A S \in SUBSET Known(child) : Image(f, S) \subseteq Ids
    BY <1>11 DEF Image
  <2>6. left \in Content
    BY <2>2, <2>3, <2>4, <2>5
  <2>7. Links(left) = Image(f, Links(made))
    BY <2>4 DEF Links, Image
  <2> QED BY <2>3, <2>4, <2>6, <2>7 DEF made, left
<1> HIDE DEF content
<1>13. Addable(caller, child, name, content)
  <2>1. ASSUME NEW x \in new
        PROVE  Links(content[x]) \subseteq
                 Known(caller) \cup Image(name, Before(child, name, child.records[x].position))
    <3> SUFFICES ASSUME NEW ref \in Links(child.records[x])
                 PROVE  f[ref] \in Known(caller) \cup
                          Image(name, Before(child, name, child.records[x].position))
      BY <1>12 DEF Image
    <3>1. ref \in Known(child) /\ child.records[ref].position < child.records[x].position
      BY <1>5, <1>9
    <3>2. CASE ref \in new
      BY <1>7, <1>8, <3>1, <3>2 DEF Image, Before
    <3>3. CASE ref \notin new
      BY <1>5, <1>6, <3>1, <3>3
    <3> QED BY <3>2, <3>3
  <2>2. \A x, y \in new : name[x] = name[y] => x = y
    <3> SUFFICES ASSUME NEW x \in new, NEW y \in new, Scoped(r, x) = Scoped(r, y) PROVE x = y
      BY <1>7
    <3> DEFINE X == Names \cup Children
    <3>1. x \in Seq(X) /\ y \in Seq(X) /\ r \in X
      BY <1>3 DEF Ids
    <3> HIDE DEF X
    <3>2. Tail(<<r>> \o x) = x /\ Tail(<<r>> \o y) = y
      BY <3>1, SMTT(30)
    <3> QED BY <3>2 DEF Scoped
  <2> QED BY <1>3, <1>5, <1>7, <1>8, <1>12, <2>1, <2>2 DEF Addable
<1>14. /\ WellKept(t) /\ Grows(caller, t)
       /\ Known(t) = Known(caller) \cup Image(name, new)
       /\ \A x \in new : Same(t.records[name[x]], content[x])
       /\ \A x, y \in new : child.records[x].position < child.records[y].position =>
                              t.records[name[x]].position < t.records[name[y]].position
       /\ t.stale \subseteq caller.stale \cup Replaced(t) /\ Replaced(caller) \subseteq Replaced(t)
  BY <1>2, <1>4, <1>8, <1>13, AddedInOrderIs
<1>15. Image(name, new) = {Scoped(r, id) : id \in new}
  BY <1>7 DEF Image
<1>16. ASSUME NEW x \in Known(child)
       PROVE  /\ f[x] \in Known(t)
              /\ t.records[f[x]].completed = child.records[x].completed
              /\ t.records[f[x]].expires = child.records[x].expires
              /\ t.records[f[x]].dependencies = Image(f, child.records[x].dependencies)
              /\ t.records[f[x]].supersedes = Image(f, child.records[x].supersedes)
              /\ t.records[f[x]].conflicts = Image(f, child.records[x].conflicts)
  <2>1. CASE x \in new
    BY <1>6, <1>7, <1>12, <1>14, <1>15, <2>1, SMTT(30) DEF Same
  <2>2. CASE x \notin new
    <3>1. x \in lent[r] /\ f[x] = x /\ x \in Known(caller) /\ t.records[x] = caller.records[x]
      BY <1>5, <1>6, <1>14, <2>2 DEF Grows
    <3>2. Same(child.records[x], caller.records[x]) /\ Links(child.records[x]) \subseteq lent[r]
      BY <1>2, <3>1 DEF Lent
    <3>3. \A y \in lent[r] : f[y] = y
      BY <1>2, <1>5, <1>6 DEF Lent
    <3>4. \A ids \in SUBSET lent[r] : Image(f, ids) = ids
      BY <3>3 DEF Image
    <3>5. /\ child.records[x].dependencies \in SUBSET lent[r]
          /\ child.records[x].supersedes \in SUBSET lent[r]
          /\ child.records[x].conflicts \in SUBSET lent[r]
      BY <3>2 DEF Links
    <3> QED BY <1>14, <3>1, <3>2, <3>4, <3>5 DEF Same
  <2> QED BY <2>1, <2>2
<1>17. \A x \in Known(t) : t.records[x].position \in Nat
  BY <1>14, WellKeptIs DEF Content
<1>18. ASSUME NEW x \in Known(child), NEW y \in Known(child),
              child.records[x].position <= child.records[y].position
       PROVE  t.records[f[x]].position <= t.records[f[y]].position
  <2>1. CASE x \in new /\ y \in new
    <3>1. CASE x = y
      BY <1>16, <1>17, <3>1
    <3>2. CASE x # y
      <4>1. child.records[x].position # child.records[y].position
        BY <1>2, <3>2, WellKeptIs
      <4>2. child.records[x].position < child.records[y].position
        BY <1>9, <1>18, <4>1, SMTT(30)
      <4>3. t.records[f[x]].position < t.records[f[y]].position
        BY <1>7, <1>14, <2>1, <4>2
      <4> QED BY <1>16, <1>17, <4>3
    <3> QED BY <3>1, <3>2
  <2>2. CASE x \in new /\ y \in lent[r]
    <3>1. child.records[y].position < child.records[x].position
      BY <1>2, <2>2 DEF Lent
    <3> QED BY <1>9, <1>18, <3>1
  <2>3. CASE x \in lent[r] /\ y \in new
    <3>1. f[x] = x /\ x \in Known(caller) /\ t.records[x] = caller.records[x]
      BY <1>5, <1>6, <1>14, <2>3 DEF Grows
    <3>2. f[y] \in Known(t) \ Known(caller)
      BY <1>3, <1>7, <1>16, <2>3
    <3>3. t.records[f[x]].position < t.records[f[y]].position
      BY <1>14, <3>1, <3>2 DEF Grows
    <3> QED BY <1>16, <1>17, <3>3
  <2>4. CASE x \in lent[r] /\ y \in lent[r]
    <3>1. /\ f[x] = x /\ t.records[x] = caller.records[x]
          /\ f[y] = y /\ t.records[y] = caller.records[y]
      BY <1>5, <1>6, <1>14, <2>4 DEF Grows
    <3> QED BY <1>2, <1>18, <2>4, <3>1 DEF Lent
  <2> QED BY <1>5, <2>1, <2>2, <2>3, <2>4
<1>19. Copied(child, t, f)
  BY <1>16, <1>18 DEF Copied
<1>20. \A x \in child.stale : f[x] \in t.stale
  BY <1>2, <1>14, <1>19, CopyIsReplaced
<1>21. Mirrors(child, t, f)
  BY <1>16, <1>20 DEF Mirrors
<1> QED BY <1>14, <1>15, <1>21 DEF f, t

\* The end of a child whose findings its caller takes (_absorb_child_result).
LEMMA AbsorbsKeeps ==
  ASSUME ComposedInv, NamesDistinct, NEW r \in Children, stage[r] = "running",
         NEW how \in {"completed", "unresolved", "cancelled"}, Absorbs(r, how),
         stage' = [stage EXCEPT ![r] = IF ended'[r] = "completed" THEN "returned" ELSE "out"],
         lent' = lent
  PROVE  ContentsKept'
<1> USE DEF ComposedInv, ContentsKept
<1> DEFINE c == Caller(r)
           caller == store[c]
           child == store[r]
           t == WithImports(r, child, caller)
           left == {Scoped(r, id) : id \in Findings(r)}
<1>1. r \in Runs /\ c \in Runs /\ c # r /\ r # Root /\ Len(c) = Len(r) - 1 /\ Len(r) \in Nat
  BY CallerIs
<1>2. ended[r] = "none" /\ imported[r] = {} /\ ~ Absorbed(r)
  BY <1>1 DEF StagesAgree, ImportsAgree, Absorbed
<1>3. \A q \in Children : q \in Runs /\ Caller(q) \in Runs
  BY CallerIs
<1>4. stage[c] = "running" /\ ended[c] = "none"
  <2>1. r \in Calls(c)
    BY DEF Calls
  <2>2. ~ Quiet(c)
    BY <2>1 DEF Quiet
  <2> QED BY <1>1, <2>2 DEF StagesAgree
<1>5. /\ stage'[r] # "idle" /\ stage'[r] # "running"
      /\ \A q \in Runs \ {r} : stage'[q] = stage[q] /\ ended'[q] = ended[q]
  BY <1>1 DEF Absorbs, ComposedTypeOK
<1>6. CASE SupersedesCaller(child, caller)
  <2>1. store' = store /\ imported' = imported /\ ended'[r] = "refused"
    BY <1>1, <1>6 DEF Absorbs, ComposedTypeOK
  <2>2. \A q \in Children : Absorbed(q)' <=> Absorbed(q)
    BY <1>2, <1>3, <1>5, <2>1 DEF Absorbed
  <2>3. \A q \in Children : stage'[q] = "idle" => stage[q] = "idle"
    BY <1>3, <1>5
  <2>4. \A q \in Runs : Grows(store[q], store'[q]) /\ WellKept(store'[q])
    BY <2>1 DEF Grows, StoresKept
  <2>5. \A q \in Children : store'[q].stale \subseteq Replaced(store'[q])
    BY <2>1 DEF StoresKept
  <2> QED BY <2>1, <2>2, <2>3, <2>4, <2>5, AdditionsKeep
<1>7. CASE ~ SupersedesCaller(child, caller)
  <2>1. /\ NewIn(child, caller) = Findings(r)
        /\ WellKept(t) /\ Grows(caller, t) /\ Known(t) = Known(caller) \cup left
        /\ t.stale \subseteq caller.stale \cup Replaced(t) /\ Replaced(caller) \subseteq Replaced(t)
        /\ Mirrors(child, t, CopyNames(r))
    BY NewAreFindings, ImportsAre
  <2>2. /\ store' = [store EXCEPT ![c] = t]
        /\ imported' = [imported EXCEPT ![r] = left]
        /\ ended' = [ended EXCEPT ![r] = how]
    BY <1>7, <2>1 DEF Absorbs
  <2> HIDE DEF t, left
  <2>3. /\ store'[c] = t /\ \A q \in Runs \ {c} : store'[q] = store[q]
        /\ imported'[r] = left /\ \A q \in Children \ {r} : imported'[q] = imported[q]
        /\ ended'[r] = how
    BY <1>1, <2>2 DEF ComposedTypeOK
  <2>4. \A q \in Children \ {r} : (Absorbed(q)' <=> Absorbed(q)) /\ (Absorbed(q) => q # c)
    BY <1>3, <1>4, <1>5 DEF Absorbed
  <2>5. Absorbed(r)'
    BY <2>3 DEF Absorbed
  <2>6. \A q \in Runs : Grows(store[q], store'[q])
    <3>1. \A q \in Runs : Grows(store[q], store[q])
      BY DEF Grows
    <3> QED BY <2>1, <2>3, <3>1
  <2>7. Findings(r)' = Findings(r) /\ store'[r] = child
    BY <1>1, <2>3 DEF Findings
  <2>8. ImportsAgree'
    <3> SUFFICES ASSUME NEW q \in Children
                 PROVE  /\ stage'[q] = "idle" => store'[q] = EmptyStore /\ lent'[q] = {}
                        /\ ~ Absorbed(q)' => imported'[q] = {}
                        /\ Absorbed(q)' => imported'[q] = {Scoped(q, id) : id \in Findings(q)'}
      BY DEF ImportsAgree
    <3>1. CASE q = r
      BY <1>5, <2>3, <2>5, <2>7, <3>1 DEF left
    <3>2. CASE q # r
      <4>1. stage'[q] = stage[q] /\ imported'[q] = imported[q] /\ q \in Runs
        BY <1>3, <1>5, <2>3, <3>2
      <4>2. stage[q] = "idle" \/ Absorbed(q) => q # c
        BY <1>4, <2>4, <3>2
      <4>3. q # c => store'[q] = store[q] /\ Findings(q)' = Findings(q)
        BY <2>3, <4>1 DEF Findings
      <4> QED BY <2>4, <3>2, <4>1, <4>2, <4>3 DEF ImportsAgree
    <3> QED BY <3>1, <3>2
  <2>9. StoresKept'
    <3>1. \A q \in Runs : WellKept(store'[q])
      BY <2>1, <2>3 DEF StoresKept
    <3>2. \A q \in Children : store'[q].stale \subseteq Replaced(store'[q])
      BY <1>3, <2>1, <2>3 DEF StoresKept
    <3> QED BY <3>1, <3>2 DEF StoresKept
  <2>10. AllLent'
    BY <1>3, <2>6, LentIsKept DEF AllLent
  <2>11. NamesKept'
    <3> SUFFICES ASSUME NEW q \in Runs, NEW x \in Known(store'[q]) PROVE NameKept(q, x)'
      BY DEF NamesKept
    <3>1. ASSUME NameKept(q, x) PROVE NameKept(q, x)'
      <4>1. \A p \in Children : x \in imported[p] => x \in imported'[p]
        BY <1>2, <2>3
      <4>2. \A p \in Calls(q) : p \in Children
        BY DEF Calls
      <4> QED BY <3>1, <4>1, <4>2 DEF NameKept, Lendings
    <3>2. CASE x \in Known(store[q])
      BY <3>1, <3>2 DEF NamesKept
    <3>3. CASE x \notin Known(store[q])
      <4>1. q = c /\ x \in left
        BY <2>1, <2>3, <3>3
      <4>2. PICK id \in Findings(r) : x = Scoped(r, id)
        BY <4>1 DEF left
      <4>3. id \in Known(store[r]) /\ id \in Ids
        BY <4>2, NewAreFindings DEF Findings
      <4>4. Len(id) \in Nat /\ Len(id) > 0
        <5>1. \/ \E n \in NamesUpTo(r) : id = Own(n)
              \/ Len(id) > 1
          BY <1>1, <4>3 DEF NamesKept, NameKept
        <5>2. Len(id) \in Nat
          BY <4>3 DEF Ids
        <5>3. (\E n \in NamesUpTo(r) : id = Own(n)) => Len(id) > 0
          BY OwnNamesAre
        <5> QED BY <5>1, <5>2, <5>3
      <4>5. Len(x) > 1 /\ Head(x) = r
        <5> DEFINE X == Names \cup Children
        <5>1. id \in Seq(X) /\ r \in X
          BY <4>3 DEF Ids
        <5> HIDE DEF X
        <5>2. Len(<<r>> \o id) = Len(id) + 1 /\ Head(<<r>> \o id) = r
          BY <5>1
        <5> QED BY <4>2, <4>4, <5>2 DEF Scoped
      <4>6. r \in Calls(q) /\ x \in imported'[r] /\ Len(r) <= Len(q) + 1
        BY <1>1, <2>3, <4>1 DEF Calls
      <4> QED BY <4>5, <4>6 DEF NameKept
    <3> QED BY <3>2, <3>3
  <2>12. AllMirrored'
    <3> SUFFICES ASSUME NEW q \in Children, Absorbed(q)' PROVE Mirrored(q)'
      BY DEF AllMirrored
    <3>1. CASE q = r
      <4>1. CopyNames(r)' = CopyNames(r)
        BY <2>7 DEF CopyNames, InCaller
      <4> QED BY <2>1, <2>3, <2>7, <3>1, <4>1 DEF Mirrored
    <3>2. CASE q # r
      <4>1. Absorbed(q) /\ q # c
        BY <2>4, <3>2
      <4>2. Mirrored(q) /\ store'[q] = store[q] /\ Caller(q) \in Runs
        BY <1>3, <2>3, <4>1 DEF AllMirrored
      <4>3. CopyNames(q)' = CopyNames(q)
        BY <4>2 DEF CopyNames, InCaller
      <4> QED BY <2>6, <4>2, <4>3, MirrorIsKept DEF Mirrored
    <3> QED BY <3>1, <3>2
  <2> QED BY <2>8, <2>9, <2>10, <2>11, <2>12
<1> QED BY <1>6, <1>7

-----------------------------------------------------------------------------
\* One record of its own is added to the store of a run that goes on.
LEMMA OneAdditionKeeps ==
  ASSUME ComposedInv, NEW r \in Runs, stage[r] = "running",
         NEW n \in FoundNames(r), NEW record \in Content,
         MayAdd(store[r], Own(n), record),
         store' = [store EXCEPT ![r] = Added(@, Own(n), record)],
         lent' = lent, imported' = imported,
         \A q \in Children : (Absorbed(q)' <=> Absorbed(q))
                             /\ (stage'[q] = "idle" => stage[q] = "idle")
  PROVE  ContentsKept'
<1> USE DEF ComposedInv, ContentsKept
<1> DEFINE t == Added(store[r], Own(n), record)
<1>1. WellKept(store[r]) /\ n \in Names
  BY FoundNamesAre DEF StoresKept
<1>2. Own(n) \in Ids \ Known(store[r]) /\ Links(record) \subseteq Known(store[r])
  <2>1. Own(n) \in Ids
    <3> DEFINE X == Names \cup Children
    <3>1. n \in X
      BY <1>1
    <3> HIDE DEF X
    <3>2. <<n>> \in Seq(X)
      BY <3>1
    <3> QED BY <3>2 DEF Own, Ids, X
  <2>2. Store(store[r])!References(record) \subseteq Known(store[r])
    BY DEF MayAdd, Store!ReferencesValid, Store!Known, Known
  <2> QED BY <2>1, <2>2, StoreIs DEF MayAdd
<1>3. /\ WellKept(t) /\ Grows(store[r], t) /\ Known(t) = Known(store[r]) \cup {Own(n)}
      /\ t.stale \subseteq store[r].stale \cup Replaced(t)
      /\ Replaced(store[r]) \subseteq Replaced(t)
  BY <1>1, <1>2, AddedIs
<1>4. store'[r] = t /\ \A q \in Runs \ {r} : store'[q] = store[q]
  BY DEF ComposedTypeOK
<1> HIDE DEF t
<1>5. \A q \in Runs : /\ Grows(store[q], store'[q]) /\ WellKept(store'[q])
                      /\ \A x \in Known(store'[q]) \ Known(store[q]) :
                           \E m \in FoundNames(q) : x = Own(m)
  <2>1. \A q \in Runs : Grows(store[q], store[q])
    BY DEF Grows
  <2> QED BY <1>3, <1>4, <2>1 DEF StoresKept
<1>6. \A q \in Children : /\ store'[q].stale \subseteq Replaced(store'[q])
                          /\ Absorbed(q) \/ stage'[q] = "idle" => store'[q] = store[q]
  <2> SUFFICES ASSUME NEW q \in Children
               PROVE  /\ store'[q].stale \subseteq Replaced(store'[q])
                      /\ Absorbed(q) \/ stage'[q] = "idle" => store'[q] = store[q]
    OBVIOUS
  <2>1. q \in Runs
    BY CallerIs
  <2>2. CASE q = r
    <3>1. ~ Absorbed(q) /\ stage'[q] # "idle"
      BY <2>2 DEF StagesAgree, Absorbed
    <3> QED BY <1>3, <1>4, <2>2, <3>1 DEF StoresKept
  <2>3. CASE q # r
    BY <1>4, <2>1, <2>3 DEF StoresKept
  <2> QED BY <2>2, <2>3
<1> QED BY <1>5, <1>6, AdditionsKeep

\* A step that leaves the stores and what was passed between them.
LEMMA NothingAddedKeeps ==
  ASSUME ComposedInv, UNCHANGED <<store, lent, imported>>,
         \A q \in Children : (Absorbed(q)' <=> Absorbed(q))
                             /\ (stage'[q] = "idle" => stage[q] = "idle")
  PROVE  ContentsKept'
<1>1. \A q \in Runs : Grows(store[q], store'[q]) /\ WellKept(store'[q])
  BY DEF Grows, ComposedInv, ContentsKept, StoresKept
<1>2. \A q \in Children : store'[q].stale \subseteq Replaced(store'[q])
  BY DEF ComposedInv, ContentsKept, StoresKept
<1> QED BY <1>1, <1>2, AdditionsKeep

\* The host marks records of the root stale, and what derives from them.
LEMMA InvalidateKeeps ==
  ASSUME ComposedInv, NEW id, Invalidate(id)
  PROVE  ContentsKept'
<1> USE DEF ComposedInv, ContentsKept
<1> DEFINE s == store[Root]
           X == Store(s)!StaleWith(s.records, IndexOf(s.records), {id})
           t == [records |-> s.records, stale |-> X]
<1>1. Root \in Runs
  BY DEF Runs
<1>2. WellKept(s)
  BY <1>1 DEF StoresKept
<1>3. s = [records |-> s.records, stale |-> s.stale]
  BY <1>2, WellKeptIs
<1>4. store' = [store EXCEPT ![Root].stale = X]
  BY DEF Invalidate
<1>5. s.stale \subseteq X /\ X \subseteq s.stale \cup Known(s)
  <2>1. X = s.stale \cup {j \in UNION {Store(s)!Affected(DOMAIN s.records, IndexOf(s.records), x) :
                                          x \in {id}} : ~ s.records[j].completed}
    BY DEF Store!StaleWith
  <2>2. Store(s)!Affected(DOMAIN s.records, IndexOf(s.records), id) \subseteq Known(s)
    BY DEF Store!Affected, Known
  <2> HIDE DEF X, s
  <2> QED BY <2>1, <2>2
<1> HIDE DEF X
<1>6. store'[Root] = t /\ \A q \in Runs \ {Root} : store'[q] = store[q]
  BY <1>1, <1>3, <1>4 DEF ComposedTypeOK
<1>7. t.records = s.records /\ t.stale = X /\ Known(t) = Known(s)
  BY DEF Known
<1> HIDE DEF t
<1>8. Grows(s, t)
  BY <1>5, <1>7 DEF Grows
<1>9. \A x \in Known(s) : s.records[x].position \in Nat
  BY <1>2, WellKeptIs DEF Content
<1>10. \A x \in Known(s) : ReplacedBy(t, x) = ReplacedBy(s, x)
  BY <1>2, <1>7, <1>8, <1>9, ReplacedIsKept
<1>11. Replaced(t) = Replaced(s)
  BY <1>7, <1>10 DEF Replaced
<1>12. WellKept(t)
  <2>1. t = [records |-> t.records, stale |-> t.stale]
    BY <1>7 DEF t
  <2>2. Replaced(t) \subseteq t.stale /\ t.stale \subseteq Known(t)
    BY <1>2, <1>5, <1>7, <1>11, WellKeptIs
  <2> QED BY <1>2, <1>7, <2>1, <2>2, WellKeptIs
<1>13. \A q \in Runs : Grows(store[q], store'[q]) /\ WellKept(store'[q])
                       /\ Known(store'[q]) = Known(store[q])
  <2>1. \A q \in Runs : Grows(store[q], store[q])
    BY DEF Grows
  <2> QED BY <1>6, <1>7, <1>8, <1>12, <2>1 DEF StoresKept
<1>14. \A q \in Children : store'[q] = store[q] /\ store'[q].stale \subseteq Replaced(store'[q])
  BY <1>6, CallerIs DEF StoresKept
<1>15. UNCHANGED <<stage, ended, lent, imported>>
  BY DEF Invalidate
<1>16. \A q \in Children : Absorbed(q)' <=> Absorbed(q)
  BY <1>15 DEF Absorbed
<1> QED BY <1>13, <1>14, <1>15, <1>16, AdditionsKeep

\* Changing the links of a record leaves a record.
LEMMA RecordsAre ==
  /\ Record0 \in Content
  /\ \A r \in Content : \A ids \in SUBSET Ids : \A completed \in BOOLEAN :
       /\ [r EXCEPT !.dependencies = ids, !.completed = completed] \in Content
       /\ [r EXCEPT !.dependencies = ids] \in Content
       /\ [r EXCEPT !.supersedes = ids] \in Content
       /\ [r EXCEPT !.conflicts = ids] \in Content
<1>1. MaxTime + 1 \in 0..(MaxTime + 1) /\ {} \in SUBSET Ids
  BY BoundsAssumption
<1>2. Record0 \in Content
  BY <1>1 DEF Record0, Content
<1>3. ASSUME NEW r \in Content, NEW ids \in SUBSET Ids, NEW completed \in BOOLEAN
      PROVE  /\ [r EXCEPT !.dependencies = ids, !.completed = completed] \in Content
             /\ [r EXCEPT !.dependencies = ids] \in Content
             /\ [r EXCEPT !.supersedes = ids] \in Content
             /\ [r EXCEPT !.conflicts = ids] \in Content
  BY DEF Content
<1> QED BY <1>2, <1>3

\* What a node leaves is a record.
LEMMA FoundRecordsAre ==
  ASSUME NEW s, WellKept(s)
  PROVE  FoundRecords(s) \subseteq Content
<1>1. \A id \in Known(s) : {id} \in SUBSET Ids
  BY WellKeptIs
<1>2. \A d \in {{}} \cup {{id} : id \in Known(s)} : d \in SUBSET Ids
  BY <1>1
<1> SUFFICES ASSUME NEW record \in FoundRecords(s) PROVE record \in Content
  OBVIOUS
<1>3. \A d \in {{}} \cup {{id} : id \in Known(s)} :
        Deriving(d, FALSE) \in Content /\ Deriving(d, TRUE) \in Content
  BY <1>2, RecordsAre DEF Deriving
<1>4. \A id \in Known(s) : /\ [Record0 EXCEPT !.supersedes = {id}] \in Content
                           /\ [Record0 EXCEPT !.conflicts = {id}] \in Content
  BY <1>1, RecordsAre
<1> QED BY <1>3, <1>4 DEF FoundRecords

\* What a wrapper records of a child that completed is a record.
LEMMA OutputRecordIs ==
  ASSUME NEW r \in Children, NEW s, WellKept(s), NEW id, MayAdd(s, id, OutputRecord(r))
  PROVE  OutputRecord(r) \in Content
<1> DEFINE d == {Own(n) : n \in ToSet(Read[Last(r)])} \cup imported[r]
           record == [Record0 EXCEPT !.dependencies = d]
<1>1. OutputRecord(r) = record
  BY DEF OutputRecord
<1>2. Links(OutputRecord(r)) \subseteq Known(s)
  BY StoreIs DEF MayAdd, Store!ReferencesValid, Store!Known, Known
<1> HIDE DEF d
<1>3. record.dependencies = d
  BY DEF Record0
<1>4. d \subseteq Ids
  BY <1>1, <1>2, <1>3, WellKeptIs DEF Links
<1> QED BY <1>1, <1>4, RecordsAre

\* A retrieval changes only what it holds of the ledger, and how far it is.
LEMMA RetrievalChanges ==
  ASSUME NEW x, RetrievalStep(x)
  PROVE  /\ UNCHANGED <<store, stage, ended, lent, imported, step, cancelling, changes, cancelled>>
         /\ \E new \in {"working", "refused", "done", "raised", "cancelled"} :
              retrieval' = [retrieval EXCEPT ![x] = new]
BY DEF RetrievalStep, BeginRetrieval, MayBeginRetrieval, AdmitRetrieval, MayAdmitRetrieval,
       EndRetrieval, MayEndRetrieval

\* A run with no node in a call stays so while no node enters one.
LEMMA QuietIsKept ==
  ASSUME NEW r, Quiet(r),
         \A s \in StepsOf(r) : step'[s] = step[s] \/ step'[s] \in {"idle", "done", "raised"},
         \A q \in Calls(r) : stage'[q] = stage[q] \/ stage'[q] \in {"idle", "out"}
  PROVE  Quiet(r)'
BY DEF Quiet

\* A node of a running run goes on: no other run notices.
LEMMA StepChangesStages ==
  ASSUME ComposedTypeOK, StagesAgree, NEW r \in Runs, stage[r] = "running",
         NEW n \in Steps[DefinitionOf(r)],
         NEW new \in StepStates, step' = [step EXCEPT ![<<r, n>>] = new],
         UNCHANGED <<stage, ended>>
  PROVE  step' \in [AllSteps -> StepStates] /\ StagesAgree'
<1>1. step' \in [AllSteps -> StepStates]
  BY DEF ComposedTypeOK
<1>2. ASSUME NEW q \in Runs, stage[q] # "running" PROVE Quiet(q)'
  <2>1. Quiet(q) /\ q # r
    BY <1>2 DEF StagesAgree
  <2>2. \A s \in StepsOf(q) : s \in AllSteps /\ s # <<r, n>>
    BY <2>1 DEF StepsOf, AllSteps
  <2>3. \A s \in StepsOf(q) : step'[s] = step[s]
    BY <2>2 DEF ComposedTypeOK
  <2> QED BY <2>1, <2>3, QuietIsKept
<1>3. \A q \in Children : MayRunUnder(q)' = MayRunUnder(q)
  BY DEF MayRunUnder
<1> QED BY <1>1, <1>2, <1>3 DEF StagesAgree

\* A run is begun or ended while its caller, if it has one, goes on.
LEMMA RunChangesStages ==
  ASSUME ComposedTypeOK, StagesAgree,
         NEW r \in Runs, r # Root => stage[Caller(r)] = "running",
         NEW new \in Stages \ {"idle"}, stage' = [stage EXCEPT ![r] = new],
         new = "running" => r \in Children /\ MayRunUnder(r), Quiet(r),
         ended' \in [Runs -> Endings], \A q \in Runs \ {r} : ended'[q] = ended[q],
         new = "running" => ended'[r] = "none", new = "returned" => ended'[r] = "completed",
         step' = step
  PROVE  stage' \in [Runs -> Stages] /\ StagesAgree'
<1>1. stage' \in [Runs -> Stages] /\ stage'[r] = new
      /\ \A q \in Runs \ {r} : stage'[q] = stage[q]
  BY DEF ComposedTypeOK
<1>2. \A q \in Children : q \in Runs
  BY CallerIs
<1>3. ASSUME NEW q \in Runs, stage'[q] # "running" PROVE Quiet(q)'
  <2>1. Quiet(q)
    BY <1>1, <1>3 DEF StagesAgree
  <2>2. r \notin Calls(q)
    <3>1. ASSUME r \in Calls(q) PROVE FALSE
      <4>1. r \in Children /\ Caller(r) = q
        BY <3>1 DEF Calls
      <4>2. q # r /\ r # Root
        BY <4>1, CallerIs
      <4> QED BY <1>1, <1>3, <4>1, <4>2
    <3> QED BY <3>1
  <2>3. \A p \in Calls(q) : p \in Runs /\ p # r
    BY <1>2, <2>2 DEF Calls
  <2> QED BY <1>1, <2>1, <2>3, QuietIsKept
<1>4. \A q \in Children : MayRunUnder(q)' = MayRunUnder(q)
  BY DEF MayRunUnder
<1> QED BY <1>1, <1>2, <1>3, <1>4 DEF StagesAgree

\* While a child is out of its wrapper's hands its caller goes on.
LEMMA CallerGoesOn ==
  ASSUME StagesAgree, NEW r \in Children, stage[r] \notin {"idle", "out"}
  PROVE  stage[Caller(r)] = "running"
<1>1. r \in Calls(Caller(r)) /\ Caller(r) \in Runs
  BY CallerIs DEF Calls
<1>2. ~ Quiet(Caller(r))
  BY <1>1 DEF Quiet
<1> QED BY <1>1, <1>2 DEF StagesAgree

-----------------------------------------------------------------------------
(* How the runs stand to each other, action by action, whatever is in their stores *)
(* and whatever names they give.                                                   *)

\* A call is refused, or a child begins under a caller that goes on.
LEMMA StartChildKeepsStages ==
  ASSUME ComposedTypeOK, StagesAgree, NEW r \in Children, StartChild(r)
  PROVE  ComposedTypeOK' /\ StagesAgree'
<1>1. r \in Runs /\ Caller(r) \in Runs /\ r # Root
  BY CallerIs
<1>2. /\ stage[r] = "idle" /\ stage[Caller(r)] = "running" /\ step' = step /\ imported' = imported
      /\ Quiet(r) /\ ended[r] = "none"
  BY <1>1 DEF StartChild, MayBeCalled, ViewsFor, Works, StagesAgree
<1>3. CASE Refused(r)
  <2>1. /\ stage' = [stage EXCEPT ![r] = "out"] /\ ended' = [ended EXCEPT ![r] = "refused"]
        /\ UNCHANGED <<store, lent>>
    BY <1>3 DEF Refused
  <2>2. ended' \in [Runs -> Endings] /\ \A q \in Runs \ {r} : ended'[q] = ended[q]
    BY <2>1 DEF ComposedTypeOK, Endings
  <2>3. stage' \in [Runs -> Stages] /\ StagesAgree'
    BY <1>1, <1>2, <2>1, <2>2, RunChangesStages DEF Stages
  <2> QED BY <1>2, <2>1, <2>2, <2>3 DEF ComposedTypeOK
<1>4. ASSUME NEW view, Begins(r, view), MayRunUnder(r)
      PROVE  ComposedTypeOK' /\ StagesAgree'
  <2>1. /\ stage' = [stage EXCEPT ![r] = "running"] /\ ended' = ended
        /\ store' = [store EXCEPT ![r] = Projected(store[Caller(r)], view)]
        /\ lent' = [lent EXCEPT ![r] = view]
    BY <1>4 DEF Begins
  <2>2. store' = [q \in Runs |-> store'[q]] /\ lent' = [q \in Children |-> lent'[q]]
    BY <2>1 DEF ComposedTypeOK
  <2>3. ended' \in [Runs -> Endings] /\ \A q \in Runs \ {r} : ended'[q] = ended[q]
    BY <2>1 DEF ComposedTypeOK
  <2>4. stage' \in [Runs -> Stages] /\ StagesAgree'
    BY <1>1, <1>2, <1>4, <2>1, <2>3, RunChangesStages DEF Stages
  <2> QED BY <1>2, <2>2, <2>3, <2>4 DEF ComposedTypeOK
<1>5. \/ Refused(r)
      \/ MayRunUnder(r) /\ \E view : Begins(r, view)
  BY DEF StartChild, MayBeCalled, ViewsFor
<1> QED BY <1>3, <1>4, <1>5

\* A node goes on only in a run that is running.
LEMMA NodeKeepsStages ==
  ASSUME ComposedTypeOK, StagesAgree, NEW r \in Runs, NEW n \in Steps[DefinitionOf(r)],
         BeginStep(r, n) \/ AdmitStep(r, n) \/ EndStep(r, n) \/ CancelStep(r, n)
  PROVE  /\ ComposedTypeOK' /\ StagesAgree' /\ stage[r] = "running"
         /\ UNCHANGED <<stage, ended, lent, imported>>
<1>1. <<r, n>> \in StepsOf(r) /\ <<r, n>> \in AllSteps
  BY DEF StepsOf, AllSteps
<1>2. stage[r] = "running"
  <2>1. CASE CancelStep(r, n)
    <3>1. ~ (step[<<r, n>>] \in {"idle", "done", "raised"})
      BY <2>1 DEF CancelStep, MayBeCancelled
    <3>2. ~ Quiet(r)
      BY <1>1, <3>1 DEF Quiet
    <3> QED BY <3>2 DEF StagesAgree
  <2>2. CASE BeginStep(r, n) \/ AdmitStep(r, n) \/ EndStep(r, n)
    BY <2>2 DEF BeginStep, MayBegin, AdmitStep, MayBeAdmitted, EndStep, MayEnd, Works
  <2> QED BY <2>1, <2>2
<1>3. UNCHANGED <<stage, ended, lent, imported>>
      /\ \E new \in StepStates : step' = [step EXCEPT ![<<r, n>>] = new]
  BY DEF BeginStep, MayBegin, AdmitStep, MayBeAdmitted, EndStep, MayEnd, CancelStep,
         MayBeCancelled, StepStates
<1>4. step' \in [AllSteps -> StepStates] /\ StagesAgree'
  <2>1. PICK new \in StepStates : step' = [step EXCEPT ![<<r, n>>] = new]
    BY <1>3
  <2> QED BY <1>2, <1>3, <2>1, StepChangesStages
<1>5. store' = [q \in Runs |-> store'[q]]
  <2>1. store' = store \/ \E t : store' = [store EXCEPT ![r] = t]
    BY DEF BeginStep, MayBegin, AdmitStep, MayBeAdmitted, EndStep, MayEnd, CancelStep,
           MayBeCancelled
  <2> QED BY <2>1 DEF ComposedTypeOK
<1> QED BY <1>2, <1>3, <1>4, <1>5 DEF ComposedTypeOK

\* A run ends with none of its nodes in a call, under a caller that goes on.
LEMMA EndRunKeepsStages ==
  ASSUME ComposedTypeOK, StagesAgree, NEW r \in Runs, EndRun(r)
  PROVE  ComposedTypeOK' /\ StagesAgree' /\ \A q \in Runs \ {r} : ended'[q] = ended[q]
<1>1. /\ stage[r] = "running" /\ Quiet(r) /\ ended[r] = "none"
      /\ UNCHANGED <<lent, step>>
  BY DEF EndRun, MayFinish, StagesAgree
<1>2. PICK how \in Ends(r) :
        IF r = Root
        THEN /\ ended' = [ended EXCEPT ![r] = how]
             /\ stage' = [stage EXCEPT ![r] = "out"]
             /\ UNCHANGED <<store, imported>>
        ELSE /\ Absorbs(r, how)
             /\ stage' = [stage EXCEPT ![r] = IF ended'[r] = "completed" THEN "returned" ELSE "out"]
  BY DEF EndRun, MayFinish
<1>3. how \in {"completed", "unresolved", "cancelled"}
  BY DEF Ends
<1>4. ended' \in [Runs -> Endings] /\ \A q \in Runs \ {r} : ended'[q] = ended[q]
  BY <1>2, <1>3 DEF Absorbs, ComposedTypeOK, Endings
<1>5. CASE r = Root
  <2>1. stage' \in [Runs -> Stages] /\ StagesAgree'
    BY <1>1, <1>2, <1>4, <1>5, RunChangesStages DEF Stages
  <2> QED BY <1>1, <1>2, <1>4, <1>5, <2>1 DEF ComposedTypeOK
<1>6. CASE r # Root
  <2>1. r \in Children
    BY <1>6 DEF Children
  <2>2. stage[Caller(r)] = "running"
    BY <1>1, <2>1, CallerGoesOn
  <2> DEFINE new == IF ended'[r] = "completed" THEN "returned" ELSE "out"
  <2>3. new \in Stages \ {"idle"} /\ new # "running" /\ (new = "returned" => ended'[r] = "completed")
    BY DEF Stages
  <2>4. Absorbs(r, how) /\ stage' = [stage EXCEPT ![r] = new]
    BY <1>2, <1>6
  <2> HIDE DEF new
  <2>5. stage' \in [Runs -> Stages] /\ StagesAgree'
    BY <1>1, <1>4, <2>2, <2>3, <2>4, RunChangesStages
  <2>6. /\ store' = store \/ \E t : store' = [store EXCEPT ![Caller(r)] = t]
        /\ imported' = imported \/ \E i : imported' = [imported EXCEPT ![r] = i]
    BY <2>4 DEF Absorbs
  <2>7. store' = [q \in Runs |-> store'[q]] /\ imported' = [q \in Children |-> imported'[q]]
    BY <2>6 DEF ComposedTypeOK
  <2> QED BY <1>1, <1>4, <2>5, <2>7 DEF ComposedTypeOK
<1> QED BY <1>4, <1>5, <1>6

\* The wrapper of a child that returned goes on, under a caller that does.
LEMMA WrapperKeepsStages ==
  ASSUME ComposedTypeOK, StagesAgree, NEW r \in Children, RecordOutput(r) \/ DropOutput(r)
  PROVE  /\ ComposedTypeOK' /\ StagesAgree' /\ stage[Caller(r)] = "running"
         /\ ended[r] = "completed" /\ ended'[r] \in {"completed", "failed", "cancelled"}
         /\ stage'[r] = "out"
         /\ \A q \in Runs \ {r} : ended'[q] = ended[q] /\ stage'[q] = stage[q]
<1>1. r \in Runs /\ Caller(r) \in Runs /\ r # Root
  BY CallerIs
<1>2. /\ stage[r] = "returned" /\ stage' = [stage EXCEPT ![r] = "out"]
      /\ UNCHANGED <<lent, imported, step>>
  BY DEF RecordOutput, DropOutput
<1>3. stage[Caller(r)] = "running" /\ Quiet(r) /\ ended[r] = "completed"
  BY <1>1, <1>2, CallerGoesOn DEF StagesAgree
<1>4. \/ ended' = ended
      \/ ended' = [ended EXCEPT ![r] = "failed"]
      \/ ended' = [ended EXCEPT ![r] = "cancelled"]
  BY DEF RecordOutput, DropOutput
<1>5. /\ ended' \in [Runs -> Endings] /\ \A q \in Runs \ {r} : ended'[q] = ended[q]
      /\ ended'[r] \in {"completed", "failed", "cancelled"}
  BY <1>1, <1>3, <1>4 DEF ComposedTypeOK, Endings
<1>6. stage'[r] = "out" /\ \A q \in Runs \ {r} : stage'[q] = stage[q]
  BY <1>1, <1>2 DEF ComposedTypeOK
<1>7. stage' \in [Runs -> Stages] /\ StagesAgree'
  BY <1>1, <1>2, <1>3, <1>5, RunChangesStages DEF Stages
<1>8. store' = [q \in Runs |-> store'[q]]
  <2>1. store' = store \/ \E t : store' = [store EXCEPT ![Caller(r)] = t]
    BY DEF RecordOutput, DropOutput
  <2> QED BY <2>1 DEF ComposedTypeOK
<1> QED BY <1>2, <1>3, <1>5, <1>6, <1>7, <1>8 DEF ComposedTypeOK

\* A retrieval goes on, or the host cancels runs, invalidates records of the root, or has
\* its result.
LEMMA HostKeepsStages ==
  ASSUME ComposedTypeOK, StagesAgree,
         \/ \E x \in AllRetrievals : RetrievalStep(x)
         \/ \E r \in Runs : Cancel(r)
         \/ \E id \in OwnNames : Invalidate(id)
         \/ UNCHANGED compositionVars
  PROVE  ComposedTypeOK' /\ StagesAgree' /\ UNCHANGED <<stage, ended, lent, imported, step>>
<1>1. UNCHANGED <<stage, ended, lent, imported, step>>
  BY RetrievalChanges DEF Cancel, Invalidate, compositionVars, composed
<1>2. \A q \in Runs : Quiet(q)' = Quiet(q)
  BY <1>1 DEF Quiet
<1>3. \A q \in Children : MayRunUnder(q)' = MayRunUnder(q)
  BY DEF MayRunUnder
<1>4. StagesAgree'
  BY <1>1, <1>2, <1>3 DEF StagesAgree
<1>5. store' = [q \in Runs |-> store'[q]]
  <2>1. store' = store \/ \E t : store' = [store EXCEPT ![Root] = t]
    BY RetrievalChanges DEF Cancel, Invalidate, compositionVars, composed
  <2> QED BY <2>1 DEF ComposedTypeOK
<1> QED BY <1>1, <1>4, <1>5 DEF ComposedTypeOK

\* A root that runs, and no child yet.
LEMMA InitStages == ASSUME ComposedInit PROVE ComposedTypeOK /\ StagesAgree
<1>1. PICK session \in Sessions : store = [r \in Runs |-> IF r = Root THEN session ELSE EmptyStore]
  BY DEF ComposedInit
<1>2. /\ stage = [r \in Runs |-> IF r = Root THEN "running" ELSE "idle"]
      /\ ended = [r \in Runs |-> "none"] /\ step = [s \in AllSteps |-> "idle"]
      /\ lent = [r \in Children |-> {}] /\ imported = [r \in Children |-> {}]
  BY DEF ComposedInit
<1>3. Root \in Runs /\ \A r \in Children : r \in Runs /\ r # Root /\ Caller(r) \in Runs
  BY CallerIs DEF Runs
<1>4. ComposedTypeOK
  BY <1>1, <1>2 DEF ComposedTypeOK, Stages, Endings, StepStates
<1>5. \A r \in Runs : Quiet(r)
  <2>1. \A r \in Runs : \A s \in StepsOf(r) : step[s] = "idle"
    BY <1>2 DEF AllSteps
  <2>2. \A q \in Children : stage[q] = "idle"
    BY <1>2, <1>3
  <2> QED BY <2>1, <2>2 DEF Quiet, Calls
<1>6. \A r \in Children : stage[r] # "running"
  BY <1>2, <1>3
<1>7. \A r \in Runs : stage[r] # "returned" /\ ended[r] = "none"
  BY <1>2
<1> QED BY <1>4, <1>5, <1>6, <1>7 DEF StagesAgree

\* Every step keeps how the runs stand to each other.
LEMMA StepKeepsStages ==
  ASSUME ComposedTypeOK, StagesAgree, [ComposedNext]_compositionVars
  PROVE  ComposedTypeOK' /\ StagesAgree'
<1>1. ASSUME NEW r \in Runs, RunStep(r) PROVE ComposedTypeOK' /\ StagesAgree'
  BY <1>1, NodeKeepsStages, EndRunKeepsStages DEF RunStep
<1>2. ASSUME NEW r \in Children, WrapperStep(r) PROVE ComposedTypeOK' /\ StagesAgree'
  BY <1>2, StartChildKeepsStages, WrapperKeepsStages DEF WrapperStep
<1>3. CASE Finished
  BY <1>3, HostKeepsStages DEF Finished
<1> QED BY <1>1, <1>2, <1>3, HostKeepsStages DEF ComposedNext, Progress

-----------------------------------------------------------------------------
(* The invariant, action by action. *)

\* agent_as_tool: a call that is refused, or a child that begins over what it is lent.
LEMMA StartChildKeeps ==
  ASSUME ComposedInv, NEW r \in Children, StartChild(r)
  PROVE  ComposedInv'
<1> USE DEF ComposedInv
<1>1. r \in Runs /\ Caller(r) \in Runs /\ r # Root
  BY CallerIs
<1>2. /\ stage[r] = "idle" /\ stage[Caller(r)] = "running" /\ step' = step /\ imported' = imported
      /\ Quiet(r) /\ ended[r] = "none"
  BY <1>1 DEF StartChild, MayBeCalled, ViewsFor, Works, StagesAgree
<1>3. ASSUME Refused(r) PROVE ContentsKept'
  <2>1. /\ stage' = [stage EXCEPT ![r] = "out"] /\ ended' = [ended EXCEPT ![r] = "refused"]
        /\ UNCHANGED <<store, lent>>
    BY <1>3 DEF Refused
  <2>2. \A q \in Runs \ {r} : ended'[q] = ended[q] /\ stage'[q] = stage[q]
    BY <2>1 DEF ComposedTypeOK
  <2>3. ended'[r] = "refused" /\ stage'[r] = "out"
    BY <1>1, <2>1 DEF ComposedTypeOK
  <2>4. \A q \in Children : (Absorbed(q)' <=> Absorbed(q)) /\ (stage'[q] = "idle" => stage[q] = "idle")
    BY <1>1, <1>2, <2>2, <2>3, CallerIs DEF Absorbed
  <2> QED BY <1>2, <2>1, <2>4, NothingAddedKeeps
<1>4. ASSUME NEW view, Projectable(store[Caller(r)], view), Begins(r, view), MayRunUnder(r)
      PROVE  ContentsKept'
  BY <1>2, <1>4, BeginsKeeps
<1>5. \/ Refused(r)
      \/ MayRunUnder(r) /\ \E view : Projectable(store[Caller(r)], view) /\ Begins(r, view)
  BY DEF StartChild, MayBeCalled, ViewsFor
<1>6. ContentsKept'
  BY <1>3, <1>4, <1>5
<1> QED BY <1>6, StartChildKeepsStages

\* A node is admitted, or ends and leaves at most one record.
LEMMA NodeKeeps ==
  ASSUME ComposedInv, NEW r \in Runs, NEW n \in Steps[DefinitionOf(r)],
         BeginStep(r, n) \/ AdmitStep(r, n) \/ EndStep(r, n) \/ CancelStep(r, n)
  PROVE  ComposedInv'
<1> USE DEF ComposedInv
<1>1. /\ ComposedTypeOK' /\ StagesAgree' /\ stage[r] = "running"
      /\ UNCHANGED <<stage, ended, lent, imported>>
  BY NodeKeepsStages
<1>2. \A q \in Children : (Absorbed(q)' <=> Absorbed(q)) /\ (stage'[q] = "idle" => stage[q] = "idle")
  BY <1>1 DEF Absorbed
<1>3. \/ store' = store
      \/ \E record \in FoundRecords(store[r]) :
           /\ MayAdd(store[r], Own(n), record)
           /\ store' = [store EXCEPT ![r] = Added(@, Own(n), record)]
  BY DEF BeginStep, MayBegin, AdmitStep, MayBeAdmitted, EndStep, MayEnd, CancelStep,
         MayBeCancelled
<1>4. CASE store' = store
  BY <1>1, <1>2, <1>4, NothingAddedKeeps
<1>5. ASSUME NEW record \in FoundRecords(store[r]), MayAdd(store[r], Own(n), record),
             store' = [store EXCEPT ![r] = Added(@, Own(n), record)]
      PROVE  ContentsKept'
  <2>1. record \in Content
    BY FoundRecordsAre DEF ContentsKept, StoresKept
  <2>2. n \in FoundNames(r)
    BY DEF FoundNames, NamesOf
  <2> QED BY <1>1, <1>2, <1>5, <2>1, <2>2, OneAdditionKeeps
<1> QED BY <1>1, <1>3, <1>4, <1>5

\* A run ends and leaves its caller what it found.
LEMMA EndRunKeeps ==
  ASSUME NamesDistinct, ComposedInv, NEW r \in Runs, EndRun(r)
  PROVE  ComposedInv'
<1> USE DEF ComposedInv
<1>1. /\ stage[r] = "running" /\ Quiet(r) /\ ended[r] = "none"
      /\ UNCHANGED <<lent, step>>
  BY DEF EndRun, MayFinish, StagesAgree
<1>2. PICK how \in Ends(r) :
        IF r = Root
        THEN /\ ended' = [ended EXCEPT ![r] = how]
             /\ stage' = [stage EXCEPT ![r] = "out"]
             /\ UNCHANGED <<store, imported>>
        ELSE /\ Absorbs(r, how)
             /\ stage' = [stage EXCEPT ![r] = IF ended'[r] = "completed" THEN "returned" ELSE "out"]
  BY DEF EndRun, MayFinish
<1>3. how \in {"completed", "unresolved", "cancelled"}
  BY DEF Ends
<1>4. ComposedTypeOK' /\ StagesAgree' /\ \A q \in Runs \ {r} : ended'[q] = ended[q]
  BY EndRunKeepsStages
<1>5. CASE r = Root
  <2>1. r \notin Children
    BY <1>5 DEF Children
  <2>2. \A q \in Runs \ {r} : stage'[q] = stage[q]
    BY <1>2, <1>5 DEF ComposedTypeOK
  <2>3. \A q \in Children : (Absorbed(q)' <=> Absorbed(q)) /\ (stage'[q] = "idle" => stage[q] = "idle")
    BY <1>4, <2>1, <2>2, CallerIs DEF Absorbed
  <2> QED BY <1>1, <1>2, <1>4, <1>5, <2>3, NothingAddedKeeps
<1>6. CASE r # Root
  <2>1. r \in Children
    BY <1>6 DEF Children
  <2> QED BY <1>1, <1>2, <1>3, <1>4, <1>6, <2>1, AbsorbsKeeps
<1> QED BY <1>5, <1>6

\* The wrapper of a child that completed records its output, or fails, or is cancelled.
LEMMA WrapperKeeps ==
  ASSUME ComposedInv, NEW r \in Children, RecordOutput(r) \/ DropOutput(r)
  PROVE  ComposedInv'
<1> USE DEF ComposedInv
<1> DEFINE c == Caller(r)
           n == Output[Last(r)]
<1>1. r \in Runs /\ c \in Runs /\ UNCHANGED <<lent, imported>>
  BY CallerIs DEF RecordOutput, DropOutput
<1>2. /\ ComposedTypeOK' /\ StagesAgree' /\ stage[c] = "running"
      /\ ended[r] = "completed" /\ ended'[r] \in {"completed", "failed", "cancelled"}
      /\ stage'[r] = "out"
      /\ \A q \in Runs \ {r} : ended'[q] = ended[q] /\ stage'[q] = stage[q]
  BY WrapperKeepsStages
<1>3. \A q \in Children : (Absorbed(q)' <=> Absorbed(q)) /\ (stage'[q] = "idle" => stage[q] = "idle")
  BY <1>2, CallerIs DEF Absorbed
<1>4. CASE store' = store
  BY <1>1, <1>2, <1>3, <1>4, NothingAddedKeeps
<1>5. CASE store' # store
  <2>1. /\ MayAdd(store[c], Own(n), OutputRecord(r))
        /\ store' = [store EXCEPT ![c] = Added(@, Own(n), OutputRecord(r))]
    BY <1>5 DEF RecordOutput, DropOutput
  <2>2. OutputRecord(r) \in Content
    BY <1>1, <2>1, OutputRecordIs DEF ContentsKept, StoresKept
  <2>3. n \in FoundNames(c)
    BY CallerIs DEF FoundNames, NamesOf
  <2>4. ContentsKept'
    BY <1>1, <1>2, <1>3, <2>1, <2>2, <2>3, OneAdditionKeeps
  <2> QED BY <1>2, <2>4
<1> QED BY <1>4, <1>5

\* A retrieval goes on, or the host cancels runs, invalidates records of the root, or has
\* its result.
LEMMA HostKeeps ==
  ASSUME ComposedInv,
         \/ \E x \in AllRetrievals : RetrievalStep(x)
         \/ \E r \in Runs : Cancel(r)
         \/ \E id \in OwnNames : Invalidate(id)
         \/ UNCHANGED compositionVars
  PROVE  ComposedInv'
<1> USE DEF ComposedInv
<1>1. ComposedTypeOK' /\ StagesAgree' /\ UNCHANGED <<stage, ended, lent, imported, step>>
  BY HostKeepsStages
<1>2. \A q \in Children : Absorbed(q)' = Absorbed(q)
  BY <1>1 DEF Absorbed
<1>3. CASE store' = store
  BY <1>1, <1>2, <1>3, NothingAddedKeeps
<1>4. ASSUME NEW id \in OwnNames, Invalidate(id) PROVE ContentsKept'
  BY <1>4, InvalidateKeeps
<1>5. store' = store \/ \E id \in OwnNames : Invalidate(id)
  BY RetrievalChanges DEF Cancel, compositionVars, composed
<1> QED BY <1>1, <1>3, <1>4, <1>5

\* A root run over a session, and no child yet.
LEMMA InitIsComposedInv == ASSUME NamesDistinct, ComposedInit PROVE ComposedInv
<1>1. PICK session \in Sessions : store = [r \in Runs |-> IF r = Root THEN session ELSE EmptyStore]
  BY DEF ComposedInit
<1>2. WellKept(session) /\ Known(session) \subseteq OwnNames
  BY SessionsAssumption
<1>3. /\ stage = [r \in Runs |-> IF r = Root THEN "running" ELSE "idle"]
      /\ ended = [r \in Runs |-> "none"] /\ step = [s \in AllSteps |-> "idle"]
      /\ lent = [r \in Children |-> {}] /\ imported = [r \in Children |-> {}]
  BY DEF ComposedInit
<1>4. Root \in Runs /\ \A r \in Children : r \in Runs /\ r # Root /\ Caller(r) \in Runs
  BY CallerIs DEF Runs
<1>5. ComposedTypeOK /\ StagesAgree
  BY InitStages
<1>6. \A r \in Children : store[r] = EmptyStore /\ ~ Absorbed(r)
  BY <1>1, <1>3, <1>4 DEF Absorbed
<1>8. ImportsAgree
  BY <1>3, <1>6 DEF ImportsAgree
<1>9. StoresKept
  <2>1. EmptyStore.stale = {}
    BY DEF EmptyStore
  <2>2. \A r \in Runs : store[r] \in {session, EmptyStore}
    BY <1>1
  <2> QED BY <1>2, <1>6, <2>1, <2>2, EmptyIsWellKept DEF StoresKept
<1>10. AllLent
  <2>1. \A r \in Children : lent[r] = {}
    BY <1>3
  <2> QED BY <2>1 DEF AllLent, Lent
<1>11. NamesKept
  <2> SUFFICES ASSUME NEW r \in Runs, NEW x \in Known(store[r]) PROVE NameKept(r, x)
    BY DEF NamesKept
  <2>1. r = Root /\ x \in Known(session)
    BY <1>1, EmptyIsWellKept
  <2>2. PICK n \in Names : x = Own(n)
    BY <1>2, <2>1 DEF OwnNames
  <2>3. n \in SessionNames
    BY <2>1, <2>2 DEF SessionNames
  <2> QED BY <2>1, <2>2, <2>3 DEF NameKept, NamesUpTo, FoundNames
<1>12. AllMirrored
  BY <1>6 DEF AllMirrored
<1> QED BY <1>5, <1>8, <1>9, <1>10, <1>11, <1>12 DEF ComposedInv, ContentsKept

\* Every step of a run, a wrapper or the host keeps the invariant.
LEMMA StepIsComposedInv ==
  ASSUME NamesDistinct, ComposedInv, [ComposedNext]_compositionVars
  PROVE  ComposedInv'
<1>1. ASSUME NEW r \in Runs, RunStep(r) PROVE ComposedInv'
  BY <1>1, NodeKeeps, EndRunKeeps DEF RunStep
<1>2. ASSUME NEW r \in Children, WrapperStep(r) PROVE ComposedInv'
  BY <1>2, StartChildKeeps, WrapperKeeps DEF WrapperStep
<1>3. CASE Finished
  BY <1>3, HostKeeps DEF Finished
<1> QED BY <1>1, <1>2, <1>3, HostKeeps DEF ComposedNext, Progress

\* Names that are never given twice on the way from the root keep every store, and
\* what each run lent and left, as ComposedInv says.
THEOREM ComposedInvariance == NamesDistinct => (ComposedSpec => []ComposedInv)
<1> SUFFICES ASSUME NamesDistinct PROVE ComposedSpec => []ComposedInv
  OBVIOUS
<1>1. ComposedInit => ComposedInv
  BY InitIsComposedInv
<1>2. ComposedInv /\ [ComposedNext]_compositionVars => ComposedInv'
  BY StepIsComposedInv
<1> QED BY <1>1, <1>2, PTL DEF ComposedSpec

-----------------------------------------------------------------------------
(* The runs use the ledger as any callers may. *)

\* A step of the composition is a call of the ledger, or none.
LEMMA StepUsesLedger ==
  ASSUME TypeOK, [ComposedNext]_compositionVars
  PROVE  [Next]_vars
<1>1. Deadline \in Deadlines
  BY BoundsAssumption DEF TypeOK, Deadline, Deadlines
<1>2. ASSUME UNCHANGED ledger PROVE UNCHANGED vars
  BY <1>2 DEF ledger, vars
<1>3. ASSUME NEW r \in Runs, NEW n \in Steps[DefinitionOf(r)],
             BeginStep(r, n) \/ AdmitStep(r, n) \/ EndStep(r, n) \/ CancelStep(r, n)
      PROVE  Next
  <2>1. <<r, n>> \in AllSteps
    BY DEF AllSteps, StepsOf
  <2>2. <<r, n>> \in Operations /\ <<r, n>> \in CallIds /\ "tool" \in Classes
    BY <2>1, IdentityAssumption
  <2> QED BY <1>1, <1>3, <2>2 DEF BeginStep, MayBegin, AdmitStep, MayBeAdmitted, EndStep,
                                  MayEnd, CancelStep, MayBeCancelled, Next, Call
<1>4. ASSUME NEW r \in Runs, EndRun(r) PROVE UNCHANGED vars
  BY <1>2, <1>4 DEF EndRun, MayFinish, ledger
<1>5. ASSUME NEW r \in Children, StartChild(r) PROVE [Next]_vars
  <2>1. r \in ChildRuns /\ Len(r) \in 1..MaxDepth
    BY IdentityAssumption, BoundsAssumption, RunIs, CallerIs
  <2>2. CASE UNCHANGED ledger
    BY <1>2, <2>2
  <2>3. CASE AdmitChildRun(r, Len(r), Deadline)
    BY <1>1, <2>1, <2>3 DEF Next, Call
  <2> QED BY <1>5, <2>2, <2>3 DEF StartChild, MayBeCalled, ViewsFor
<1>6. ASSUME NEW r \in Children, RecordOutput(r) \/ DropOutput(r) PROVE UNCHANGED vars
  BY <1>2, <1>6 DEF RecordOutput, DropOutput, ledger
<1>7. ASSUME (\E r \in Runs : Cancel(r)) \/ (\E id \in OwnNames : Invalidate(id))
             \/ UNCHANGED compositionVars
      PROVE  UNCHANGED vars
  BY <1>2, <1>7 DEF Cancel, Invalidate, compositionVars, ledger
<1>8. ASSUME NEW x \in AllRetrievals, RetrievalStep(x) PROVE Next
  <2>1. x \in Operations /\ x \in CallIds /\ "tool" \in Classes
    BY IdentityAssumption
  <2> QED BY <1>1, <1>8, <2>1 DEF RetrievalStep, BeginRetrieval, MayBeginRetrieval,
             AdmitRetrieval, MayAdmitRetrieval, EndRetrieval, MayEndRetrieval, Next, Call
<1>9. CASE Progress
  BY <1>3, <1>4, <1>5, <1>6, <1>8, <1>9 DEF Progress, RunStep, WrapperStep
<1>10. CASE ~ Progress
  BY <1>7, <1>10 DEF ComposedNext, Finished
<1> QED BY <1>9, <1>10

\* The composition implements the ledger it is built on: whatever the runs do, what
\* they ask of the ledger are calls that UsageLedger allows any caller.
THEOREM ComposedUsesLedger == ComposedSpec => Spec
<1>1. ComposedInit => Init
  BY DEF ComposedInit
<1>3. Init => IInv
  BY InitIsIInv
<1>4. IInv /\ [ComposedNext]_compositionVars => [Next]_vars
  BY StepUsesLedger DEF IInv
<1>5. IInv /\ [Next]_vars => IInv'
  BY StepKeeps
<1>6. ComposedSpec => []IInv
  BY <1>1, <1>3, <1>4, <1>5, PTL DEF ComposedSpec
<1> QED BY <1>1, <1>4, <1>6, PTL DEF ComposedSpec, Spec

\* Parents, children and their nodes together stay within the limits of the run.
THEOREM ComposedLimitsHold == ComposedSpec => []LimitsHold
BY ComposedUsesLedger, LimitsAreHeld, PTL

\* No run, and no child of one, takes back what another was granted.
THEOREM ComposedIdentitiesFinal == ComposedSpec => IdentitiesAreFinal
BY ComposedUsesLedger, IdentitiesFinal

\* The record a child left under a name of its caller.
LEMMA ImportedIs ==
  ASSUME ComposedInv, NEW r \in Children, NEW id \in imported[r]
  PROVE  /\ Absorbed(r) /\ Tail(id) \in Findings(r) /\ Tail(id) \in Known(store[r])
         /\ id = Scoped(r, Tail(id)) /\ Head(id) = r
         /\ InCaller(r, Tail(id)) = id /\ CopyNames(r)[Tail(id)] = id
<1>1. Absorbed(r) /\ imported[r] = {Scoped(r, x) : x \in Findings(r)}
  BY DEF ComposedInv, ContentsKept, ImportsAgree
<1>2. PICK x \in Findings(r) : id = Scoped(r, x)
  BY <1>1
<1>3. x \in Known(store[r]) /\ x \notin lent[r] /\ r \in Runs
  BY CallerIs DEF Findings
<1>4. x \in Ids
  BY <1>3, WellKeptIs DEF ComposedInv, ContentsKept, StoresKept
<1>5. Tail(id) = x /\ Head(id) = r
  <2> DEFINE X == Names \cup Children
  <2>1. x \in Seq(X) /\ r \in X
    BY <1>4 DEF Ids
  <2> HIDE DEF X
  <2>2. Head(<<r>> \o x) = r /\ Tail(<<r>> \o x) = x
    BY <2>1
  <2> QED BY <1>2, <2>2 DEF Scoped
<1>6. InCaller(r, x) = id
  BY <1>2, <1>3 DEF InCaller
<1>7. CopyNames(r)[x] = id
  BY <1>3, <1>6 DEF CopyNames
<1> QED BY <1>1, <1>2, <1>3, <1>5, <1>6, <1>7

\* What the invariant says of an absorbed child is what NewRecordsImported asks.
LEMMA ImportsAreMade == ComposedInv => NewRecordsImported
<1> SUFFICES ASSUME ComposedInv, NEW r \in Children, Absorbed(r), NEW id \in Findings(r)
             PROVE  LET made == store[r].records[id]
                        known == store[Caller(r)].records
                    IN  /\ Scoped(r, id) \in DOMAIN known
                        /\ known[Scoped(r, id)].dependencies = {InCaller(r, d) : d \in made.dependencies}
                        /\ known[Scoped(r, id)].supersedes = {InCaller(r, d) : d \in made.supersedes}
                        /\ known[Scoped(r, id)].conflicts = {InCaller(r, d) : d \in made.conflicts}
  BY DEF NewRecordsImported
<1> DEFINE f == CopyNames(r)
           made == store[r].records[id]
<1>1. Mirrors(store[r], store[Caller(r)], f) /\ r \in Runs /\ WellKept(store[r])
  BY CallerIs DEF ComposedInv, ContentsKept, AllMirrored, Mirrored, StoresKept
<1>2. id \in Known(store[r]) /\ f[id] = Scoped(r, id)
  BY DEF Findings, CopyNames, InCaller
<1>3. Links(made) \subseteq Known(store[r])
  BY <1>1, <1>2, WellKeptIs
<1>4. \A d \in Links(made) : f[d] = InCaller(r, d)
  BY <1>3 DEF CopyNames
<1>5. /\ Image(f, made.dependencies) = {InCaller(r, d) : d \in made.dependencies}
      /\ Image(f, made.supersedes) = {InCaller(r, d) : d \in made.supersedes}
      /\ Image(f, made.conflicts) = {InCaller(r, d) : d \in made.conflicts}
  BY <1>4 DEF Image, Links
<1> HIDE DEF f
<1> QED BY <1>1, <1>2, <1>5 DEF Mirrors, Known

\* Every record a child found is in its caller's store once the child has ended, also
\* when it was cancelled, linked to the same records (_import_child_evidence).
THEOREM ImportsAreCorrect == NamesDistinct => (ComposedSpec => []NewRecordsImported)
BY ComposedInvariance, ImportsAreMade, PTL

\* Support in the caller is support in the child.
LEMMA ReplacedIsNotCurrent == ComposedInv => ReplacedStaysReplaced
<1> SUFFICES ASSUME ComposedInv, NEW r \in Children, NEW id \in imported[r],
                    IsCurrent(store[Caller(r)], id)
             PROVE  IsCurrent(store[r], Tail(id))
  BY DEF ReplacedStaysReplaced
<1> DEFINE s == store[r]
           t == store[Caller(r)]
           f == CopyNames(r)
           x == Tail(id)
<1>1. Absorbed(r) /\ x \in Known(s) /\ f[x] = id
  BY ImportedIs
<1>2. WellKept(s) /\ WellKept(t) /\ Mirrors(s, t, f)
  BY <1>1, CallerIs DEF ComposedInv, ContentsKept, StoresKept, AllMirrored, Mirrored
<1> HIDE DEF f, x, s, t
<1>3. f[x] \in Known(t)
  BY <1>1, <1>2 DEF Mirrors
<1>4. Supported(t, f[x])
  BY <1>1, <1>2, <1>3, CurrentIsSupported DEF t
<1>5. Supported(s, x)
  BY <1>1, <1>2, <1>4, CopyIsCurrent
<1>6. IsCurrent(s, x)
  BY <1>1, <1>2, <1>5, CurrentIsSupported
<1> QED BY <1>6 DEF s, x

\* What a child has replaced is not current in its caller either: supersession
\* survives the import, whatever the host invalidates and whoever ends first.
THEOREM ReplacementsHold == NamesDistinct => (ComposedSpec => []ReplacedStaysReplaced)
BY ComposedInvariance, ReplacedIsNotCurrent, PTL

-----------------------------------------------------------------------------
(* What a record was made from. *)

\* There are finitely many paths of bounded depth over finitely many tools.
LEMMA RunsAreFinite == IsFiniteSet(Runs)
<1>1. ASSUME NEW d \in 1..MaxDepth PROVE IsFiniteSet([1..d -> Tools])
  <2> DEFINE P == SUBSET ((1..d) \X Tools)
             graph == [f \in [1..d -> Tools] |-> {<<i, f[i]>> : i \in 1..d}]
  <2>1. IsFiniteSet(1..d)
    <3>1. d \in Int
      BY BoundsAssumption
    <3> QED BY <3>1, FS_Interval
  <2>2. IsFiniteSet(P)
    BY <2>1, DefinitionsAssumption, FS_Product, FS_SUBSET
  <2>3. graph \in [[1..d -> Tools] -> P]
    OBVIOUS
  <2>4. ASSUME NEW f \in [1..d -> Tools], NEW g \in [1..d -> Tools], graph[f] = graph[g]
        PROVE  f = g
    <3>1. ASSUME NEW i \in 1..d PROVE f[i] = g[i]
      <4>1. <<i, f[i]>> \in {<<j, g[j]>> : j \in 1..d}
        BY <2>4
      <4> QED BY <4>1
    <3> QED BY <3>1
  <2> HIDE DEF graph, P
  <2>5. graph \in Injection([1..d -> Tools], P)
    BY <2>3, <2>4 DEF Injection, IsInjective
  <2> QED BY <2>2, <2>5, FS_Injection
<1> DEFINE Depths == 1..MaxDepth
           paths == [d \in Depths |-> [1..d -> Tools]]
           All == {paths[d] : d \in Depths}
<1>2. IsFiniteSet(Depths)
  <2>1. MaxDepth \in Int
    BY BoundsAssumption
  <2> QED BY <2>1, FS_Interval
<1>3. \A d \in Depths : IsFiniteSet(paths[d])
  BY <1>1
<1>4. UNION {[1..d -> Tools] : d \in 1..MaxDepth} = UNION All
  OBVIOUS
<1> HIDE DEF Depths, paths
<1>5. IsFiniteSet(All)
  <2>1. paths \in Surjection(Depths, All)
    <3>1. paths = [d \in Depths |-> paths[d]]
      BY DEF paths
    <3> QED BY <3>1 DEF Surjection
  <2> HIDE DEF All
  <2> QED BY <1>2, <2>1, FS_Surjection
<1>6. IsFiniteSet(UNION All)
  <2>1. \A T \in All : IsFiniteSet(T)
    BY <1>3
  <2> HIDE DEF All
  <2> QED BY <1>5, <2>1, FS_UNION
<1> HIDE DEF All
<1>7. Runs \subseteq (UNION All) \cup {Root}
  BY <1>4 DEF Runs
<1>8. IsFiniteSet((UNION All) \cup {Root})
  BY <1>6, FS_AddElement
<1> QED BY <1>7, <1>8, FS_Subset

\* So the chains that Sources follows are followed to their end.
LEMMA EverythingIsFinite ==
  ASSUME ComposedInv
  PROVE  IsFiniteSet(Everything) /\ Cardinality(Everything) \in Nat
<1> DEFINE here == [r \in Runs |-> {r} \X Known(store[r])]
           All == {here[r] : r \in Runs}
<1>1. ASSUME NEW r \in Runs PROVE IsFiniteSet(here[r])
  <2>1. IsFiniteSet(Known(store[r])) /\ IsFiniteSet({r})
    BY WellKeptIs, FS_Singleton DEF ComposedInv, ContentsKept, StoresKept
  <2>2. IsFiniteSet({r} \X Known(store[r]))
    BY <2>1, FS_Product
  <2> QED BY <2>2
<1>2. Everything = UNION All
  BY DEF Everything
<1>3. here = [r \in Runs |-> here[r]]
  OBVIOUS
<1> HIDE DEF here
<1>4. here \in Surjection(Runs, All)
  BY <1>3 DEF Surjection
<1>5. \A T \in All : IsFiniteSet(T)
  BY <1>1
<1> HIDE DEF All
<1>6. IsFiniteSet(All)
  BY <1>4, RunsAreFinite, FS_Surjection
<1>7. IsFiniteSet(Everything)
  BY <1>2, <1>5, <1>6, FS_UNION
<1> QED BY <1>7, FS_CardinalityType

\* f says what has been reached from r's id after each of the first m turns.
IsReaching(f, m, r, id) ==
  f = [n \in 0..m |-> IF n = 0 THEN {<<r, id>>}
                      ELSE UNION {{x} \cup MadeFrom(x[1], x[2]) : x \in f[n - 1]}]

\* The recursion of Sources has a solution for any number of turns.
LEMMA ReachingExists ==
  ASSUME NEW m \in Nat, NEW r, NEW id
  PROVE  \E f : IsReaching(f, m, r, id)
<1> DEFINE T == {n \in Nat : \E f : IsReaching(f, n, r, id)}
           More(s) == UNION {{x} \cup MadeFrom(x[1], x[2]) : x \in s}
           base == {<<r, id>>}
<1>1. 0 \in T
  <2>1. IsReaching([n \in 0..0 |-> base], 0, r, id)
    BY DEF IsReaching
  <2> QED BY <2>1
<1>2. ASSUME NEW n \in T PROVE n + 1 \in T
  <2>1. PICK f : IsReaching(f, n, r, id)
    OBVIOUS
  <2>2. f = [l \in 0..n |-> IF l = 0 THEN base ELSE More(f[l - 1])]
    BY <2>1 DEF IsReaching
  <2> HIDE DEF More, base
  <2> DEFINE next == More(f[n])
             g == [k \in 0..(n + 1) |-> IF k = n + 1 THEN next ELSE f[k]]
  <2>3. ASSUME NEW k \in 0..(n + 1)
        PROVE  g[k] = IF k = 0 THEN base ELSE More(g[k - 1])
    <3>1. CASE k = 0
      <4>1. g[k] = f[0] /\ 0 \in 0..n
        BY <3>1
      <4>2. f[0] = base
        BY <2>2, <4>1
      <4> HIDE DEF g
      <4> QED BY <3>1, <4>1, <4>2
    <3>2. CASE k = n + 1
      <4>1. g[k - 1] = f[n] /\ g[k] = next /\ k - 1 = n /\ k # 0
        BY <3>2
      <4> HIDE DEF g
      <4> QED BY <3>2, <4>1
    <3>3. CASE k # 0 /\ k # n + 1
      <4>1. k \in 0..n /\ k - 1 \in 0..n
        BY <3>3
      <4>2. g[k - 1] = f[k - 1] /\ g[k] = f[k]
        BY <3>3, <4>1
      <4>3. f[k] = More(f[k - 1])
        <5> DEFINE h == [l \in 0..n |-> IF l = 0 THEN base ELSE More(f[l - 1])]
        <5>1. f = h
          BY <2>2
        <5>2. h[k] = More(f[k - 1])
          BY <3>3, <4>1
        <5> QED BY <5>1, <5>2
      <4> HIDE DEF g
      <4> QED BY <3>3, <4>2, <4>3
    <3> QED BY <3>1, <3>2, <3>3
  <2>4. g = [k \in 0..(n + 1) |-> g[k]]
    OBVIOUS
  <2> HIDE DEF g
  <2>5. g = [k \in 0..(n + 1) |-> IF k = 0 THEN base ELSE More(g[k - 1])]
    BY <2>3, <2>4
  <2>6. IsReaching(g, n + 1, r, id)
    BY <2>5 DEF IsReaching, More, base
  <2> QED BY <2>6
<1>3. T \subseteq Nat
  OBVIOUS
<1> HIDE DEF T
<1>4. T = Nat
  BY <1>1, <1>2, <1>3, AllNumbers
<1> QED BY <1>4 DEF T

\* A set that has a record, and all that what is in it was made from, has all the
\* sources of the record.
LEMMA SourcesAreIn ==
  ASSUME ComposedInv, NEW r, NEW id, NEW T, <<r, id>> \in T,
         \A x \in T : MadeFrom(x[1], x[2]) \subseteq T,
         NEW source \in Sources(r, id)
  PROVE  <<Root, source>> \in T
<1> DEFINE M == Cardinality(Everything)
           f == CHOOSE f : IsReaching(f, M, r, id)
           More(s) == UNION {{x} \cup MadeFrom(x[1], x[2]) : x \in s}
           base == {<<r, id>>}
<1>1. <<Root, source>> \in f[M]
  BY DEF Sources, IsReaching
<1>2. M \in Nat
  BY EverythingIsFinite
<1> HIDE DEF M
<1>3. IsReaching(f, M, r, id)
  BY <1>2, ReachingExists
<1> HIDE DEF f
<1>4. f = [n \in 0..M |-> IF n = 0 THEN base ELSE More(f[n - 1])]
  BY <1>3 DEF IsReaching
<1>5. base \subseteq T /\ \A s \in SUBSET T : More(s) \subseteq T
  OBVIOUS
<1> HIDE DEF base, More
<1> DEFINE N == {n \in Nat : n \in 0..M => f[n] \subseteq T}
           h == [n \in 0..M |-> IF n = 0 THEN base ELSE More(f[n - 1])]
<1>6. f = h
  BY <1>4
<1>7. 0 \in N
  <2>1. h[0] = base
    BY <1>2
  <2> QED BY <1>5, <1>6, <2>1
<1>8. ASSUME NEW n \in N PROVE n + 1 \in N
  <2> SUFFICES ASSUME n + 1 \in 0..M PROVE f[n + 1] \subseteq T
    OBVIOUS
  <2>1. n \in 0..M /\ n + 1 # 0 /\ (n + 1) - 1 = n
    BY <1>2
  <2>2. h[n + 1] = More(f[n])
    BY <2>1
  <2>3. f[n] \subseteq T
    BY <2>1
  <2> HIDE DEF h
  <2> QED BY <1>5, <1>6, <2>2, <2>3
<1> HIDE DEF h
<1>9. N = Nat
  <2>1. N \subseteq Nat
    OBVIOUS
  <2> HIDE DEF N
  <2> QED BY <1>7, <1>8, <2>1, AllNumbers
<1>10. f[M] \subseteq T
  BY <1>2, <1>9
<1> QED BY <1>1, <1>10

-----------------------------------------------------------------------------
(* Findings follow their sources. *)

\* A record of each run on the way to the root, each the copy of the one before, and
\* the last of them in S.
CarriedUp(W, S) ==
  \A x \in W :
    /\ x[1] \in Runs /\ x[2] \in Known(store[x[1]])
    /\ x[1] = Root => x[2] \in S
    /\ x[1] # Root => Absorbed(x[1]) /\ <<Caller(x[1]), InCaller(x[1], x[2])>> \in W

\* The records of all runs whose copies at the root are in S.
Carried(S) == {x \in Everything : \E W \in SUBSET Everything : x \in W /\ CarriedUp(W, S)}

\* A record of a run, among all of them.
LEMMA PlacesAre ==
  ASSUME NEW q \in Runs, NEW y \in Known(store[q])
  PROVE  <<q, y>> \in Everything
<1>1. <<q, y>> \in {q} \X Known(store[q])
  OBVIOUS
<1> QED BY <1>1 DEF Everything

\* What carries a record up carries up what the record derives from.
LEMMA SourcesAreCarried ==
  ASSUME ComposedInv, NEW S, Vouched(store[Root], S),
         NEW W \in SUBSET Everything, CarriedUp(W, S), NEW q, NEW y, <<q, y>> \in W,
         ~ store[q].records[y].completed, NEW d \in store[q].records[y].dependencies
  PROVE  <<q, d>> \in Carried(S)
<1> DEFINE From(x) == {z \in Everything : z[1] = x[1] /\ ~ store[x[1]].records[x[2]].completed
                                          /\ z[2] \in store[x[1]].records[x[2]].dependencies}
           V == W \cup UNION {From(x) : x \in W}
<1>1. ASSUME NEW x \in W, ~ store[x[1]].records[x[2]].completed,
             NEW e \in store[x[1]].records[x[2]].dependencies
      PROVE  /\ x[1] \in Runs /\ e \in Known(store[x[1]]) /\ <<x[1], e>> \in Everything
             /\ <<x[1], e>> \in V
             /\ x[1] = Root => e \in S
             /\ x[1] # Root => /\ Absorbed(x[1])
                               /\ <<Caller(x[1]), InCaller(x[1], e)>> \in V
  <2> DEFINE p == x[1]
             z == x[2]
             s == store[p]
  <2>1. /\ p \in Runs /\ z \in Known(s) /\ (p = Root => z \in S)
        /\ p # Root => Absorbed(p) /\ <<Caller(p), InCaller(p, z)>> \in W
    BY DEF CarriedUp
  <2>2. WellKept(s)
    BY <2>1 DEF ComposedInv, ContentsKept, StoresKept
  <2> HIDE DEF p, z
  <2>3. e \in Known(s)
    BY <1>1, <2>1, <2>2, WellKeptIs DEF Links, p, z
  <2>4. <<p, e>> \in Everything
    BY <2>1, <2>3, PlacesAre
  <2>5. <<p, e>> \in From(x)
    BY <1>1, <2>4 DEF p
  <2>6. <<p, e>> \in V
    BY <2>5
  <2>7. p = Root => e \in S
    BY <1>1, <2>1 DEF Vouched, p, z
  <2>8. ASSUME p # Root PROVE Absorbed(p) /\ <<Caller(p), InCaller(p, e)>> \in V
    <3> DEFINE t == store[Caller(p)]
               up == InCaller(p, z)
               w == <<Caller(p), up>>
    <3>1. p \in Children /\ Absorbed(p) /\ w \in W /\ Caller(p) \in Runs
      BY <2>1, <2>8, CallerIs DEF Children
    <3>2. Mirrors(s, t, CopyNames(p))
      BY <3>1 DEF ComposedInv, ContentsKept, AllMirrored, Mirrored
    <3>3. CopyNames(p)[z] = up /\ CopyNames(p)[e] = InCaller(p, e)
      BY <2>1, <2>3, SMTT(30) DEF CopyNames
    <3>4. /\ ~ t.records[up].completed
          /\ InCaller(p, e) \in t.records[up].dependencies
          /\ InCaller(p, e) \in Known(t)
      BY <1>1, <2>1, <2>3, <3>2, <3>3, SMTT(30) DEF Mirrors, Image, p, z
    <3> HIDE DEF up
    <3>5. <<Caller(p), InCaller(p, e)>> \in Everything
      BY <3>1, <3>4, PlacesAre
    <3>6. <<Caller(p), InCaller(p, e)>> \in From(w)
      BY <3>4, <3>5
    <3> QED BY <3>1, <3>6
  <2> HIDE DEF V, s
  <2> QED BY <2>1, <2>3, <2>4, <2>6, <2>7, <2>8 DEF p, s
<1>2. V \in SUBSET Everything /\ W \subseteq V
  <2>1. \A x \in W : From(x) \subseteq Everything
    OBVIOUS
  <2> HIDE DEF From
  <2> QED BY <2>1
<1>3. ASSUME NEW v \in V
      PROVE  /\ v[1] \in Runs /\ v[2] \in Known(store[v[1]])
             /\ v[1] = Root => v[2] \in S
             /\ v[1] # Root => Absorbed(v[1]) /\ <<Caller(v[1]), InCaller(v[1], v[2])>> \in V
  <2>1. v \in W \/ \E x \in W : v \in From(x)
    <3> HIDE DEF From
    <3> QED OBVIOUS
  <2>2. \A x \in W : v \in From(x) =>
          /\ v[1] = x[1] /\ ~ store[x[1]].records[x[2]].completed
          /\ v[2] \in store[x[1]].records[x[2]].dependencies
    OBVIOUS
  <2> HIDE DEF V, From
  <2>3. CASE v \in W
    BY <1>2, <2>3 DEF CarriedUp
  <2>4. CASE \E x \in W : v \in From(x)
    <3>1. PICK x \in W : v \in From(x)
      BY <2>4
    <3>2. /\ v[1] = x[1] /\ ~ store[x[1]].records[x[2]].completed
          /\ v[2] \in store[x[1]].records[x[2]].dependencies
      BY <2>2, <3>1
    <3> QED BY <1>1, <3>2
  <2> QED BY <2>1, <2>3, <2>4
<1>4. <<q, d>> \in V /\ <<q, d>> \in Everything
  <2> DEFINE x == <<q, y>>
  <2>1. x \in W /\ x[1] = q /\ x[2] = y
    OBVIOUS
  <2> HIDE DEF V, x
  <2> QED BY <1>1, <2>1
<1> HIDE DEF V
<1>5. CarriedUp(V, S)
  BY <1>3 DEF CarriedUp
<1> QED BY <1>2, <1>4, <1>5 DEF Carried

\* What the carried records were made from is carried too.
LEMMA CarriedIsClosed ==
  ASSUME ComposedInv, NEW S, Vouched(store[Root], S), NEW x \in Carried(S)
  PROVE  MadeFrom(x[1], x[2]) \subseteq Carried(S)
<1> DEFINE q == x[1]
           y == x[2]
<1>1. PICK W \in SUBSET Everything : x \in W /\ CarriedUp(W, S)
  BY DEF Carried
<1>2. x = <<q, y>>
  BY DEF Carried, Everything
<1>3. /\ q \in Runs /\ y \in Known(store[q])
      /\ q # Root => Absorbed(q) /\ <<Caller(q), InCaller(q, y)>> \in W
  BY <1>1 DEF CarriedUp
<1> HIDE DEF q, y
<1>4. CASE q # Root /\ y \in lent[q]
  <2>1. InCaller(q, y) = y
    BY <1>4 DEF InCaller
  <2>2. <<Caller(q), y>> \in W /\ <<Caller(q), y>> \in Everything
    BY <1>3, <1>4, <2>1
  <2>3. MadeFrom(q, y) = {<<Caller(q), y>>}
    BY <1>4 DEF MadeFrom
  <2> QED BY <1>1, <2>2, <2>3 DEF Carried, q, y
<1>5. CASE ~ (q # Root /\ y \in lent[q]) /\ Len(y) > 1
  <2>1. PICK p \in Calls(q) : y \in imported[p]
    <3>1. NameKept(q, y)
      BY <1>3 DEF ComposedInv, ContentsKept, NamesKept
    <3>2. \A n \in FoundNames(q) : y # Own(n)
      BY <1>5, OwnNamesAre
    <3>3. y \notin Lendings(q)
      BY <1>5 DEF Lendings
    <3> QED BY <3>1, <3>2, <3>3 DEF NameKept
  <2>2. p \in Children /\ Caller(p) = q
    BY DEF Calls
  <2>3. /\ Absorbed(p) /\ Tail(y) \in Known(store[p]) /\ Head(y) = p
        /\ InCaller(p, Tail(y)) = y /\ p \in Runs /\ p # Root
    BY <2>1, <2>2, ImportedIs, CallerIs
  <2> DEFINE z == Tail(y)
             V == W \cup {<<p, z>>}
  <2>4. <<p, z>> \in Everything
    BY <2>3, PlacesAre
  <2>5. <<Caller(p), InCaller(p, z)>> \in W
    BY <1>1, <1>2, <2>2, <2>3
  <2>6. MadeFrom(q, y) = {<<p, z>>}
    BY <1>5, <2>3 DEF MadeFrom
  <2>7. p # Root /\ Absorbed(p) /\ p \in Runs /\ z \in Known(store[p])
    BY <2>3
  <2> HIDE DEF z
  <2>8. CarriedUp(V, S)
    BY <1>1, <2>5, <2>7 DEF CarriedUp
  <2>9. V \in SUBSET Everything /\ <<p, z>> \in V
    BY <2>4
  <2> HIDE DEF V
  <2> QED BY <2>4, <2>6, <2>8, <2>9 DEF Carried, q, y
<1>6. CASE ~ (q # Root /\ y \in lent[q]) /\ ~ (Len(y) > 1)
  <2>1. CASE store[q].records[y].completed
    <3>1. MadeFrom(q, y) = {}
      BY <1>6, <2>1 DEF MadeFrom
    <3> QED BY <3>1 DEF q, y
  <2>2. CASE ~ store[q].records[y].completed
    <3>1. MadeFrom(q, y) = {<<q, d>> : d \in store[q].records[y].dependencies}
      BY <1>6, <2>2 DEF MadeFrom
    <3>2. <<q, y>> \in W
      BY <1>1, <1>2
    <3>3. \A d \in store[q].records[y].dependencies : <<q, d>> \in Carried(S)
      BY <1>1, <2>2, <3>2, SourcesAreCarried
    <3> QED BY <3>1, <3>3 DEF q, y
  <2> QED BY <2>1, <2>2
<1> QED BY <1>4, <1>5, <1>6

\* What vouches for a finding at the root vouches for the copies of its sources.
LEMMA FindingsFollow == ComposedInv => FindingsFollowTheirSources
<1> SUFFICES ASSUME ComposedInv, NEW r \in Children, Caller(r) = Root, NEW id \in imported[r],
                    IsCurrent(store[Root], id), NEW source \in Sources(r, Tail(id))
             PROVE  IsCurrent(store[Root], source)
  BY DEF FindingsFollowTheirSources
<1> DEFINE x == Tail(id)
           W == {<<r, x>>, <<Root, id>>}
<1>1. Absorbed(r) /\ x \in Known(store[r]) /\ InCaller(r, x) = id /\ CopyNames(r)[x] = id
  BY ImportedIs
<1>2. r \in Runs /\ r # Root /\ Root \in Runs
  BY CallerIs DEF Runs
<1>3. WellKept(store[Root]) /\ Mirrors(store[r], store[Root], CopyNames(r))
  BY <1>1, <1>2 DEF ComposedInv, ContentsKept, StoresKept, AllMirrored, Mirrored
<1>4. id \in Known(store[Root])
  BY <1>1, <1>3 DEF Mirrors
<1>5. PICK S \in SUBSET Known(store[Root]) : id \in S /\ Vouched(store[Root], S)
  BY <1>3, <1>4, CurrentIsSupported DEF Supported
<1> HIDE DEF x
<1>6. W \in SUBSET Everything /\ <<r, x>> \in W
  BY <1>1, <1>2, <1>4, PlacesAre
<1>7. CarriedUp(W, S)
  BY <1>1, <1>2, <1>4, <1>5 DEF CarriedUp
<1> HIDE DEF W
<1>8. <<r, x>> \in Carried(S)
  BY <1>6, <1>7 DEF Carried
<1>9. \A y \in Carried(S) : MadeFrom(y[1], y[2]) \subseteq Carried(S)
  BY <1>5, CarriedIsClosed
<1>10. <<Root, source>> \in Carried(S)
  BY <1>8, <1>9, SourcesAreIn DEF x
<1>11. source \in S
  BY <1>10 DEF Carried, CarriedUp
<1>12. source \in Known(store[Root]) /\ Supported(store[Root], source)
  BY <1>5, <1>11 DEF Supported
<1> QED BY <1>3, <1>12, CurrentIsSupported

\* What a child left is current in the session only while everything of the session
\* it was made from is, through any depth of runs and whatever is invalidated when.
THEOREM FindingsAreSupported == NamesDistinct => (ComposedSpec => []FindingsFollowTheirSources)
BY ComposedInvariance, FindingsFollow, PTL

-----------------------------------------------------------------------------
(* Control: how stages, steps and slots stand to each other. It needs nothing of *)
(* the names the runs give, nor of what is in their stores.                     *)

RetrievalStates ==
  {"idle", "queued", "working", "refused", "ending", "done", "raised", "cancelled"}

\* The states in which a retrieval goes on by itself.
OnItsWay == {"queued", "working", "refused"}

SomeRetrieval(r, states) == \E x \in RetrievalsOf(r) : retrieval[x] \in states

\* The retrievals of a run begin with it and are cancelled together, before any of them has
\* raised; what a run that ended or is cancelled leaves on its way is left by one that raised.
RetrievalsStand(r) ==
  /\ stage[r] = "idle" => r \notin cancelling /\ \A x \in RetrievalsOf(r) : retrieval[x] = "idle"
  /\ stage[r] = "running" => ~ SomeRetrieval(r, {"idle"})
  /\ SomeRetrieval(r, {"ending", "cancelled"}) => ~ SomeRetrieval(r, OnItsWay \cup {"raised"})
  /\ stage[r] # "running" \/ r \in cancelling =>
       (SomeRetrieval(r, OnItsWay) => SomeRetrieval(r, {"raised"}))
  /\ stage[r] # "running" => (SomeRetrieval(r, {"ending"}) => SomeRetrieval(r, {"cancelled"}))

RetrievalsAgree ==
  /\ retrieval \in [AllRetrievals -> RetrievalStates]
  /\ \A r \in Runs : RetrievalsStand(r)

\* The slots that are taken are those of the retrievals and the nodes in a call.
InCall ==
  {s \in AllSteps : step[s] \in {"working", "refused"}}
  \cup {x \in AllRetrievals : retrieval[x] \in {"working", "refused", "ending"}}

SlotsAgree == active = InCall

\* How the runs, their nodes, their retrievals and the ledger stand to each other.
ControlInv == ComposedTypeOK /\ StagesAgree /\ RetrievalsAgree /\ SlotsAgree /\ TypeOK

\* A retrieval belongs to one run, and is no node.
LEMMA RetrievalsAre ==
  /\ \A r \in Runs : RetrievalsOf(r) \subseteq AllRetrievals
  /\ \A x \in AllRetrievals : \E r \in Runs : x \in RetrievalsOf(r)
  /\ \A r, q : \A x \in RetrievalsOf(r) : x[1] = r /\ (x \in RetrievalsOf(q) => q = r)
  /\ AllSteps \cap AllRetrievals = {}
BY IdentityAssumption DEF RetrievalsOf, AllRetrievals

\* A run is left as it stands by what leaves its retrievals, its stage and its cancellation.
LEMMA StandingIsKept ==
  ASSUME NEW r, RetrievalsStand(r), \A x \in RetrievalsOf(r) : retrieval'[x] = retrieval[x],
         r \in cancelling' <=> r \in cancelling,
         \/ stage'[r] = stage[r]
         \/ stage[r] # "running" /\ stage'[r] \notin {"idle", "running"}
  PROVE  RetrievalsStand(r)'
BY DEF RetrievalsStand, SomeRetrieval

\* A retrieval that goes on is on its way before, and so left by one that raised if its run
\* ended or is cancelled; one that was cancelled only ends.
LEMMA RetrievalKeepsStanding ==
  ASSUME RetrievalsAgree, NEW x \in AllRetrievals, RetrievalStep(x)
  PROVE  RetrievalsAgree'
<1>1. PICK r \in Runs : x \in RetrievalsOf(r)
  BY RetrievalsAre
<1>2. UNCHANGED <<stage, cancelling>>
  BY RetrievalChanges
<1>3. PICK new \in RetrievalStates :
        /\ retrieval' = [retrieval EXCEPT ![x] = new]
        /\ \/ retrieval[x] \in OnItsWay /\ new \in {"working", "refused", "done", "raised"}
           \/ retrieval[x] = "ending" /\ new = "cancelled"
  BY DEF RetrievalStep, BeginRetrieval, MayBeginRetrieval, AdmitRetrieval, MayAdmitRetrieval,
         EndRetrieval, MayEndRetrieval, RetrievalStates, OnItsWay
<1>4. /\ retrieval' \in [AllRetrievals -> RetrievalStates] /\ retrieval'[x] = new
      /\ \A y \in AllRetrievals \ {x} : retrieval'[y] = retrieval[y]
  BY <1>3 DEF RetrievalsAgree
<1>5. ASSUME NEW q \in Runs, q # r PROVE RetrievalsStand(q)'
  <2>1. \A y \in RetrievalsOf(q) : y \in AllRetrievals /\ y # x
    BY <1>1, <1>5, RetrievalsAre
  <2> QED BY <1>2, <1>4, <1>5, <2>1, StandingIsKept DEF RetrievalsAgree
<1>6. RetrievalsStand(r)'
  <2>1. /\ \A y \in RetrievalsOf(r) : y \in AllRetrievals
        /\ \A y \in RetrievalsOf(r) : y # x => retrieval'[y] = retrieval[y]
    BY <1>1, <1>4, RetrievalsAre
  <2>2. RetrievalsStand(r)
    BY DEF RetrievalsAgree
  <2>3. CASE retrieval[x] \in OnItsWay /\ new \in {"working", "refused", "done", "raised"}
    BY <1>1, <1>2, <1>4, <2>1, <2>2, <2>3 DEF RetrievalsStand, SomeRetrieval, OnItsWay
  <2>4. CASE retrieval[x] = "ending" /\ new = "cancelled"
    BY <1>1, <1>2, <1>4, <2>1, <2>2, <2>4 DEF RetrievalsStand, SomeRetrieval, OnItsWay
  <2> QED BY <1>3, <2>3, <2>4
<1> QED BY <1>4, <1>5, <1>6 DEF RetrievalsAgree

\* The retrievals of a gather that is awaited are cancelled together.
LEMMA CancelKeepsStanding ==
  ASSUME RetrievalsAgree, NEW r \in Runs, Cancel(r)
  PROVE  RetrievalsAgree'
<1> DEFINE Of == [x \in AllRetrievals |->
                   IF x \in AwaitedBelow(r) THEN WhenCancelled(retrieval[x]) ELSE retrieval[x]]
<1>1. /\ stage' = stage /\ retrieval' = Of
      /\ cancelling' = cancelling \cup {q \in Below(r) : stage[q] = "running"}
  BY DEF Cancel
<1>2. /\ \A y \in AllRetrievals : retrieval'[y] =
           IF y \in AwaitedBelow(r) THEN WhenCancelled(retrieval[y]) ELSE retrieval[y]
      /\ retrieval' \in [AllRetrievals -> RetrievalStates]
  BY <1>1 DEF RetrievalsAgree, WhenCancelled, RetrievalStates
<1>3. ASSUME NEW q \in Runs PROVE RetrievalsStand(q)'
  <2>1. RetrievalsStand(q) /\ \A x \in RetrievalsOf(q) : x \in AllRetrievals
    BY RetrievalsAre DEF RetrievalsAgree
  <2>2. \A x \in RetrievalsOf(q) : x \in AwaitedBelow(r) <=>
          q \in Below(r) /\ stage[q] = "running" /\ ~ (Retrieved(q) \/ GatherRaised(q))
    BY RetrievalsAre DEF AwaitedBelow
  <2>3. CASE stage[q] # "running" \/ q \notin Below(r)
    BY <1>1, <1>2, <2>1, <2>2, <2>3, StandingIsKept
  <2>4. CASE stage[q] = "running" /\ q \in Below(r) /\ (Retrieved(q) \/ GatherRaised(q))
    <3>1. \A x \in RetrievalsOf(q) : retrieval'[x] = retrieval[x]
      BY <1>2, <2>1, <2>2, <2>4
    <3>2. SomeRetrieval(q, OnItsWay) => SomeRetrieval(q, {"raised"})
      BY <2>1, <2>4 DEF RetrievalsStand, SomeRetrieval, OnItsWay, Retrieved, GatherRaised
    <3> QED BY <1>1, <2>1, <2>4, <3>1, <3>2 DEF RetrievalsStand, SomeRetrieval
  <2>5. CASE stage[q] = "running" /\ q \in Below(r) /\ ~ (Retrieved(q) \/ GatherRaised(q))
    <3>1. \A x \in RetrievalsOf(q) :
            retrieval'[x] = WhenCancelled(retrieval[x]) /\ retrieval[x] \in RetrievalStates
      BY <1>2, <2>1, <2>2, <2>5 DEF RetrievalsAgree
    <3>2. \A x \in RetrievalsOf(q) : retrieval[x] \notin {"idle", "raised", "cancelled"}
      BY <2>1, <2>5 DEF RetrievalsStand, SomeRetrieval, GatherRaised
    <3>3. \A x \in RetrievalsOf(q) : retrieval'[x] \in {"ending", "cancelled", "done"}
      BY <3>1, <3>2 DEF WhenCancelled, RetrievalStates
    <3> QED BY <1>1, <2>5, <3>3 DEF RetrievalsStand, SomeRetrieval, OnItsWay
  <2> QED BY <2>3, <2>4, <2>5
<1> QED BY <1>2, <1>3 DEF RetrievalsAgree

\* A run begins with its retrievals, and ends only when their gather is over.
LEMMA StepKeepsRetrievals ==
  ASSUME ComposedTypeOK, RetrievalsAgree, [ComposedNext]_compositionVars
  PROVE  RetrievalsAgree'
<1> USE DEF ComposedTypeOK
<1>1. ASSUME UNCHANGED <<stage, retrieval, cancelling>> PROVE RetrievalsAgree'
  BY <1>1 DEF RetrievalsAgree, RetrievalsStand, SomeRetrieval
<1>2. ASSUME NEW r \in Runs, NEW new \in {"returned", "out"}, stage' = [stage EXCEPT ![r] = new],
             UNCHANGED <<retrieval, cancelling>>, stage[r] = "running" => MayFinish(r)
      PROVE  RetrievalsAgree'
  <2>1. stage'[r] = new /\ \A q \in Runs \ {r} : stage'[q] = stage[q]
    BY <1>2
  <2>2. \A q \in Runs : RetrievalsStand(q)
    BY DEF RetrievalsAgree
  <2>3. \A q \in Runs \ {r} : RetrievalsStand(q)'
    BY <1>2, <2>1, <2>2, StandingIsKept
  <2>4. CASE stage[r] # "running"
    BY <1>2, <2>1, <2>2, <2>3, <2>4, StandingIsKept DEF RetrievalsAgree
  <2>5. CASE stage[r] = "running"
    <3>1. Retrieved(r) \/ GatherRaised(r)
      BY <1>2, <2>5 DEF MayFinish
    <3>2. /\ SomeRetrieval(r, OnItsWay) => SomeRetrieval(r, {"raised"})
          /\ SomeRetrieval(r, {"ending"}) => SomeRetrieval(r, {"cancelled"})
      BY <2>2, <3>1 DEF RetrievalsStand, SomeRetrieval, OnItsWay, Retrieved, GatherRaised
    <3>3. RetrievalsStand(r)'
      BY <1>2, <2>1, <2>2, <3>2 DEF RetrievalsStand, SomeRetrieval
    <3> QED BY <1>2, <2>3, <3>3 DEF RetrievalsAgree
  <2> QED BY <2>4, <2>5
<1>3. ASSUME NEW r \in Runs, NEW view, stage[r] = "idle", Begins(r, view), cancelling' = cancelling
      PROVE  RetrievalsAgree'
  <2>1. /\ stage' = [stage EXCEPT ![r] = "running"]
        /\ retrieval' = [x \in AllRetrievals |->
                           IF x \in RetrievalsOf(r) THEN "queued" ELSE retrieval[x]]
    BY <1>3 DEF Begins
  <2>2. stage'[r] = "running" /\ \A q \in Runs \ {r} : stage'[q] = stage[q]
    BY <2>1
  <2>3. retrieval' \in [AllRetrievals -> RetrievalStates]
    BY <2>1 DEF RetrievalsAgree, RetrievalStates
  <2>4. ASSUME NEW q \in Runs \ {r} PROVE RetrievalsStand(q)'
    <3>1. \A x \in RetrievalsOf(q) : x \in AllRetrievals /\ x \notin RetrievalsOf(r)
      BY RetrievalsAre
    <3> QED BY <1>3, <2>1, <2>2, <3>1, StandingIsKept DEF RetrievalsAgree
  <2>5. RetrievalsStand(r)'
    <3>1. \A x \in RetrievalsOf(r) : retrieval'[x] = "queued"
      BY <2>1, RetrievalsAre
    <3>2. r \notin cancelling'
      BY <1>3 DEF RetrievalsAgree, RetrievalsStand
    <3> QED BY <2>2, <3>1, <3>2 DEF RetrievalsStand, SomeRetrieval
  <2> QED BY <2>3, <2>4, <2>5 DEF RetrievalsAgree
<1>4. ASSUME NEW r \in Runs, NEW n \in Steps[DefinitionOf(r)],
             BeginStep(r, n) \/ AdmitStep(r, n) \/ EndStep(r, n) \/ CancelStep(r, n)
      PROVE  RetrievalsAgree'
  BY <1>1, <1>4 DEF BeginStep, MayBegin, AdmitStep, MayBeAdmitted, EndStep, MayEnd, CancelStep,
                    MayBeCancelled
<1>5. ASSUME NEW r \in Runs, EndRun(r) PROVE RetrievalsAgree'
  <2>1. PICK new \in {"returned", "out"} : stage' = [stage EXCEPT ![r] = new]
    BY <1>5 DEF EndRun, MayFinish
  <2> QED BY <1>2, <1>5, <2>1 DEF EndRun
<1>6. ASSUME NEW r \in Children, WrapperStep(r) PROVE RetrievalsAgree'
  <2>1. r \in Runs /\ cancelling' = cancelling
    BY <1>6, CallerIs DEF WrapperStep, StartChild, MayBeCalled, ViewsFor, RecordOutput, DropOutput
  <2>2. CASE StartChild(r)
    <3>1. stage[r] = "idle" /\ (Refused(r) \/ \E view : Begins(r, view))
      BY <2>2 DEF StartChild, MayBeCalled, ViewsFor
    <3>2. CASE Refused(r)
      BY <1>2, <2>1, <3>1, <3>2 DEF Refused
    <3> QED BY <1>3, <2>1, <3>1, <3>2
  <2>3. CASE RecordOutput(r) \/ DropOutput(r)
    BY <1>2, <2>1, <2>3 DEF RecordOutput, DropOutput
  <2> QED BY <1>6, <2>2, <2>3 DEF WrapperStep
<1>7. ASSUME (\E id \in OwnNames : Invalidate(id)) \/ UNCHANGED compositionVars
      PROVE  RetrievalsAgree'
  BY <1>1, <1>7 DEF Invalidate, compositionVars, composed
<1> QED BY <1>4, <1>5, <1>6, <1>7, RetrievalKeepsStanding, CancelKeepsStanding
       DEF ComposedNext, Finished, Progress, RunStep

\* A slot is taken and given back with the call that holds it.
LEMMA StepKeepsSlots ==
  ASSUME ComposedTypeOK, RetrievalsAgree, SlotsAgree, [ComposedNext]_compositionVars
  PROVE  SlotsAgree'
<1> USE DEF ComposedTypeOK
<1>1. ASSUME NEW r \in Runs, NEW n \in Steps[DefinitionOf(r)],
             BeginStep(r, n) \/ AdmitStep(r, n) \/ EndStep(r, n) \/ CancelStep(r, n)
      PROVE  SlotsAgree'
  <2> DEFINE s == <<r, n>>
  <2>1. s \in AllSteps /\ s \notin AllRetrievals /\ retrieval' = retrieval
    BY <1>1, RetrievalsAre DEF AllSteps, StepsOf, BeginStep, MayBegin, AdmitStep, MayBeAdmitted,
       EndStep, MayEnd, CancelStep, MayBeCancelled
  <2>2. CASE BeginStep(r, n)
    <3>1. /\ step[s] = "idle"
          /\ \/ reply' = "ok" /\ active' = active \cup {s}
             \/ reply' # "ok" /\ active' = active
          /\ step' = [step EXCEPT ![s] = IF reply' = "ok" THEN "working" ELSE "raised"]
      BY <2>2 DEF BeginStep, MayBegin, EnterOperation
    <3>2. /\ \A x \in AllSteps \ {s} : step'[x] = step[x]
          /\ step'[s] = IF reply' = "ok" THEN "working" ELSE "raised"
      BY <2>1, <3>1
    <3> HIDE DEF s
    <3> QED BY <2>1, <3>1, <3>2 DEF SlotsAgree, InCall
  <2>3. CASE AdmitStep(r, n)
    <3>1. /\ step[s] = "working" /\ active' = active
          /\ step' = [step EXCEPT ![s] = IF reply' = "ok" THEN "working" ELSE "refused"]
      BY <2>3 DEF AdmitStep, MayBeAdmitted, AdmitNamed
    <3>2. /\ \A x \in AllSteps \ {s} : step'[x] = step[x]
          /\ step'[s] \in {"working", "refused"}
      BY <2>1, <3>1
    <3> HIDE DEF s
    <3> QED BY <2>1, <3>1, <3>2 DEF SlotsAgree, InCall
  <2>4. CASE EndStep(r, n) \/ CancelStep(r, n)
    <3>1. /\ active' = active \ {s}
          /\ \/ step' = [step EXCEPT ![s] = "raised"]
             \/ step' = [step EXCEPT ![s] = "done"]
      BY <2>4 DEF EndStep, MayEnd, CancelStep, MayBeCancelled, LeaveOperation
    <3>2. /\ \A x \in AllSteps \ {s} : step'[x] = step[x]
          /\ step'[s] \in {"raised", "done"}
      BY <2>1, <3>1
    <3> HIDE DEF s
    <3> QED BY <2>1, <3>1, <3>2 DEF SlotsAgree, InCall
  <2> QED BY <1>1, <2>2, <2>3, <2>4
<1>2. ASSUME step' = step, active' = active,
             \A x \in AllRetrievals : retrieval'[x] \in {"working", "refused", "ending"} <=>
                                       retrieval[x] \in {"working", "refused", "ending"}
      PROVE  SlotsAgree'
  BY <1>2 DEF SlotsAgree, InCall
<1>3. ASSUME NEW r \in Runs, EndRun(r) PROVE SlotsAgree'
  BY <1>2, <1>3 DEF EndRun, MayFinish, ledger
<1>4. ASSUME NEW r \in Children, WrapperStep(r) PROVE SlotsAgree'
  <2>1. r \in Runs /\ UNCHANGED <<step, active>>
    BY <1>4, CallerIs DEF WrapperStep, StartChild, MayBeCalled, ViewsFor, RecordOutput, DropOutput,
                          AdmitChildRun, ledger
  <2>2. CASE retrieval' = retrieval
    BY <1>2, <2>1, <2>2
  <2>3. CASE retrieval' # retrieval
    <3>1. stage[r] = "idle" /\ \E view : Begins(r, view)
      BY <1>4, <2>3 DEF WrapperStep, StartChild, MayBeCalled, ViewsFor, Refused, RecordOutput,
                        DropOutput
    <3>2. \A x \in RetrievalsOf(r) : retrieval[x] = "idle"
      BY <2>1, <3>1 DEF RetrievalsAgree, RetrievalsStand
    <3>3. \A x \in AllRetrievals :
            retrieval'[x] = IF x \in RetrievalsOf(r) THEN "queued" ELSE retrieval[x]
      BY <3>1 DEF Begins
    <3> QED BY <1>2, <2>1, <3>2, <3>3
  <2> QED BY <2>2, <2>3
<1>5. ASSUME NEW r \in Runs, Cancel(r) PROVE SlotsAgree'
  <2>1. \A x \in AllRetrievals :
          retrieval'[x] = retrieval[x] \/ retrieval'[x] = WhenCancelled(retrieval[x])
    BY <1>5 DEF Cancel
  <2> QED BY <1>2, <1>5, <2>1 DEF Cancel, WhenCancelled, ledger
<1>6. ASSUME NEW x \in AllRetrievals, RetrievalStep(x) PROVE SlotsAgree'
  <2>1. x \notin AllSteps /\ step' = step /\ retrieval \in [AllRetrievals -> RetrievalStates]
    BY <1>6, RetrievalsAre, RetrievalChanges DEF RetrievalsAgree
  <2>2. CASE BeginRetrieval(x)
    <3>1. /\ retrieval[x] = "queued"
          /\ \/ reply' = "ok" /\ active' = active \cup {x}
             \/ reply' # "ok" /\ active' = active
          /\ retrieval' = [retrieval EXCEPT ![x] = IF reply' = "ok" THEN "working" ELSE "raised"]
      BY <2>2 DEF BeginRetrieval, MayBeginRetrieval, EnterOperation
    <3>2. /\ \A y \in AllRetrievals \ {x} : retrieval'[y] = retrieval[y]
          /\ retrieval'[x] = IF reply' = "ok" THEN "working" ELSE "raised"
      BY <2>1, <3>1
    <3> QED BY <2>1, <3>1, <3>2 DEF SlotsAgree, InCall
  <2>3. CASE AdmitRetrieval(x)
    <3>1. /\ retrieval[x] = "working" /\ active' = active
          /\ retrieval' = [retrieval EXCEPT ![x] = IF reply' = "ok" THEN "working" ELSE "refused"]
      BY <2>3 DEF AdmitRetrieval, MayAdmitRetrieval, AdmitNamed
    <3>2. /\ \A y \in AllRetrievals \ {x} : retrieval'[y] = retrieval[y]
          /\ retrieval'[x] \in {"working", "refused"}
      BY <2>1, <3>1
    <3> QED BY <2>1, <3>1, <3>2 DEF SlotsAgree, InCall
  <2>4. CASE EndRetrieval(x)
    <3>1. /\ active' = active \ {x}
          /\ \E new \in {"done", "raised", "cancelled"} : retrieval' = [retrieval EXCEPT ![x] = new]
      BY <2>4 DEF EndRetrieval, MayEndRetrieval, LeaveOperation
    <3>2. /\ \A y \in AllRetrievals \ {x} : retrieval'[y] = retrieval[y]
          /\ retrieval'[x] \in {"done", "raised", "cancelled"}
      BY <2>1, <3>1
    <3> QED BY <2>1, <3>1, <3>2 DEF SlotsAgree, InCall
  <2> QED BY <1>6, <2>2, <2>3, <2>4 DEF RetrievalStep
<1>7. ASSUME (\E id \in OwnNames : Invalidate(id)) \/ UNCHANGED compositionVars
      PROVE  SlotsAgree'
  BY <1>2, <1>7 DEF Invalidate, compositionVars, composed, ledger
<1> QED BY <1>1, <1>3, <1>4, <1>5, <1>6, <1>7 DEF ComposedNext, Finished, Progress, RunStep

\* Whatever names the runs give, and whatever is in their stores, this is how they stand.
LEMMA ControlInvariance == ComposedSpec => []ControlInv
<1>1. ComposedInit => ComposedTypeOK /\ StagesAgree
  BY InitStages
<1>2. ComposedInit => SlotsAgree /\ RetrievalsAgree
  <2> SUFFICES ASSUME ComposedInit PROVE SlotsAgree /\ RetrievalsAgree
    OBVIOUS
  <2>1. /\ active = {} /\ cancelling = {} /\ step = [s \in AllSteps |-> "idle"]
        /\ stage = [r \in Runs |-> IF r = Root THEN "running" ELSE "idle"]
        /\ retrieval = [x \in AllRetrievals |->
                          IF x \in RetrievalsOf(Root) THEN "queued" ELSE "idle"]
    BY DEF ComposedInit, Init
  <2>2. \A r \in Runs : \A x \in RetrievalsOf(r) :
          x \in AllRetrievals /\ retrieval[x] = IF r = Root THEN "queued" ELSE "idle"
    BY <2>1, RetrievalsAre
  <2>3. \A r \in Runs : RetrievalsStand(r)
    BY <2>1, <2>2 DEF RetrievalsStand, SomeRetrieval, OnItsWay
  <2> QED BY <2>1, <2>3 DEF SlotsAgree, InCall, RetrievalsAgree, RetrievalStates
<1>3. ComposedTypeOK /\ StagesAgree /\ [ComposedNext]_compositionVars => (ComposedTypeOK /\ StagesAgree)'
  BY StepKeepsStages
<1>4. ComposedTypeOK /\ RetrievalsAgree /\ SlotsAgree /\ [ComposedNext]_compositionVars =>
        (RetrievalsAgree /\ SlotsAgree)'
  BY StepKeepsRetrievals, StepKeepsSlots
<1>5. ComposedSpec => []TypeOK
  BY ComposedUsesLedger, TypeCorrect, PTL
<1> QED BY <1>1, <1>2, <1>3, <1>4, <1>5, PTL DEF ComposedSpec, ControlInv

-----------------------------------------------------------------------------
(* project always answers: whatever order it takes the links in, there is one. *)

ItemsOf(s) == [id : Known(s), mustBeCurrent : BOOLEAN]
WalksOf(s) == [queue : Seq(ItemsOf(s)), included : SUBSET Known(s), refused : {"none", "scope", "stale"}]

\* A finite set of records can be put in some order, and has only its records in any.
LEMMA OrdersAre ==
  ASSUME NEW s, NEW S \in SUBSET Known(s), IsFiniteSet(S)
  PROVE  Store(s)!OrdersOf(S) # {} /\ \A o \in Store(s)!OrdersOf(S) : o \in Seq(Known(s))
<1> DEFINE n == Cardinality(S)
           D == 1..n
<1>1. n \in Nat /\ ExistsBijection(D, S)
  BY FS_CardinalityType
<1>2. Store(s)!OrdersOf(S) = Bijection(D, S)
  <2>1. Store(s)!Cardinality(S) = Cardinality(S)
    BY DEF Store!Cardinality, Cardinality
  <2>2. Store(s)!Bijection(D, S) = Bijection(D, S)
    BY DEF Store!Bijection, Store!Injection, Store!Surjection, Store!IsInjective,
           Bijection, Injection, Surjection, IsInjective
  <2> QED BY <2>1, <2>2 DEF Store!OrdersOf
<1>3. ASSUME NEW o \in Bijection(D, S) PROVE o \in Seq(Known(s))
  <2>1. o \in [D -> Known(s)]
    BY DEF Bijection, Injection, Surjection
  <2> QED BY <1>1, <2>1, SeqDef
<1> QED BY <1>1, <1>2, <1>3 DEF ExistsBijection

\* What is pushed for records is an item for each.
LEMMA PendingAre ==
  ASSUME NEW s, NEW o \in Seq(Known(s)), NEW demand \in BOOLEAN
  PROVE  Store(s)!PendingAll(o, demand) \in Seq(ItemsOf(s))
<1> DEFINE p == Store(s)!PendingAll(o, demand)
           n == Len(o)
<1>1. n \in Nat /\ DOMAIN o = 1..n /\ \A i \in 1..n : o[i] \in Known(s)
  BY LenProperties, ElementOfSeq
<1>2. p = [i \in 1..n |-> [id |-> o[i], mustBeCurrent |-> demand]]
  BY <1>1 DEF Store!PendingAll, Store!Pending
<1>3. p \in [1..n -> ItemsOf(s)]
  BY <1>1, <1>2 DEF ItemsOf
<1> HIDE DEF p, n
<1>4. p \in Seq(ItemsOf(s))
  BY <1>1, <1>3, SeqDef
<1> QED BY <1>4 DEF p

\* There is an order to push what a record is linked to.
LEMMA LinkedAre ==
  ASSUME NEW s, WellKept(s), NEW item \in ItemsOf(s)
  PROVE  /\ Store(s)!Linked(item) # {}
         /\ \A links \in Store(s)!Linked(item) : links \in Seq(ItemsOf(s))
<1> DEFINE index == [d \in DOMAIN s.records |->
                       {b \in DOMAIN s.records : \/ d \in s.records[b].conflicts
                                                 \/ b \in s.records[d].conflicts}]
           D == s.records[item.id].dependencies
           C == index[item.id]
           demand == item.mustBeCurrent
<1>1. item.id \in Known(s) /\ demand \in BOOLEAN
  BY DEF ItemsOf
<1>2. D \in SUBSET Known(s) /\ IsFiniteSet(D)
  BY <1>1, WellKeptIs, FS_Subset DEF Links
<1>3. C \in SUBSET Known(s) /\ IsFiniteSet(C)
  <2>1. C \in SUBSET Known(s)
    BY <1>1 DEF Known
  <2> HIDE DEF C
  <2> QED BY <2>1, WellKeptIs, FS_Subset
<1> DEFINE pushed(d, c) == Store(s)!PendingAll(d, demand) \o Store(s)!PendingAll(c, FALSE)
<1>4. Store(s)!Linked(item) = {pushed(d, c) : d \in Store(s)!OrdersOf(D), c \in Store(s)!OrdersOf(C)}
  BY DEF Store!Linked
<1> HIDE DEF D, C, demand
<1>5. /\ Store(s)!OrdersOf(D) # {} /\ \A d \in Store(s)!OrdersOf(D) : d \in Seq(Known(s))
      /\ Store(s)!OrdersOf(C) # {} /\ \A c \in Store(s)!OrdersOf(C) : c \in Seq(Known(s))
  BY <1>2, <1>3, OrdersAre
<1>6. ASSUME NEW d \in Store(s)!OrdersOf(D), NEW c \in Store(s)!OrdersOf(C)
      PROVE  pushed(d, c) \in Seq(ItemsOf(s))
  <2>1. Store(s)!PendingAll(d, demand) \in Seq(ItemsOf(s))
    BY <1>1, <1>5, PendingAre
  <2>2. Store(s)!PendingAll(c, FALSE) \in Seq(ItemsOf(s))
    BY <1>5, PendingAre
  <2> QED BY <2>1, <2>2, ConcatProperties
<1> HIDE DEF pushed
<1>7. Store(s)!Linked(item) # {}
  <2>1. PICK d \in Store(s)!OrdersOf(D), c \in Store(s)!OrdersOf(C) : TRUE
    BY <1>5
  <2>2. pushed(d, c) \in Store(s)!Linked(item)
    BY <1>4
  <2> QED BY <2>2
<1>8. ASSUME NEW links \in Store(s)!Linked(item) PROVE links \in Seq(ItemsOf(s))
  <2>1. PICK d \in Store(s)!OrdersOf(D), c \in Store(s)!OrdersOf(C) : links = pushed(d, c)
    BY <1>4
  <2> QED BY <1>6, <2>1
<1> QED BY <1>7, <1>8

\* A turn of the loop goes on somewhere.
LEMMA TurnIs ==
  ASSUME NEW s, WellKept(s), NEW scope, NEW w \in WalksOf(s)
  PROVE  Store(s)!Turn(w, scope) # {} /\ Store(s)!Turn(w, scope) \subseteq WalksOf(s)
<1> DEFINE item == w.queue[Len(w.queue)]
           front == SubSeq(w.queue, 1, Len(w.queue) - 1)
           refused == Store(s)!RefusalOfItem(item, w.included, scope)
           pushed(links) == [w EXCEPT !.queue = front \o links, !.included = w.included \cup {item.id}]
<1>1. /\ w = [queue |-> w.queue, included |-> w.included, refused |-> w.refused]
      /\ w.queue \in Seq(ItemsOf(s)) /\ w.included \in SUBSET Known(s)
      /\ w.refused \in {"none", "scope", "stale"}
  BY DEF WalksOf
<1>2. Store(s)!Turn(w, scope) =
        IF w.queue = <<>> \/ w.refused # "none" THEN {w}
        ELSE IF refused # "none" THEN {[w EXCEPT !.refused = refused]}
        ELSE IF item.id \in w.included THEN {[w EXCEPT !.queue = front]}
        ELSE {pushed(links) : links \in Store(s)!Linked(item)}
  BY DEF Store!Turn
<1>3. refused \in {"none", "scope", "stale"}
  BY DEF Store!RefusalOfItem
<1> HIDE DEF item, front, refused
<1>4. CASE w.queue = <<>> \/ w.refused # "none"
  BY <1>2, <1>4
<1>5. CASE ~ (w.queue = <<>> \/ w.refused # "none")
  <2>1. item \in ItemsOf(s) /\ front \in Seq(ItemsOf(s))
    <3> DEFINE q == w.queue
               n == Len(q) - 1
    <3>1. q \in Seq(ItemsOf(s)) /\ q # <<>>
      BY <1>1, <1>5
    <3> HIDE DEF q
    <3>2. Len(q) \in Nat \ {0} /\ \A i \in 1..Len(q) : q[i] \in ItemsOf(s)
      BY <3>1, EmptySeq, LenProperties, ElementOfSeq
    <3>3. n \in Nat /\ \A i \in 1..n : q[i] \in ItemsOf(s)
      BY <3>2
    <3>4. SubSeq(q, 1, n) \in Seq(ItemsOf(s))
      <4> HIDE DEF n
      <4>1. \A i \in 1..n : q[i] \in ItemsOf(s)
        BY <3>3
      <4> QED BY <3>3, <4>1, SubSeqProperties
    <3> QED BY <3>2, <3>4 DEF item, front, q, n
  <2>2. /\ Store(s)!Linked(item) # {}
        /\ \A links \in Store(s)!Linked(item) : front \o links \in Seq(ItemsOf(s))
    BY <2>1, LinkedAre, ConcatProperties
  <2>3. w.included \cup {item.id} \in SUBSET Known(s)
    BY <1>1, <2>1 DEF ItemsOf
  <2>4. \A links \in Store(s)!Linked(item) : pushed(links) \in WalksOf(s)
    BY <1>1, <2>2, <2>3 DEF WalksOf
  <2>5. [w EXCEPT !.refused = refused] \in WalksOf(s) /\ [w EXCEPT !.queue = front] \in WalksOf(s)
    BY <1>1, <1>3, <2>1 DEF WalksOf
  <2> HIDE DEF pushed
  <2> QED BY <1>2, <1>5, <2>2, <2>4, <2>5, ZenonT(60)
<1> QED BY <1>4, <1>5

Begun(s, ids) ==
  {[queue |-> Store(s)!PendingAll(ids, TRUE), included |-> {}, refused |-> "none"]}

OneMoreTurn(s, W, scope) == UNION {Store(s)!Turn(w, scope) : w \in W}

\* f says where the loop may be after each of the first m turns.
IsWalking(f, m, s, ids, scope) ==
  f = [n \in 0..m |-> IF n = 0 THEN Begun(s, ids) ELSE OneMoreTurn(s, f[n - 1], scope)]

\* The recursion of Walks has a solution for any number of turns.
LEMMA WalkingExists ==
  ASSUME NEW m \in Nat, NEW s, NEW ids, NEW scope
  PROVE  \E f : IsWalking(f, m, s, ids, scope)
<1> DEFINE T == {n \in Nat : \E f : IsWalking(f, n, s, ids, scope)}
           base == Begun(s, ids)
           After(W) == OneMoreTurn(s, W, scope)
<1>1. 0 \in T
  <2>1. IsWalking([n \in 0..0 |-> base], 0, s, ids, scope)
    BY DEF IsWalking
  <2> QED BY <2>1
<1>2. ASSUME NEW n \in T PROVE n + 1 \in T
  <2>1. PICK f : IsWalking(f, n, s, ids, scope)
    OBVIOUS
  <2> DEFINE next == After(f[n])
             g == [k \in 0..(n + 1) |-> IF k = n + 1 THEN next ELSE f[k]]
             h == [l \in 0..n |-> IF l = 0 THEN base ELSE After(f[l - 1])]
  <2>2. f = h
    BY <2>1 DEF IsWalking
  <2> HIDE DEF base, After
  <2>3. \A k \in 0..n : h[k] = IF k = 0 THEN base ELSE After(f[k - 1])
    OBVIOUS
  <2> HIDE DEF h
  <2>4. ASSUME NEW k \in 0..(n + 1)
        PROVE  g[k] = IF k = 0 THEN base ELSE After(g[k - 1])
    <3>1. CASE k = n + 1
      <4>1. g[k - 1] = f[n] /\ g[k] = next /\ k # 0
        BY <3>1
      <4> HIDE DEF g
      <4> QED BY <4>1
    <3>2. CASE k # n + 1
      <4>1. k \in 0..n /\ g[k] = f[k] /\ (k # 0 => g[k - 1] = f[k - 1])
        BY <3>2
      <4> HIDE DEF g
      <4> QED BY <2>2, <2>3, <4>1
    <3> QED BY <3>1, <3>2
  <2>5. g = [k \in 0..(n + 1) |-> g[k]]
    OBVIOUS
  <2> HIDE DEF g
  <2>6. g = [k \in 0..(n + 1) |-> IF k = 0 THEN base ELSE After(g[k - 1])]
    BY <2>4, <2>5
  <2>7. IsWalking(g, n + 1, s, ids, scope)
    BY <2>6 DEF IsWalking, base, After
  <2> QED BY <2>7
<1>3. T \subseteq Nat
  OBVIOUS
<1> HIDE DEF T
<1>4. T = Nat
  BY <1>1, <1>2, <1>3, AllNumbers
<1> QED BY <1>4 DEF T

\* Whatever records are asked for, the projection has a result.
LEMMA ProjectAnswers ==
  ASSUME NEW s, WellKept(s), NEW ids \in Seq(Known(s)), NEW scope, NEW capacity
  PROVE  Store(s)!Project(ids, scope, capacity) # {}
<1> DEFINE m == Store(s)!MaxTurns(ids)
           f == CHOOSE f : IsWalking(f, m, s, ids, scope)
           base == Begun(s, ids)
           After(W) == OneMoreTurn(s, W, scope)
           h == [n \in 0..m |-> IF n = 0 THEN base ELSE After(f[n - 1])]
           Goes(n) == f[n] # {} /\ f[n] \subseteq WalksOf(s)
<1>1. m \in Nat
  <2> DEFINE k == Cardinality(Known(s))
  <2>1. Store(s)!Cardinality(Known(s)) = k
    BY DEF Store!Cardinality, Cardinality
  <2>2. Store(s)!Known = Known(s)
    BY DEF Store!Known, Known
  <2>3. k \in Nat /\ Len(ids) \in Nat
    BY WellKeptIs, FS_CardinalityType, LenProperties
  <2>4. m = Len(ids) + k * 2 * k
    BY <2>1, <2>2 DEF Store!MaxTurns
  <2> HIDE DEF k, m
  <2> QED BY <2>3, <2>4
<1>2. Store(s)!Walks(ids, scope) = f[m]
  BY DEF Store!Walks, IsWalking, Begun, OneMoreTurn
<1>3. Store(s)!Project(ids, scope, capacity)
        = {Store(s)!Outcome(w, capacity) : w \in Store(s)!Walks(ids, scope)}
  BY DEF Store!Project
<1> HIDE DEF m
<1>4. IsWalking(f, m, s, ids, scope)
  BY <1>1, WalkingExists
<1> HIDE DEF f
<1>5. f = h
  BY <1>4 DEF IsWalking
<1>6. base # {} /\ base \subseteq WalksOf(s)
  <2>1. Store(s)!PendingAll(ids, TRUE) \in Seq(ItemsOf(s))
    BY PendingAre
  <2> DEFINE q == Store(s)!PendingAll(ids, TRUE)
             w == [queue |-> q, included |-> {}, refused |-> "none"]
  <2>2. q \in Seq(ItemsOf(s))
    BY <2>1
  <2>3. base = {w}
    BY DEF Begun
  <2> HIDE DEF q, base
  <2>4. w \in WalksOf(s)
    BY <2>2 DEF WalksOf
  <2> QED BY <2>3, <2>4
<1>7. ASSUME NEW W, W # {}, W \subseteq WalksOf(s) PROVE After(W) # {} /\ After(W) \subseteq WalksOf(s)
  <2>1. \A w \in W : Store(s)!Turn(w, scope) # {} /\ Store(s)!Turn(w, scope) \subseteq WalksOf(s)
    BY <1>7, TurnIs
  <2> QED BY <1>7, <2>1 DEF OneMoreTurn
<1> HIDE DEF base, After
<1>8. f[0] = base /\ \A n \in 0..m : n # 0 => f[n] = After(f[n - 1])
  BY <1>1, <1>5
<1> HIDE DEF h
<1> DEFINE T == {n \in Nat : n <= m => Goes(n)}
<1>9. 0 \in T
  BY <1>6, <1>8
<1>10. ASSUME NEW n \in T PROVE n + 1 \in T
  <2>1. SUFFICES ASSUME n + 1 <= m PROVE Goes(n + 1)
    OBVIOUS
  <2>2. n + 1 \in 0..m /\ n + 1 # 0 /\ (n + 1) - 1 = n /\ Goes(n)
    BY <1>1, <2>1
  <2>3. f[n + 1] = After(f[n])
    BY <1>8, <2>2
  <2> QED BY <1>7, <2>2, <2>3
<1>11. T \subseteq Nat
  OBVIOUS
<1>12. T = Nat
  <2> HIDE DEF T
  <2> QED BY <1>9, <1>10, <1>11, AllNumbers
<1>13. Goes(m)
  BY <1>1, <1>12
<1> QED BY <1>2, <1>3, <1>13

-----------------------------------------------------------------------------
(* Nobody waits for somebody who waits for him. SomethingMayGoOn says it with *)
(* the guards of the actions, and the first lemma that a guard is all they ask. *)

\* A guard is all an action asks: whoever may go on goes on, to the state that says
\* for every variable what it becomes.
LEMMA MayGoOnGoesOn ==
  /\ \A r \in Runs : \A n \in Steps[DefinitionOf(r)] :
       /\ /\ MayBegin(r, n) /\ EnterOperation(<<r, n>>, Deadline)
          /\ step' = [step EXCEPT ![<<r, n>>] = IF reply' = "ok" THEN "working" ELSE "raised"]
          /\ UNCHANGED <<store, stage, ended, lent, imported, retrieval, cancelling, changes, cancelled>>
          => Progress
       /\ /\ MayBeAdmitted(r, n) /\ AdmitNamed("tool", <<r, n>>, Deadline)
          /\ step' = [step EXCEPT ![<<r, n>>] = IF reply' = "ok" THEN "working" ELSE "refused"]
          /\ UNCHANGED <<store, stage, ended, lent, imported, retrieval, cancelling, changes, cancelled>>
          => Progress
       /\ /\ <<r, n>> \in active /\ (MayEnd(r, n) \/ MayBeCancelled(r, n))
          /\ active' = active \ {<<r, n>>} /\ step' = [step EXCEPT ![<<r, n>>] = "raised"]
          /\ UNCHANGED <<store, stage, ended, lent, imported, retrieval, cancelling, changes, cancelled>>
          /\ UNCHANGED <<operations, attempts, calls, children, measured, now, reply>>
          => Progress
  /\ \A x \in AllRetrievals :
       /\ /\ MayBeginRetrieval(x) /\ EnterOperation(x, Deadline)
          /\ retrieval' = [retrieval EXCEPT ![x] = IF reply' = "ok" THEN "working" ELSE "raised"]
          /\ UNCHANGED <<store, stage, ended, lent, imported, step, cancelling, changes, cancelled>>
          => Progress
       /\ /\ MayAdmitRetrieval(x) /\ AdmitNamed("tool", x, Deadline)
          /\ retrieval' = [retrieval EXCEPT ![x] = IF reply' = "ok" THEN "working" ELSE "refused"]
          /\ UNCHANGED <<store, stage, ended, lent, imported, step, cancelling, changes, cancelled>>
          => Progress
       /\ /\ x \in active /\ MayEndRetrieval(x) /\ active' = active \ {x}
          /\ retrieval' = [retrieval EXCEPT
                             ![x] = IF retrieval[x] = "ending" THEN "cancelled" ELSE "raised"]
          /\ UNCHANGED <<store, stage, ended, lent, imported, step, cancelling, changes, cancelled>>
          /\ UNCHANGED <<operations, attempts, calls, children, measured, now, reply>>
          => Progress
  /\ /\ MayFinish(Root)
     /\ \E how \in Ends(Root) : ended' = [ended EXCEPT ![Root] = how]
     /\ stage' = [stage EXCEPT ![Root] = "out"]
     /\ UNCHANGED <<store, imported, lent, step, retrieval, cancelling, changes, cancelled, ledger>>
     => Progress
  /\ \A r \in Children :
       /\ /\ MayFinish(r) /\ \E how \in Ends(r) : Absorbs(r, how)
          /\ stage' = [stage EXCEPT ![r] = IF ended'[r] = "completed" THEN "returned" ELSE "out"]
          /\ UNCHANGED <<lent, step, retrieval, cancelling, changes, cancelled, ledger>>
          => Progress
       /\ /\ MayBeCalled(r) /\ (KnowsAsked(r) => ViewsFor(r) # {})
          /\ IF MayRunUnder(r) THEN AdmitChildRun(r, Len(r), Deadline) ELSE UNCHANGED ledger
          /\ LET result == CHOOSE result \in ViewsFor(r) : TRUE
             IN  IF /\ MayRunUnder(r) /\ reply' = "ok" /\ KnowsAsked(r)
                    /\ result.refused = "none" /\ Projectable(store[Caller(r)], result.view)
                 THEN Begins(r, result.view) ELSE Refused(r)
          /\ UNCHANGED <<imported, step, cancelling, changes, cancelled>>
          => Progress
       /\ /\ stage[r] = "returned" /\ stage' = [stage EXCEPT ![r] = "out"]
          /\ LET id == Own(Output[Last(r)])
             IN  IF MayAdd(store[Caller(r)], id, OutputRecord(r))
                 THEN /\ store' = [store EXCEPT ![Caller(r)] = Added(@, id, OutputRecord(r))]
                      /\ UNCHANGED ended
                 ELSE ended' = [ended EXCEPT ![r] = "failed"] /\ UNCHANGED store
          /\ UNCHANGED <<lent, imported, step, retrieval, cancelling, changes, cancelled, ledger>>
          => Progress
<1>1. ASSUME NEW r \in Runs, NEW n \in Steps[DefinitionOf(r)],
             BeginStep(r, n) \/ AdmitStep(r, n) \/ EndStep(r, n) \/ CancelStep(r, n)
      PROVE  Progress
  BY <1>1 DEF Progress, RunStep
<1>2. ASSUME NEW r \in Runs, NEW n \in Steps[DefinitionOf(r)],
             MayBegin(r, n), EnterOperation(<<r, n>>, Deadline),
             step' = [step EXCEPT ![<<r, n>>] = IF reply' = "ok" THEN "working" ELSE "raised"],
             UNCHANGED <<store, stage, ended, lent, imported, retrieval, cancelling, changes, cancelled>>
      PROVE  Progress
  BY <1>1, <1>2 DEF MayBegin, BeginStep
<1>3. ASSUME NEW r \in Runs, NEW n \in Steps[DefinitionOf(r)],
             MayBeAdmitted(r, n), AdmitNamed("tool", <<r, n>>, Deadline),
             step' = [step EXCEPT ![<<r, n>>] = IF reply' = "ok" THEN "working" ELSE "refused"],
             UNCHANGED <<store, stage, ended, lent, imported, retrieval, cancelling, changes, cancelled>>
      PROVE  Progress
  BY <1>1, <1>3 DEF MayBeAdmitted, AdmitStep
<1>4. ASSUME NEW r \in Runs, NEW n \in Steps[DefinitionOf(r)],
             <<r, n>> \in active, MayEnd(r, n) \/ MayBeCancelled(r, n),
             active' = active \ {<<r, n>>}, step' = [step EXCEPT ![<<r, n>>] = "raised"],
             UNCHANGED <<store, stage, ended, lent, imported, retrieval, cancelling, changes, cancelled>>,
             UNCHANGED <<operations, attempts, calls, children, measured, now, reply>>
      PROVE  Progress
  <2>1. <<r, n>> \in active /\ LeaveOperation(<<r, n>>)
    BY <1>4 DEF LeaveOperation
  <2>2. CASE MayEnd(r, n)
    BY <1>1, <1>4, <2>1, <2>2 DEF MayEnd, EndStep
  <2>3. CASE MayBeCancelled(r, n)
    BY <1>1, <1>4, <2>1, <2>3 DEF MayBeCancelled, CancelStep
  <2> QED BY <1>4, <2>2, <2>3
<1>5. ASSUME NEW r \in Runs, EndRun(r) PROVE Progress
  BY <1>5 DEF Progress, RunStep
<1>6. ASSUME MayFinish(Root), NEW how \in Ends(Root), ended' = [ended EXCEPT ![Root] = how],
             stage' = [stage EXCEPT ![Root] = "out"],
             UNCHANGED <<store, imported, lent, step, retrieval, cancelling, changes, cancelled, ledger>>
      PROVE  Progress
  <2>1. EndRun(Root)
    BY <1>6 DEF MayFinish, EndRun
  <2>2. Root \in Runs
    BY DEF Runs
  <2> QED BY <1>5, <2>1, <2>2
<1>7. ASSUME NEW r \in Children, MayFinish(r), NEW how \in Ends(r), Absorbs(r, how),
             stage' = [stage EXCEPT ![r] = IF ended'[r] = "completed" THEN "returned" ELSE "out"],
             UNCHANGED <<lent, step, retrieval, cancelling, changes, cancelled, ledger>>
      PROVE  Progress
  <2>1. r \in Runs /\ r # Root
    BY CallerIs
  <2>2. EndRun(r)
    BY <1>7, <2>1 DEF MayFinish, EndRun
  <2> QED BY <1>5, <2>1, <2>2
<1>8. ASSUME NEW r \in Children, StartChild(r) \/ RecordOutput(r) PROVE Progress
  BY <1>8 DEF Progress, WrapperStep
<1>9. ASSUME NEW r \in Children, MayBeCalled(r), KnowsAsked(r) => ViewsFor(r) # {},
             IF MayRunUnder(r) THEN AdmitChildRun(r, Len(r), Deadline) ELSE UNCHANGED ledger,
             LET result == CHOOSE result \in ViewsFor(r) : TRUE
             IN  IF /\ MayRunUnder(r) /\ reply' = "ok" /\ KnowsAsked(r)
                    /\ result.refused = "none" /\ Projectable(store[Caller(r)], result.view)
                 THEN Begins(r, result.view) ELSE Refused(r),
             UNCHANGED <<imported, step, cancelling, changes, cancelled>>
      PROVE  Progress
  <2> DEFINE result == CHOOSE result \in ViewsFor(r) : TRUE
  <2>1. KnowsAsked(r) => result \in ViewsFor(r)
    BY <1>9
  <2>2. CASE ~ MayRunUnder(r)
    <3>1. StartChild(r)
      BY <1>9, <2>1, <2>2 DEF StartChild, MayBeCalled, ViewsFor
    <3> QED BY <1>8, <3>1
  <2>3. CASE MayRunUnder(r) /\ ~ (reply' = "ok" /\ KnowsAsked(r))
    <3>1. StartChild(r)
      BY <1>9, <2>1, <2>3 DEF StartChild, MayBeCalled, ViewsFor
    <3> QED BY <1>8, <3>1
  <2>4. CASE MayRunUnder(r) /\ reply' = "ok" /\ KnowsAsked(r)
    <3>1. IF result.refused = "none" /\ Projectable(store[Caller(r)], result.view)
          THEN Begins(r, result.view) ELSE Refused(r)
      BY <1>9, <2>4
    <3> HIDE DEF result
    <3>2. StartChild(r)
      BY <1>9, <2>1, <2>4, <3>1 DEF StartChild, ViewsFor
    <3> QED BY <1>8, <3>2
  <2> QED BY <2>2, <2>3, <2>4
<1>10. ASSUME NEW r \in Children, stage[r] = "returned", stage' = [stage EXCEPT ![r] = "out"],
              LET id == Own(Output[Last(r)])
              IN  IF MayAdd(store[Caller(r)], id, OutputRecord(r))
                  THEN /\ store' = [store EXCEPT ![Caller(r)] = Added(@, id, OutputRecord(r))]
                       /\ UNCHANGED ended
                  ELSE ended' = [ended EXCEPT ![r] = "failed"] /\ UNCHANGED store,
              UNCHANGED <<lent, imported, step, retrieval, cancelling, changes, cancelled, ledger>>
       PROVE  Progress
  BY <1>8, <1>10 DEF RecordOutput
<1>11. ASSUME NEW x \in AllRetrievals, RetrievalStep(x) PROVE Progress
  BY <1>11 DEF Progress
<1>12. ASSUME NEW x \in AllRetrievals, MayBeginRetrieval(x), EnterOperation(x, Deadline),
              retrieval' = [retrieval EXCEPT ![x] = IF reply' = "ok" THEN "working" ELSE "raised"],
              UNCHANGED <<store, stage, ended, lent, imported, step, cancelling, changes, cancelled>>
       PROVE  Progress
  BY <1>11, <1>12 DEF MayBeginRetrieval, BeginRetrieval, RetrievalStep
<1>13. ASSUME NEW x \in AllRetrievals, MayAdmitRetrieval(x), AdmitNamed("tool", x, Deadline),
              retrieval' = [retrieval EXCEPT ![x] = IF reply' = "ok" THEN "working" ELSE "refused"],
              UNCHANGED <<store, stage, ended, lent, imported, step, cancelling, changes, cancelled>>
       PROVE  Progress
  BY <1>11, <1>13 DEF MayAdmitRetrieval, AdmitRetrieval, RetrievalStep
<1>14. ASSUME NEW x \in AllRetrievals, x \in active, MayEndRetrieval(x), active' = active \ {x},
              retrieval' = [retrieval EXCEPT
                             ![x] = IF retrieval[x] = "ending" THEN "cancelled" ELSE "raised"],
              UNCHANGED <<store, stage, ended, lent, imported, step, cancelling, changes, cancelled>>,
              UNCHANGED <<operations, attempts, calls, children, measured, now, reply>>
       PROVE  Progress
  <2>1. LeaveOperation(x)
    BY <1>14 DEF LeaveOperation
  <2> DEFINE new == IF retrieval[x] = "ending" THEN "cancelled" ELSE "raised"
  <2>2. /\ new \in {"done", "raised", "cancelled"} /\ new # "done"
        /\ new = "cancelled" <=> retrieval[x] = "ending"
    OBVIOUS
  <2>3. retrieval' = [retrieval EXCEPT ![x] = new]
    BY <1>14
  <2> HIDE DEF new
  <2>4. EndRetrieval(x)
    BY <1>14, <2>1, <2>2, <2>3 DEF MayEndRetrieval, EndRetrieval
  <2> QED BY <1>11, <2>4 DEF RetrievalStep
<1> QED BY <1>2, <1>3, <1>4, <1>6, <1>7, <1>9, <1>10, <1>12, <1>13, <1>14

\* The projection a call asks for has a result.
LEMMA CallsAreAnswered ==
  ASSUME ComposedInv, NEW r \in Children, KnowsAsked(r)
  PROVE  ViewsFor(r) # {}
<1> DEFINE caller == store[Caller(r)]
           read == Read[Last(r)]
<1>1. WellKept(caller) /\ read \in Seq(Names)
  BY CallerIs, DefinitionsAssumption DEF ComposedInv, ContentsKept, StoresKept
<1>2. Len(read) \in Nat /\ DOMAIN read = 1..Len(read)
  BY <1>1, LenProperties
<1>3. Asked(r) = [i \in 1..Len(read) |-> Own(read[i])]
  BY <1>2 DEF Asked
<1>4. \A i \in 1..Len(read) : Own(read[i]) \in Known(caller)
  <2>1. \A i \in DOMAIN Asked(r) : Asked(r)[i] \in Known(caller)
    BY DEF KnowsAsked, ToSet
  <2> HIDE DEF read, caller
  <2> QED BY <1>3, <2>1
<1>5. Asked(r) \in Seq(Known(caller))
  <2> HIDE DEF read, caller
  <2>1. Asked(r) \in [1..Len(read) -> Known(caller)]
    BY <1>3, <1>4
  <2> QED BY <1>2, <2>1, SeqDef
<1> QED BY <1>1, <1>5, ProjectAnswers DEF ViewsFor

\* Whoever holds a slot goes on; if nobody does, a slot is free.
LEMMA SlotsAreGivenBack ==
  ASSUME ConcurrentOperations > 0, ControlInv, ~ SomethingMayGoOn
  PROVE  active = {} /\ MayEnter
<1>1. ASSUME NEW s \in active \cap AllSteps PROVE FALSE
  <2>1. s \in AllSteps /\ step[s] \in {"working", "refused"}
    BY <1>1, RetrievalsAre DEF ControlInv, SlotsAgree, InCall
  <2>2. PICK r \in Runs : \E n \in Steps[DefinitionOf(r)] : s = <<r, n>>
    BY <2>1 DEF AllSteps, StepsOf
  <2>5. PICK n \in Steps[DefinitionOf(r)] : s = <<r, n>>
    BY <2>2
  <2>3. stage[r] = "running"
    <3>1. ~ Quiet(r)
      BY <2>1, <2>5 DEF Quiet, StepsOf
    <3> QED BY <3>1 DEF ControlInv, StagesAgree
  <2>4. NodeMayGoOn(r, n)
    BY <1>1, <2>1, <2>5, <2>3 DEF NodeMayGoOn, MayBeAdmitted, MayEnd, MayBeCancelled, Works
  <2> QED BY <2>4 DEF SomethingMayGoOn
<1>2. ASSUME NEW x \in active \ AllSteps PROVE FALSE
  <2>1. x \in AllRetrievals /\ retrieval[x] \in {"working", "refused", "ending"}
    BY <1>2 DEF ControlInv, SlotsAgree, InCall
  <2>2. RetrievalMayGoOn(x)
    BY <1>2, <2>1 DEF RetrievalMayGoOn, MayAdmitRetrieval, MayEndRetrieval
  <2> QED BY <2>1, <2>2 DEF SomethingMayGoOn
<1>3. Cardinality(active) = 0
  BY <1>1, <1>2, FS_EmptySet
<1> QED BY <1>1, <1>2, <1>3, LimitsAssumption DEF MayEnter

\* If nothing goes on, a run that has not ended awaits a run it called.
LEMMA WaitingIsForAChild ==
  ASSUME ConcurrentOperations > 0, ControlInv, ComposedInv, ~ SomethingMayGoOn,
         NEW r \in Runs, stage[r] = "running"
  PROVE  \E q \in Calls(r) : stage[q] = "running"
<1> SUFFICES ASSUME \A q \in Calls(r) : stage[q] # "running" PROVE FALSE
  OBVIOUS
<1>1. active = {} /\ MayEnter
  BY SlotsAreGivenBack
<1>2. ASSUME NEW s \in StepsOf(r) PROVE step[s] \in {"idle", "done", "raised"}
  <2>1. s \in AllSteps
    BY DEF AllSteps
  <2>2. step[s] \in StepStates /\ step[s] \notin {"working", "refused"}
    BY <1>1, <2>1 DEF ControlInv, ComposedTypeOK, SlotsAgree, InCall
  <2> QED BY <2>2 DEF StepStates
<1>3. Retrieved(r) \/ GatherRaised(r)
  <2>1. ASSUME NEW x \in RetrievalsOf(r) PROVE retrieval[x] \in {"done", "raised", "cancelled"}
    <3>1. x \in AllRetrievals /\ retrieval[x] \in RetrievalStates /\ retrieval[x] # "idle"
      BY RetrievalsAre DEF ControlInv, RetrievalsAgree, RetrievalsStand, SomeRetrieval
    <3>2. retrieval[x] \notin {"working", "refused", "ending"}
      BY <1>1, <3>1 DEF ControlInv, SlotsAgree, InCall
    <3>3. retrieval[x] # "queued"
      BY <1>1, <3>1 DEF SomethingMayGoOn, RetrievalMayGoOn, MayBeginRetrieval
    <3> QED BY <3>1, <3>2, <3>3 DEF RetrievalStates
  <2> QED BY <2>1 DEF Retrieved, GatherRaised
<1>4. ASSUME NEW q \in Calls(r) PROVE stage[q] \in {"idle", "out"}
  <2>1. q \in Children /\ q \in Runs
    BY CallerIs DEF Calls
  <2>2. stage[q] # "returned"
    BY <2>1 DEF SomethingMayGoOn
  <2> QED BY <2>1, <2>2 DEF ControlInv, ComposedTypeOK, Stages
<1>5. Quiet(r)
  BY <1>2, <1>4 DEF Quiet
<1>6. Retrieved(r) /\ r \notin cancelling /\ ~ NodesDone(r) /\ ~ NodeRaised(r)
  BY <1>5, <1>3 DEF SomethingMayGoOn, MayFinish
<1>7. Works(r)
  BY <1>6 DEF Works
<1>8. ASSUME NEW s \in StepsOf(r), step[s] # "done" PROVE FALSE
  <2>1. PICK n \in Steps[DefinitionOf(r)] : s = <<r, n>>
    BY DEF StepsOf
  <2>2. step[s] = "idle"
    BY <1>2, <1>6, <1>8 DEF NodeRaised
  <2>3. MayBegin(r, n)
    BY <1>1, <1>6, <1>7, <2>1, <2>2 DEF MayBegin
  <2> QED BY <2>3 DEF SomethingMayGoOn, NodeMayGoOn
<1>9. ASSUME NEW q \in Calls(r), ended[q] # "completed" PROVE FALSE
  <2>1. q \in Children /\ Caller(q) = r
    BY DEF Calls
  <2>2. stage[q] = "idle"
    BY <1>4, <1>6, <1>9 DEF NodeRaised
  <2>3. MayBeCalled(q) /\ (KnowsAsked(q) => ViewsFor(q) # {})
    BY <1>6, <1>7, <2>1, <2>2, CallsAreAnswered DEF MayBeCalled
  <2> QED BY <2>1, <2>3 DEF SomethingMayGoOn
<1> QED BY <1>6, <1>8, <1>9 DEF NodesDone

\* A chain of runs that await each other would have no end.
LEMMA WaitingEnds ==
  ASSUME ConcurrentOperations > 0, ControlInv, ComposedInv, stage[Root] = "running"
  PROVE  SomethingMayGoOn
<1> SUFFICES ASSUME ~ SomethingMayGoOn PROVE FALSE
  OBVIOUS
<1> DEFINE T == {n \in Nat : \E r \in Runs : Len(r) = n /\ stage[r] = "running"}
<1>1. 0 \in T
  <2>1. Root \in Runs /\ Len(Root) = 0
    BY DEF Runs, Root
  <2> QED BY <2>1
<1>2. ASSUME NEW n \in T PROVE n + 1 \in T
  <2>1. PICK r \in Runs : Len(r) = n /\ stage[r] = "running"
    OBVIOUS
  <2>2. PICK q \in Calls(r) : stage[q] = "running"
    BY <2>1, WaitingIsForAChild
  <2>3. q \in Runs /\ Len(q) \in Nat /\ Len(r) = Len(q) - 1
    BY CallerIs DEF Calls
  <2> QED BY <2>1, <2>2, <2>3
<1>3. MaxDepth + 1 \notin T
  BY RunIs, BoundsAssumption
<1>4. T \subseteq Nat
  OBVIOUS
<1> HIDE DEF T
<1>5. T = Nat
  BY <1>1, <1>2, <1>4, AllNumbers
<1> QED BY <1>3, <1>5, BoundsAssumption

\* The root run runs until it is out.
RootStands == stage[Root] \in {"running", "out"}

LEMMA StepKeepsRoot ==
  ASSUME ComposedTypeOK, RootStands, [ComposedNext]_compositionVars
  PROVE  RootStands'
<1>1. stage' = stage \/ \E r, new : stage' = [stage EXCEPT ![r] = new] /\ (r = Root => new = "out")
  <2>1. ASSUME NEW r \in Runs, RunStep(r) PROVE <1>1
    BY <2>1 DEF RunStep, BeginStep, MayBegin, AdmitStep, MayBeAdmitted, EndStep, MayEnd,
                CancelStep, MayBeCancelled, EndRun, MayFinish
  <2>2. ASSUME NEW r \in Children, WrapperStep(r) PROVE <1>1
    BY <2>2, CallerIs DEF WrapperStep, StartChild, MayBeCalled, ViewsFor, RecordOutput,
                          DropOutput, Refused, Begins
  <2> QED BY <2>1, <2>2, RetrievalChanges DEF ComposedNext, Progress, Cancel, Invalidate,
                                              Finished, compositionVars, composed
<1>2. Root \in Runs /\ stage \in [Runs -> Stages]
  BY DEF ComposedTypeOK, Runs
<1> QED BY <1>1, <1>2 DEF RootStands

\* No deadlock among runs that share their slots, for any number of them, to any depth and
\* whatever they are cancelled or have invalidated: until the root run has ended, some run
\* can go on. A node that waits for a slot waits for one that ends its call and gives it
\* back, and a run that waits for a child holds none meanwhile (the semaphore is taken for
\* single calls, not around the wrapper of a child), so the deepest run that has begun
\* always goes on.
\* A limit of no slot at all is refused with the definition (RunLimits).
THEOREM NobodyWaitsForAnother ==
  NamesDistinct /\ ConcurrentOperations > 0 =>
    (ComposedSpec => []SomeRunCanGoOn)
<1> SUFFICES ASSUME NamesDistinct, ConcurrentOperations > 0
             PROVE  ComposedSpec => []SomeRunCanGoOn
  OBVIOUS
<1>1. ComposedInit => RootStands
  <2>1. Root \in Runs
    BY DEF Runs
  <2> QED BY <2>1 DEF ComposedInit, RootStands
<1>2. ComposedTypeOK /\ RootStands /\ [ComposedNext]_compositionVars => RootStands'
  BY StepKeepsRoot
<1>3. ComposedInv => ComposedTypeOK
  BY DEF ComposedInv
<1>4. ComposedSpec => []ComposedInv
  BY ComposedInvariance
<1>5. ControlInv /\ ComposedInv /\ RootStands => SomeRunCanGoOn
  BY WaitingEnds DEF RootStands, SomeRunCanGoOn
<1> QED BY <1>1, <1>2, <1>3, <1>4, <1>5, ControlInvariance, PTL DEF ComposedSpec

-----------------------------------------------------------------------------
(* Every run goes on to its end. *)

\* What the nodes, the retrievals and the runs of an agent still have to do: a node is begun,
\* asks the ledger, and ends; a retrieval enters, is admitted, and is over; a run is called,
\* finishes, and is out of its wrapper's hands.
Milestones ==
  ({"begun", "asked", "ended"} \X AllSteps) \cup ({"called", "finished", "left"} \X Runs)
  \cup ({"entered", "admitted", "over"} \X AllRetrievals)

Passed(what, x) ==
  \/ what = "begun" /\ step[x] # "idle"
  \/ what = "asked" /\ (step[x] \in {"refused", "done", "raised"} \/ AdmittedStep(x[1], x[2]))
  \/ what = "ended" /\ step[x] \in {"done", "raised"}
  \/ what = "entered" /\ retrieval[x] \notin {"idle", "queued"}
  \/ what = "admitted" /\ (x \in calls["tool"] \/ retrieval[x] \notin {"idle", "queued", "working"})
  \/ what = "over" /\ retrieval[x] \in {"done", "raised", "cancelled"}
  \/ what = "called" /\ stage[x] # "idle"
  \/ what = "finished" /\ stage[x] \in {"returned", "out"}
  \/ what = "left" /\ stage[x] = "out"

ToPass == {m \in Milestones : ~ Passed(m[1], m[2])}

\* There are finitely many things to do.
LEMMA MilestonesAreFinite == IsFiniteSet(Milestones)
<1>1. ASSUME NEW of, \A d \in Definitions : IsFiniteSet(of[d])
      PROVE  IsFiniteSet(UNION {{<<r, n>> : n \in of[DefinitionOf(r)]} : r \in Runs})
  <2> DEFINE here == [r \in Runs |-> {<<r, n>> : n \in of[DefinitionOf(r)]}]
             All == {here[r] : r \in Runs}
  <2>1. ASSUME NEW r \in Runs PROVE IsFiniteSet(here[r])
    <3> DEFINE N == of[DefinitionOf(r)]
               pair == [n \in N |-> <<r, n>>]
    <3>1. DefinitionOf(r) \in Definitions
      BY DefinitionsAre, RunIs, BoundsAssumption DEF DefinitionOf
    <3>2. IsFiniteSet(N)
      BY <1>1, <3>1
    <3>3. pair \in Surjection(N, here[r])
      BY DEF Surjection
    <3> HIDE DEF N, pair, here
    <3> QED BY <3>2, <3>3, FS_Surjection
  <2>2. here \in Surjection(Runs, All)
    BY DEF Surjection
  <2>3. \A S \in All : IsFiniteSet(S)
    BY <2>1
  <2>4. UNION {{<<r, n>> : n \in of[DefinitionOf(r)]} : r \in Runs} = UNION All
    OBVIOUS
  <2> HIDE DEF here, All
  <2>5. IsFiniteSet(All)
    BY <2>2, RunsAreFinite, FS_Surjection
  <2> QED BY <2>3, <2>4, <2>5, FS_UNION
<1>2. IsFiniteSet(AllSteps)
  BY <1>1, DefinitionsAssumption DEF AllSteps, StepsOf
<1>3. \A d \in Definitions : IsFiniteSet(Retrieves[d])
  BY DefinitionsAssumption, FS_Subset
<1>4. IsFiniteSet(AllRetrievals)
  BY <1>1, <1>3 DEF AllRetrievals, RetrievalsOf
<1>5. ASSUME NEW x, NEW y, NEW z PROVE IsFiniteSet({x, y, z})
  <2>1. {x, y, z} = (({} \cup {x}) \cup {y}) \cup {z}
    OBVIOUS
  <2>2. IsFiniteSet({}) /\ IsFiniteSet({} \cup {x})
    BY FS_EmptySet, FS_AddElement
  <2>3. IsFiniteSet(({} \cup {x}) \cup {y})
    BY <2>2, FS_AddElement
  <2>4. IsFiniteSet((({} \cup {x}) \cup {y}) \cup {z})
    BY <2>3, FS_AddElement
  <2> QED BY <2>1, <2>4
<1> DEFINE A == {"begun", "asked", "ended"}
           B == {"called", "finished", "left"}
           C == {"entered", "admitted", "over"}
<1>6. IsFiniteSet(A) /\ IsFiniteSet(B) /\ IsFiniteSet(C)
  BY <1>5
<1> HIDE DEF A, B, C
<1>7. IsFiniteSet(A \X AllSteps) /\ IsFiniteSet(B \X Runs) /\ IsFiniteSet(C \X AllRetrievals)
  BY <1>2, <1>4, <1>6, RunsAreFinite, FS_Product
<1>8. IsFiniteSet((A \X AllSteps) \cup (B \X Runs))
  BY <1>7, FS_Union
<1> QED BY <1>7, <1>8, FS_Union DEF Milestones, A, B, C

\* Nothing that is passed is taken back, and what the step is about passes one more.
Advances == ToPass' \subseteq ToPass /\ ToPass' # ToPass

LEMMA AdvancesIs ==
  ASSUME \A m \in Milestones : Passed(m[1], m[2]) => Passed(m[1], m[2])',
         NEW m \in Milestones, ~ Passed(m[1], m[2]), Passed(m[1], m[2])'
  PROVE  Advances
BY DEF Advances, ToPass, Milestones

LEMMA NodesAdvance ==
  ASSUME ControlInv, NEW r \in Runs, NEW n \in Steps[DefinitionOf(r)],
         BeginStep(r, n) \/ AdmitStep(r, n) \/ EndStep(r, n) \/ CancelStep(r, n)
  PROVE  Advances
<1> DEFINE s == <<r, n>>
<1>1. s \in AllSteps /\ s[1] = r /\ s[2] = n /\ "tool" \in Classes
  <2>1. s \in AllSteps
    BY DEF AllSteps, StepsOf
  <2> QED BY <2>1, IdentityAssumption
<1>2. /\ stage' = stage /\ retrieval' = retrieval
      /\ step \in [AllSteps -> StepStates] /\ calls \in [Classes -> SUBSET CallIds]
  BY DEF ControlInv, ComposedTypeOK, TypeOK, BeginStep, MayBegin, AdmitStep, MayBeAdmitted,
         EndStep, MayEnd, CancelStep, MayBeCancelled
<1>3. calls["tool"] \subseteq calls'["tool"]
  BY <1>1, <1>2 DEF BeginStep, MayBegin, AdmitStep, MayBeAdmitted, EndStep, MayEnd, CancelStep,
                    MayBeCancelled, EnterOperation, AdmitNamed, LeaveOperation
<1>4. ASSUME NEW what \in {"begun", "asked", "ended"}, NEW new \in StepStates,
             step' = [step EXCEPT ![s] = new],
             \A w \in {"begun", "asked", "ended"} : Passed(w, s) => Passed(w, s)',
             ~ Passed(what, s), Passed(what, s)'
      PROVE  Advances
  <2>1. \A x \in AllSteps \ {s} : step'[x] = step[x]
    BY <1>1, <1>2, <1>4
  <2>2. ASSUME NEW m \in Milestones, Passed(m[1], m[2]) PROVE Passed(m[1], m[2])'
    <3>1. CASE m \in {"begun", "asked", "ended"} \X AllSteps
      <4>1. CASE m[2] = s
        BY <1>4, <2>2, <3>1, <4>1
      <4>2. CASE m[2] # s
        BY <1>3, <2>1, <2>2, <3>1, <4>2 DEF Passed, AdmittedStep
      <4> QED BY <4>1, <4>2
    <3>2. CASE m \in {"called", "finished", "left"} \X Runs
      BY <1>2, <2>2, <3>2 DEF Passed
    <3>3. CASE m \in {"entered", "admitted", "over"} \X AllRetrievals
      BY <1>2, <1>3, <2>2, <3>3 DEF Passed
    <3> QED BY <3>1, <3>2, <3>3 DEF Milestones
  <2> DEFINE m == <<what, s>>
  <2>3. m \in Milestones /\ m[1] = what /\ m[2] = s
    BY <1>1 DEF Milestones
  <2> HIDE DEF m, s
  <2> QED BY <1>4, <2>2, <2>3, AdvancesIs
<1>5. CASE BeginStep(r, n)
  <2>1. PICK new \in {"working", "raised"} : step' = [step EXCEPT ![s] = new]
    BY <1>5 DEF BeginStep, MayBegin
  <2>2. step[s] = "idle" /\ step'[s] = new
    BY <1>1, <1>2, <1>5, <2>1 DEF BeginStep, MayBegin
  <2>3. \A w \in {"begun", "asked", "ended"} : Passed(w, s) => Passed(w, s)'
    BY <1>3, <2>2 DEF Passed, AdmittedStep
  <2>4. ~ Passed("begun", s) /\ Passed("begun", s)'
    BY <2>2 DEF Passed
  <2> HIDE DEF s
  <2> QED BY <1>4, <2>1, <2>3, <2>4 DEF StepStates
<1>6. CASE AdmitStep(r, n)
  <2>1. /\ step[s] = "working" /\ s \notin calls["tool"]
        /\ step' = [step EXCEPT ![s] = IF reply' = "ok" THEN "working" ELSE "refused"]
        /\ reply' = "ok" => s \in calls'["tool"]
    BY <1>1, <1>2, <1>6 DEF AdmitStep, MayBeAdmitted, AdmitNamed, AdmittedStep
  <2>2. PICK new \in {"working", "refused"} :
          step' = [step EXCEPT ![s] = new] /\ (new = "working" => s \in calls'["tool"])
    BY <2>1
  <2>3. step'[s] = new
    BY <1>1, <1>2, <2>2
  <2>4. \A w \in {"begun", "asked", "ended"} : Passed(w, s) => Passed(w, s)'
    BY <1>1, <1>3, <2>1, <2>2, <2>3 DEF Passed, AdmittedStep
  <2>5. ~ Passed("asked", s) /\ Passed("asked", s)'
    BY <1>1, <2>1, <2>2, <2>3 DEF Passed, AdmittedStep
  <2> HIDE DEF s
  <2> QED BY <1>4, <2>2, <2>4, <2>5 DEF StepStates
<1>7. CASE EndStep(r, n) \/ CancelStep(r, n)
  <2>1. PICK new \in {"done", "raised"} : step' = [step EXCEPT ![s] = new]
    BY <1>7 DEF EndStep, MayEnd, CancelStep, MayBeCancelled
  <2>2. step[s] \in {"working", "refused"} /\ step'[s] = new
    BY <1>1, <1>2, <1>7, <2>1 DEF EndStep, MayEnd, CancelStep, MayBeCancelled
  <2>3. \A w \in {"begun", "asked", "ended"} : Passed(w, s) => Passed(w, s)'
    BY <2>2 DEF Passed
  <2>4. ~ Passed("ended", s) /\ Passed("ended", s)'
    BY <2>2 DEF Passed
  <2> HIDE DEF s
  <2> QED BY <1>4, <2>1, <2>3, <2>4 DEF StepStates
<1> QED BY <1>5, <1>6, <1>7

\* A run is called, finishes, or leaves its wrapper's hands.
LEMMA RunsAdvance ==
  ASSUME ControlInv, NEW r \in Runs,
         EndRun(r) \/ (r \in Children /\ WrapperStep(r))
  PROVE  Advances
<1>1. step' = step /\ stage \in [Runs -> Stages] /\ calls' = calls
  BY DEF ControlInv, ComposedTypeOK, EndRun, MayFinish, WrapperStep, StartChild, MayBeCalled,
         ViewsFor, RecordOutput, DropOutput, AdmitChildRun, ledger
<1>2. \A x \in AllRetrievals : retrieval'[x] = retrieval[x] \/ retrieval[x] = "idle"
  <2>1. CASE retrieval' = retrieval
    BY <2>1
  <2>2. CASE retrieval' # retrieval
    <3>1. stage[r] = "idle" /\ \E view : Begins(r, view)
      BY <2>2 DEF EndRun, MayFinish, WrapperStep, StartChild, MayBeCalled, ViewsFor, Refused,
                  RecordOutput, DropOutput
    <3>2. \A x \in RetrievalsOf(r) : retrieval[x] = "idle"
      BY <3>1 DEF ControlInv, RetrievalsAgree, RetrievalsStand
    <3> QED BY <3>1, <3>2 DEF Begins
  <2> QED BY <2>1, <2>2
<1>3. ASSUME NEW what \in {"called", "finished", "left"}, NEW new \in Stages,
             stage' = [stage EXCEPT ![r] = new],
             \A w \in {"called", "finished", "left"} : Passed(w, r) => Passed(w, r)',
             ~ Passed(what, r), Passed(what, r)'
      PROVE  Advances
  <2>1. \A x \in Runs \ {r} : stage'[x] = stage[x]
    BY <1>1, <1>3
  <2>2. ASSUME NEW m \in Milestones, Passed(m[1], m[2]) PROVE Passed(m[1], m[2])'
    <3>1. CASE m \in {"begun", "asked", "ended"} \X AllSteps
      BY <1>1, <2>2, <3>1 DEF Passed, AdmittedStep
    <3>2. CASE m \in {"called", "finished", "left"} \X Runs
      <4>1. CASE m[2] = r
        BY <1>3, <2>2, <3>2, <4>1
      <4>2. CASE m[2] # r
        BY <2>1, <2>2, <3>2, <4>2 DEF Passed
      <4> QED BY <4>1, <4>2
    <3>3. CASE m \in {"entered", "admitted", "over"} \X AllRetrievals
      BY <1>1, <1>2, <2>2, <3>3 DEF Passed
    <3> QED BY <3>1, <3>2, <3>3 DEF Milestones
  <2> DEFINE m == <<what, r>>
  <2>3. m \in Milestones /\ m[1] = what /\ m[2] = r
    BY DEF Milestones
  <2> HIDE DEF m
  <2> QED BY <1>3, <2>2, <2>3, AdvancesIs
<1>4. ASSUME NEW new \in Stages \ {"idle"}, stage' = [stage EXCEPT ![r] = new], stage[r] = "idle"
      PROVE  Advances
  <2>1. stage'[r] = new
    BY <1>1, <1>4
  <2>2. \A w \in {"called", "finished", "left"} : Passed(w, r) => Passed(w, r)'
    BY <1>4, <2>1 DEF Passed
  <2>3. ~ Passed("called", r) /\ Passed("called", r)'
    BY <1>4, <2>1 DEF Passed
  <2> QED BY <1>3, <1>4, <2>2, <2>3
<1>5. ASSUME NEW new \in {"returned", "out"}, stage' = [stage EXCEPT ![r] = new], stage[r] = "running"
      PROVE  Advances
  <2>1. stage'[r] = new
    BY <1>1, <1>5
  <2>2. \A w \in {"called", "finished", "left"} : Passed(w, r) => Passed(w, r)'
    BY <1>5, <2>1 DEF Passed
  <2>3. ~ Passed("finished", r) /\ Passed("finished", r)'
    BY <1>5, <2>1 DEF Passed
  <2> QED BY <1>3, <1>5, <2>2, <2>3 DEF Stages
<1>6. ASSUME stage' = [stage EXCEPT ![r] = "out"], stage[r] = "returned" PROVE Advances
  <2>1. stage'[r] = "out"
    BY <1>1, <1>6
  <2>2. \A w \in {"called", "finished", "left"} : Passed(w, r) => Passed(w, r)'
    BY <1>6, <2>1 DEF Passed
  <2>3. ~ Passed("left", r) /\ Passed("left", r)'
    BY <1>6, <2>1 DEF Passed
  <2> QED BY <1>3, <1>6, <2>2, <2>3 DEF Stages
<1>7. CASE EndRun(r)
  <2>1. PICK new \in {"returned", "out"} : stage' = [stage EXCEPT ![r] = new]
    BY <1>7 DEF EndRun, MayFinish
  <2>2. stage[r] = "running"
    BY <1>7 DEF EndRun, MayFinish
  <2> QED BY <1>5, <2>1, <2>2
<1>8. CASE StartChild(r)
  <2>1. PICK new \in {"running", "out"} : stage' = [stage EXCEPT ![r] = new]
    BY <1>8 DEF StartChild, MayBeCalled, ViewsFor, Refused, Begins
  <2>2. stage[r] = "idle"
    BY <1>8 DEF StartChild, MayBeCalled, ViewsFor
  <2> QED BY <1>4, <2>1, <2>2 DEF Stages
<1>9. CASE RecordOutput(r) \/ DropOutput(r)
  BY <1>6, <1>9 DEF RecordOutput, DropOutput
<1> QED BY <1>7, <1>8, <1>9 DEF WrapperStep

\* A retrieval enters, is admitted, or is over.
LEMMA RetrievalsAdvance ==
  ASSUME ControlInv, NEW x \in AllRetrievals, RetrievalStep(x)
  PROVE  Advances
<1>1. UNCHANGED <<stage, step>> /\ retrieval \in [AllRetrievals -> RetrievalStates]
      /\ "tool" \in Classes /\ calls \in [Classes -> SUBSET CallIds]
  BY RetrievalChanges, IdentityAssumption DEF ControlInv, RetrievalsAgree, TypeOK
<1>2. calls["tool"] \subseteq calls'["tool"]
  BY <1>1 DEF RetrievalStep, BeginRetrieval, MayBeginRetrieval, AdmitRetrieval, MayAdmitRetrieval,
              EndRetrieval, MayEndRetrieval, EnterOperation, AdmitNamed, LeaveOperation
<1>3. PICK new, what :
        /\ retrieval' = [retrieval EXCEPT ![x] = new] /\ what \in {"entered", "admitted", "over"}
        /\ \/ /\ retrieval[x] = "queued" /\ new \in {"working", "raised"} /\ what = "entered"
           \/ /\ retrieval[x] = "working" /\ x \notin calls["tool"] /\ what = "admitted"
              /\ new = "refused" \/ (new = "working" /\ x \in calls'["tool"])
           \/ /\ retrieval[x] \in {"working", "refused", "ending"} /\ what = "over"
              /\ new \in {"done", "raised", "cancelled"}
  <2>1. CASE BeginRetrieval(x)
    <3>1. retrieval[x] = "queued" /\ \E new \in {"working", "raised"} :
                                      retrieval' = [retrieval EXCEPT ![x] = new]
      BY <2>1 DEF BeginRetrieval, MayBeginRetrieval
    <3> QED BY <3>1
  <2>2. CASE AdmitRetrieval(x)
    <3>1. /\ retrieval[x] = "working" /\ x \notin calls["tool"]
          /\ retrieval' = [retrieval EXCEPT ![x] = IF reply' = "ok" THEN "working" ELSE "refused"]
          /\ reply' = "ok" => x \in calls'["tool"]
      BY <1>1, <2>2 DEF AdmitRetrieval, MayAdmitRetrieval, AdmitNamed
    <3>2. \E new : /\ new = "refused" \/ (new = "working" /\ x \in calls'["tool"])
                   /\ retrieval' = [retrieval EXCEPT ![x] = new]
      BY <3>1
    <3> QED BY <3>1, <3>2
  <2>3. CASE EndRetrieval(x)
    <3>1. /\ retrieval[x] \in {"working", "refused", "ending"}
          /\ \E new \in {"done", "raised", "cancelled"} : retrieval' = [retrieval EXCEPT ![x] = new]
      BY <2>3 DEF EndRetrieval, MayEndRetrieval
    <3> QED BY <3>1
  <2> QED BY <2>1, <2>2, <2>3 DEF RetrievalStep
<1>4. retrieval'[x] = new /\ \A y \in AllRetrievals \ {x} : retrieval'[y] = retrieval[y]
  BY <1>1, <1>3
<1>5. ASSUME NEW m \in Milestones, Passed(m[1], m[2]) PROVE Passed(m[1], m[2])'
  <2>1. CASE m \in {"begun", "asked", "ended"} \X AllSteps
    BY <1>1, <1>2, <1>5, <2>1 DEF Passed, AdmittedStep
  <2>2. CASE m \in {"called", "finished", "left"} \X Runs
    BY <1>1, <1>5, <2>2 DEF Passed
  <2>3. CASE m \in {"entered", "admitted", "over"} \X AllRetrievals
    <3>1. CASE m[2] = x
      BY <1>2, <1>3, <1>4, <1>5, <2>3, <3>1 DEF Passed
    <3>2. CASE m[2] # x
      BY <1>2, <1>4, <1>5, <2>3, <3>2 DEF Passed
    <3> QED BY <3>1, <3>2
  <2> QED BY <2>1, <2>2, <2>3 DEF Milestones
<1> DEFINE m == <<what, x>>
<1>6. m \in Milestones /\ m[1] = what /\ m[2] = x
  BY <1>3 DEF Milestones
<1>7. ~ Passed(what, x) /\ Passed(what, x)'
  BY <1>3, <1>4 DEF Passed
<1> HIDE DEF m
<1> QED BY <1>5, <1>6, <1>7, AdvancesIs

\* The host takes nothing of this back; it only cancels retrievals.
LEMMA HostTakesNothingBack ==
  ASSUME ControlInv, UNCHANGED <<stage, step, calls>>,
         \A x \in AllRetrievals :
           retrieval'[x] = retrieval[x] \/ retrieval'[x] = WhenCancelled(retrieval[x])
  PROVE  ToPass' \subseteq ToPass
<1> SUFFICES ASSUME NEW m \in Milestones, Passed(m[1], m[2]) PROVE Passed(m[1], m[2])'
  BY DEF ToPass, Milestones
<1>1. CASE m \in {"entered", "admitted", "over"} \X AllRetrievals
  BY <1>1 DEF Passed, WhenCancelled
<1>2. CASE m \in ({"begun", "asked", "ended"} \X AllSteps) \cup ({"called", "finished", "left"} \X Runs)
  BY <1>2 DEF Passed, AdmittedStep
<1> QED BY <1>1, <1>2 DEF Milestones

\* No run goes on forever, and none goes round in a circle: every step of a run, of a node,
\* of a retrieval or of a wrapper passes one of finitely many milestones for good, whatever the host cancels
\* or invalidates meanwhile. With NobodyWaitsForAnother, a run whose scheduler goes on ends
\* after at most Cardinality(ToPass) of them.
THEOREM EveryStepCounts ==
  ComposedSpec =>
    /\ [](Cardinality(ToPass) \in Nat)
    /\ [][/\ ToPass' \subseteq ToPass
          /\ Progress => Cardinality(ToPass') < Cardinality(ToPass)]_compositionVars
<1>1. IsFiniteSet(ToPass) /\ Cardinality(ToPass) \in Nat
  BY MilestonesAreFinite, FS_Subset, FS_CardinalityType DEF ToPass
<1>2. ControlInv /\ Progress => Advances
  BY NodesAdvance, RetrievalsAdvance, RunsAdvance, CallerIs DEF Progress, RunStep
<1>3. Advances => Cardinality(ToPass') < Cardinality(ToPass)
  <2> SUFFICES ASSUME Advances PROVE Cardinality(ToPass') < Cardinality(ToPass)
    OBVIOUS
  <2> DEFINE S == ToPass'
             T == ToPass
  <2>1. S \subseteq T /\ S # T /\ IsFiniteSet(T)
    BY <1>1 DEF Advances
  <2> HIDE DEF S, T
  <2>2. IsFiniteSet(S) /\ Cardinality(S) <= Cardinality(T) /\ Cardinality(S) # Cardinality(T)
    BY <2>1, FS_Subset
  <2>3. Cardinality(S) \in Nat /\ Cardinality(T) \in Nat
    BY <2>1, <2>2, FS_CardinalityType
  <2>4. Cardinality(S) < Cardinality(T)
    BY <2>2, <2>3
  <2> QED BY <2>4 DEF S, T
<1>4. ControlInv /\ ~ Progress /\ ComposedNext => ToPass' \subseteq ToPass
  <2> SUFFICES ASSUME ControlInv, ~ Progress, ComposedNext PROVE ToPass' \subseteq ToPass
    OBVIOUS
  <2>1. UNCHANGED <<stage, step, calls>>
    BY DEF ComposedNext, Cancel, Invalidate, Finished, compositionVars, composed, ledger
  <2>2. \A x \in AllRetrievals :
          retrieval'[x] = retrieval[x] \/ retrieval'[x] = WhenCancelled(retrieval[x])
    BY DEF ComposedNext, Cancel, Invalidate, Finished, compositionVars, composed
  <2> QED BY <2>1, <2>2, HostTakesNothingBack
<1>5. ControlInv /\ ComposedNext =>
        /\ ToPass' \subseteq ToPass
        /\ Progress => Cardinality(ToPass') < Cardinality(ToPass)
  BY <1>2, <1>3, <1>4 DEF Advances
<1> QED BY <1>1, <1>5, ControlInvariance, PTL DEF ComposedSpec

-----------------------------------------------------------------------------
(* A run and all below it. *)

\* The runs below a run are those that go on from it.
LEMMA PrefixIs ==
  ASSUME NEW r \in Seq(Tools), NEW q \in Seq(Tools)
  PROVE  IsPrefix(r, q) <=> Len(r) <= Len(q) /\ \A i \in 1..Len(r) : r[i] = q[i]
<1> DEFINE n == Len(r)
<1>1. n \in Nat /\ Len(q) \in Nat
  BY LenProperties
<1>2. \A i \in 1..n : r[i] \in Tools
  BY ElementOfSeq
<1>3. ASSUME n <= Len(q) PROVE \A i \in 1..n : q[i] \in Tools
  <2>1. \A i \in 1..n : i \in 1..Len(q)
    BY <1>1, <1>3
  <2> QED BY <2>1, ElementOfSeq
<1>4. IsPrefix(r, q) <=> n <= Len(q) /\ SubSeq(r, 1, n) = SubSeq(q, 1, n)
  BY DEF IsPrefix
<1>5. ASSUME NEW s, s \in Seq(Tools), \A i \in 1..n : s[i] \in Tools
      PROVE  /\ SubSeq(s, 1, n) \in Seq(Tools) /\ Len(SubSeq(s, 1, n)) = n
             /\ \A i \in 1..n : SubSeq(s, 1, n)[i] = s[i]
  <2> HIDE DEF n
  <2>1. /\ SubSeq(s, 1, n) \in Seq(Tools)
        /\ Len(SubSeq(s, 1, n)) = IF 1 <= n THEN n - 1 + 1 ELSE 0
        /\ \A i \in 1..(n - 1 + 1) : SubSeq(s, 1, n)[i] = s[1 + i - 1]
    BY <1>1, <1>5, SubSeqProperties
  <2>2. n - 1 + 1 = n /\ \A i \in 1..n : 1 + i - 1 = i
    BY <1>1
  <2> QED BY <1>1, <2>1, <2>2
<1>6. ASSUME n <= Len(q)
      PROVE  SubSeq(r, 1, n) = SubSeq(q, 1, n) <=> \A i \in 1..n : r[i] = q[i]
  <2> DEFINE a == SubSeq(r, 1, n)
             b == SubSeq(q, 1, n)
  <2>1. /\ a \in Seq(Tools) /\ Len(a) = n /\ \A i \in 1..n : a[i] = r[i]
        /\ b \in Seq(Tools) /\ Len(b) = n /\ \A i \in 1..n : b[i] = q[i]
    BY <1>2, <1>3, <1>5, <1>6
  <2> HIDE DEF a, b, n
  <2>2. a = b <=> \A i \in 1..n : a[i] = b[i]
    BY <2>1, SeqEqual
  <2>3. a = b <=> \A i \in 1..n : r[i] = q[i]
    BY <2>1, <2>2
  <2> QED BY <2>3 DEF a, b
<1> QED BY <1>4, <1>6

\* A run is below itself; what is below a run that is below another is below that one
\* too; and the caller of a run below another is below it, or calls it.
LEMMA BelowIs ==
  /\ \A r \in Runs : r \in Below(r) /\ Below(r) \subseteq Runs
  /\ \A r \in Runs, q \in Runs, p \in Runs : q \in Below(r) /\ p \in Below(q) => p \in Below(r)
  /\ \A r \in Runs, q \in Runs :
       q \in Below(r) /\ q # r => q \in Children /\ Caller(q) \in Below(r)
<1>1. \A r \in Runs : r \in Seq(Tools) /\ Len(r) \in Nat
  BY RunIs, BoundsAssumption
<1>2. \A r \in Runs, q \in Runs :
        q \in Below(r) <=> Len(r) <= Len(q) /\ \A i \in 1..Len(r) : r[i] = q[i]
  BY <1>1, PrefixIs DEF Below
<1>3. \A r \in Runs : r \in Below(r) /\ Below(r) \subseteq Runs
  BY <1>1, <1>2 DEF Below
<1>4. ASSUME NEW r \in Runs, NEW q \in Runs, NEW p \in Runs, q \in Below(r), p \in Below(q)
      PROVE  p \in Below(r)
  <2>1. /\ Len(r) <= Len(q) /\ Len(q) <= Len(p)
        /\ \A i \in 1..Len(r) : r[i] = q[i]
        /\ \A i \in 1..Len(q) : q[i] = p[i]
    BY <1>2, <1>4
  <2>2. Len(r) <= Len(p) /\ \A i \in 1..Len(r) : i \in 1..Len(q)
    BY <1>1, <2>1
  <2> QED BY <1>2, <2>1, <2>2
<1>5. ASSUME NEW r \in Runs, NEW q \in Runs, q \in Below(r), q # r
      PROVE  q \in Children /\ Caller(q) \in Below(r)
  <2>1. Len(r) <= Len(q) /\ \A i \in 1..Len(r) : r[i] = q[i]
    BY <1>2, <1>5
  <2>2. Len(r) # Len(q)
    <3>1. ASSUME Len(r) = Len(q) PROVE r = q
      BY <1>1, <2>1, <3>1, SeqEqual
    <3> QED BY <1>5, <3>1
  <2>3. q \in Children
    BY <1>1, <2>1, <2>2, RunIs
  <2>4. Caller(q) \in Runs /\ Len(Caller(q)) = Len(q) - 1 /\ Len(q) \in Nat \ {0}
    BY <2>3, CallerIs
  <2>5. \A i \in 1..(Len(q) - 1) : Caller(q)[i] = q[i]
    <3> DEFINE n == Len(q) - 1
    <3>1. Caller(q) = SubSeq(q, 1, n)
      BY DEF Caller, Front
    <3>2. n \in Nat /\ \A i \in 1..n : q[i] \in Tools
      <4>1. n \in Nat /\ \A i \in 1..n : i \in 1..Len(q)
        BY <2>4
      <4> HIDE DEF n
      <4> QED BY <1>1, <4>1, ElementOfSeq
    <3> HIDE DEF n
    <3>3. \A i \in 1..(n - 1 + 1) : SubSeq(q, 1, n)[i] = q[1 + i - 1]
      BY <3>2, SubSeqProperties
    <3>4. n - 1 + 1 = n /\ \A i \in 1..n : 1 + i - 1 = i
      BY <3>2
    <3> QED BY <3>1, <3>3, <3>4 DEF n
  <2>6. Len(r) <= Len(Caller(q)) /\ \A i \in 1..Len(r) : i \in 1..(Len(q) - 1)
    BY <1>1, <2>1, <2>2, <2>4
  <2> QED BY <1>2, <2>1, <2>3, <2>4, <2>5, <2>6
<1> QED BY <1>3, <1>4, <1>5

\* A run that is not running has nothing running below it.
LEMMA NothingRunsBelow ==
  ASSUME ControlInv, NEW r \in Runs, stage[r] # "running", NEW q \in Below(r)
  PROVE  stage[q] # "running" /\ (q # r => stage[q] \in {"idle", "out"})
<1> DEFINE T == {n \in Nat : \A p \in Below(r) : Len(p) = n =>
                    stage[p] # "running" /\ (p # r => stage[p] \in {"idle", "out"})}
<1>1. ASSUME NEW p \in Below(r), p # r, stage[Caller(p)] # "running"
      PROVE  stage[p] \in {"idle", "out"}
  <2>1. p \in Children /\ Caller(p) \in Runs
    BY <1>1, BelowIs, CallerIs
  <2>2. Quiet(Caller(p)) /\ p \in Calls(Caller(p))
    BY <1>1, <2>1 DEF ControlInv, StagesAgree, Calls
  <2> QED BY <2>2 DEF Quiet
<1>2. 0 \in T
  <2>1. ASSUME NEW p \in Below(r), Len(p) = 0 PROVE p = r
    BY <2>1, BelowIs, CallerIs
  <2> QED BY <2>1
<1>3. ASSUME NEW n \in T PROVE n + 1 \in T
  <2>1. ASSUME NEW p \in Below(r), Len(p) = n + 1, p # r
        PROVE  stage[p] \in {"idle", "out"}
    <3>1. Caller(p) \in Below(r) /\ Len(Caller(p)) = n
      BY <2>1, BelowIs, CallerIs
    <3>2. stage[Caller(p)] # "running"
      BY <3>1
    <3> QED BY <1>1, <2>1, <3>2
  <2> QED BY <2>1
<1>4. T \subseteq Nat
  OBVIOUS
<1>5. T = Nat
  <2> HIDE DEF T
  <2> QED BY <1>2, <1>3, <1>4, AllNumbers
<1>6. Len(q) \in Nat
  BY BelowIs, RunIs, BoundsAssumption
<1> QED BY <1>5, <1>6

\* A cancelled run has begun, and all that goes on below it is cancelled too.
CancellationAgrees ==
  \A r \in cancelling :
    /\ r \in Runs /\ stage[r] # "idle"
    /\ \A q \in Below(r) : stage[q] = "running" => q \in cancelling

LEMMA StepKeepsCancellation ==
  ASSUME ControlInv, CancellationAgrees, [ComposedNext]_compositionVars
  PROVE  CancellationAgrees'
<1>1. ASSUME NEW r \in Runs, Cancel(r) PROVE CancellationAgrees'
  <2>1. /\ cancelling' = cancelling \cup {q \in Below(r) : stage[q] = "running"}
        /\ stage' = stage
    BY <1>1 DEF Cancel
  <2>2. ASSUME NEW p \in cancelling'
        PROVE  /\ p \in Runs /\ stage'[p] # "idle"
               /\ \A q \in Below(p) : stage'[q] = "running" => q \in cancelling'
    <3>1. CASE p \in cancelling
      BY <2>1, <3>1 DEF CancellationAgrees
    <3>2. CASE p \in Below(r) /\ stage[p] = "running"
      BY <2>1, <3>2, BelowIs
    <3> QED BY <2>1, <2>2, <3>1, <3>2
  <2> QED BY <2>2 DEF CancellationAgrees, Below
<1>2. ASSUME cancelling' = cancelling, NEW r, NEW new \in Stages \ {"idle"}, r \in Runs,
             stage' = [stage EXCEPT ![r] = new],
             new = "running" => r \in Children /\ stage[r] = "idle" /\ Caller(r) \notin cancelling
                                /\ stage[Caller(r)] = "running"
      PROVE  CancellationAgrees'
  <2>1. stage'[r] = new /\ \A q \in Runs \ {r} : stage'[q] = stage[q]
    BY <1>2 DEF ControlInv, ComposedTypeOK
  <2>2. ASSUME NEW p \in cancelling
        PROVE  /\ p \in Runs /\ stage'[p] # "idle"
               /\ \A q \in Below(p) : stage'[q] = "running" => q \in cancelling
    <3>1. p \in Runs /\ stage[p] # "idle" /\ stage'[p] # "idle"
      BY <2>1, <2>2 DEF CancellationAgrees
    <3>2. ASSUME NEW q \in Below(p), stage'[q] = "running" PROVE q \in cancelling
      <4>1. q \in Runs
        BY <3>1, BelowIs
      <4>2. CASE q # r
        BY <2>1, <3>1, <3>2, <4>1, <4>2 DEF CancellationAgrees
      <4>3. CASE q = r
        <5>1. /\ r \in Children /\ stage[r] = "idle" /\ Caller(r) \notin cancelling
              /\ stage[Caller(r)] = "running"
          BY <1>2, <2>1, <3>2, <4>3
        <5>2. q # p
          BY <3>1, <4>3, <5>1
        <5>3. Caller(r) \in Below(p)
          BY <3>1, <4>1, <4>3, <5>2, BelowIs
        <5> QED BY <3>1, <5>1, <5>3 DEF CancellationAgrees
      <4> QED BY <4>2, <4>3
    <3> QED BY <3>1, <3>2
  <2> QED BY <1>2, <2>2 DEF CancellationAgrees, Below
<1>3. ASSUME UNCHANGED <<cancelling, stage>> PROVE CancellationAgrees'
  BY <1>3 DEF CancellationAgrees, Below
<1>4. ASSUME NEW r \in Runs, NEW n \in Steps[DefinitionOf(r)],
             BeginStep(r, n) \/ AdmitStep(r, n) \/ EndStep(r, n) \/ CancelStep(r, n)
      PROVE  UNCHANGED <<cancelling, stage>>
  BY <1>4 DEF BeginStep, MayBegin, AdmitStep, MayBeAdmitted, EndStep, MayEnd, CancelStep,
              MayBeCancelled
<1>5. ASSUME NEW r \in Runs, EndRun(r) PROVE CancellationAgrees'
  <2>1. PICK new \in {"returned", "out"} : stage' = [stage EXCEPT ![r] = new]
    BY <1>5 DEF EndRun, MayFinish
  <2>2. cancelling' = cancelling
    BY <1>5 DEF EndRun, MayFinish
  <2> QED BY <1>2, <2>1, <2>2 DEF Stages
<1>6. ASSUME NEW r \in Children, WrapperStep(r) PROVE CancellationAgrees'
  <2>1. r \in Runs /\ cancelling' = cancelling
    BY <1>6, CallerIs DEF WrapperStep, StartChild, MayBeCalled, ViewsFor, RecordOutput, DropOutput
  <2>2. CASE StartChild(r)
    <3>1. PICK new \in {"running", "out"} : stage' = [stage EXCEPT ![r] = new]
      BY <2>2 DEF StartChild, MayBeCalled, ViewsFor, Refused, Begins
    <3>2. stage[r] = "idle" /\ stage[Caller(r)] = "running" /\ Caller(r) \notin cancelling
      BY <2>2 DEF StartChild, MayBeCalled, ViewsFor, Works
    <3> QED BY <1>2, <2>1, <3>1, <3>2 DEF Stages
  <2>3. CASE RecordOutput(r) \/ DropOutput(r)
    <3>1. stage' = [stage EXCEPT ![r] = "out"]
      BY <2>3 DEF RecordOutput, DropOutput
    <3> QED BY <1>2, <2>1, <3>1 DEF Stages
  <2> QED BY <1>6, <2>2, <2>3 DEF WrapperStep
<1>7. ASSUME \/ \E x \in AllRetrievals : RetrievalStep(x)
             \/ \E id \in OwnNames : Invalidate(id)
             \/ UNCHANGED compositionVars
      PROVE  UNCHANGED <<cancelling, stage>>
  BY <1>7, RetrievalChanges DEF Invalidate, compositionVars, composed
<1> QED BY <1>1, <1>3, <1>4, <1>5, <1>6, <1>7 DEF ComposedNext, Finished, Progress, RunStep

\* Nothing of a run is left in a call or on its way to one, but what a gather that raised
\* does not wait for: the retrievals beside one that raised, and those that were cancelled
\* with it and have still to give back their slot.
OnlyRetrievalsLeft(q) ==
  /\ StepsOf(q) \cap active = {}
  /\ SomeRetrieval(q, OnItsWay) => SomeRetrieval(q, {"raised"})
  /\ SomeRetrieval(q, {"ending"}) => SomeRetrieval(q, {"cancelled"})

\* Below a run that is not running, or no longer, no run runs or waits to be recorded, and
\* no node holds a slot, to any depth: only retrievals that a failed gather does not await
\* may go on.  And while a run is cancelled, whatever still runs below it is cancelled too.
RunsAreContained ==
  \A r \in Runs :
    /\ stage[r] # "running" =>
         /\ \A q \in Below(r) \ {r} : stage[q] \in {"idle", "out"}
         /\ \A q \in Below(r) : OnlyRetrievalsLeft(q)
    /\ r \in cancelling => \A q \in Below(r) : stage[q] = "running" => q \in cancelling

\* No run, wrapper or node is left behind: when a run ends, completed, cancelled or failed,
\* so have all that it called (run gathers the whole wave before it ends, and _run_child is
\* awaited in it).  A retrieval may outlive its run, or hold a slot after it, only when a
\* sibling raised or both were cancelled (their gather has no return_exceptions).
THEOREM NothingOutlivesItsRun == ComposedSpec => []RunsAreContained
<1>1. ComposedInit => CancellationAgrees
  BY DEF ComposedInit, CancellationAgrees
<1>2. ControlInv /\ CancellationAgrees /\ [ComposedNext]_compositionVars => CancellationAgrees'
  BY StepKeepsCancellation
<1>3. ControlInv /\ CancellationAgrees => RunsAreContained
  <2> SUFFICES ASSUME ControlInv, CancellationAgrees, NEW r \in Runs
               PROVE  /\ stage[r] # "running" =>
                           /\ \A q \in Below(r) \ {r} : stage[q] \in {"idle", "out"}
                           /\ \A q \in Below(r) : OnlyRetrievalsLeft(q)
                      /\ r \in cancelling => \A q \in Below(r) : stage[q] = "running" => q \in cancelling
    BY DEF RunsAreContained
  <2>1. ASSUME stage[r] # "running", NEW q \in Below(r)
        PROVE  OnlyRetrievalsLeft(q)
    <3>1. q \in Runs /\ stage[q] # "running" /\ Quiet(q) /\ RetrievalsStand(q)
      BY <2>1, BelowIs, NothingRunsBelow DEF ControlInv, StagesAgree, RetrievalsAgree
    <3>2. StepsOf(q) \subseteq AllSteps
      BY <3>1 DEF AllSteps
    <3>3. StepsOf(q) \cap active = {}
      BY <3>1, <3>2, RetrievalsAre DEF Quiet, ControlInv, SlotsAgree, InCall
    <3> QED BY <3>1, <3>3 DEF OnlyRetrievalsLeft, RetrievalsStand
  <2> QED BY <2>1, NothingRunsBelow DEF CancellationAgrees
<1> QED BY <1>1, <1>2, <1>3, ControlInvariance, PTL DEF ComposedSpec

\* In this step no call of q begins: not q itself, not a node of it, and no admission.
NothingBegins(q) ==
  /\ stage[q] = "idle" => stage'[q] = "idle"
  /\ \A n \in Steps[DefinitionOf(q)] :
       /\ step[<<q, n>>] = "idle" => step'[<<q, n>>] = "idle"
       /\ AdmittedStep(q, n)' => AdmittedStep(q, n)

\* Nor does a retrieval of q, unless one of them raised, so that their gather was over
\* before it could be cancelled.
NoRetrievalBegins(q) ==
  SomeRetrieval(q, {"raised"}) \/
    \A x \in RetrievalsOf(q) :
      /\ retrieval[x] \in {"idle", "queued"} => retrieval'[x] \in {"idle", "queued", "cancelled"}
      /\ x \in calls'["tool"] => x \in calls["tool"]

\* Once a run is cancelled, no run or node at any depth below it begins, and the ledger
\* grants none of them anything more; nor a retrieval, but one whose sibling had raised.
CancelledRunsBeginNothing ==
  [][\A r \in cancelling : \A q \in Below(r) :
       NothingBegins(q) /\ NoRetrievalBegins(q)]_compositionVars

\* A cancellation reaches all below, whatever they were doing when it came: what had begun
\* is cancelled with the run (Task.cancel goes on to the awaited child, and to the gathers it
\* awaits), and what had not is behind a caller that no longer works.  What it does not reach
\* are the retrievals that a gather left behind when one of them raised.
THEOREM CancellationStopsAllBelow == ComposedSpec => CancelledRunsBeginNothing
<1>1. ComposedInit => CancellationAgrees
  BY DEF ComposedInit, CancellationAgrees
<1>2. ControlInv /\ CancellationAgrees /\ [ComposedNext]_compositionVars => CancellationAgrees'
  BY StepKeepsCancellation
<1>3. ControlInv /\ CancellationAgrees /\ ComposedNext =>
        \A r \in cancelling : \A q \in Below(r) : NothingBegins(q)
  <2> SUFFICES ASSUME ControlInv, CancellationAgrees, ComposedNext,
                      NEW r \in cancelling, NEW q \in Below(r)
               PROVE  NothingBegins(q)
    OBVIOUS
  <2>1. r \in Runs /\ q \in Runs /\ stage[r] # "idle" /\ ~ Works(q)
    BY BelowIs DEF CancellationAgrees, Works
  <2>2. ASSUME NEW p \in Runs, NEW m \in Steps[DefinitionOf(p)],
               BeginStep(p, m) \/ AdmitStep(p, m) \/ EndStep(p, m) \/ CancelStep(p, m)
        PROVE  NothingBegins(q)
    <3>1. stage' = stage
      BY <2>2 DEF BeginStep, MayBegin, AdmitStep, MayBeAdmitted, EndStep, MayEnd, CancelStep,
                  MayBeCancelled
    <3>2. CASE BeginStep(p, m) \/ AdmitStep(p, m)
      <4>1. p # q
        BY <2>1, <3>2 DEF BeginStep, MayBegin, AdmitStep, MayBeAdmitted
      <4>2. \A n \in Steps[DefinitionOf(q)] : <<q, n>> \in AllSteps /\ <<q, n>> # <<p, m>>
        BY <2>1, <4>1 DEF AllSteps, StepsOf
      <4>3. \A n \in Steps[DefinitionOf(q)] :
              step'[<<q, n>>] = step[<<q, n>>] /\ (AdmittedStep(q, n)' => AdmittedStep(q, n))
        <5>1. \E new : step' = [step EXCEPT ![<<p, m>>] = new]
          BY <3>2 DEF BeginStep, MayBegin, AdmitStep, MayBeAdmitted
        <5>2. \A x \in calls'["tool"] : x \in calls["tool"] \/ x = <<p, m>>
          <6>1. <<p, m>> \in AllSteps
            BY <2>2 DEF AllSteps, StepsOf
          <6>2. "tool" \in Classes /\ calls \in [Classes -> SUBSET CallIds]
            BY <6>1, IdentityAssumption DEF ControlInv, TypeOK
          <6> QED BY <3>2, <6>2 DEF BeginStep, MayBegin, AdmitStep, MayBeAdmitted,
                                    EnterOperation, AdmitNamed
        <5> QED BY <4>2, <5>1, <5>2 DEF ControlInv, ComposedTypeOK, AdmittedStep
      <4> QED BY <3>1, <4>3 DEF NothingBegins
    <3>3. CASE EndStep(p, m) \/ CancelStep(p, m)
      <4>1. step[<<p, m>>] # "idle" /\ calls' = calls
        BY <3>3 DEF EndStep, MayEnd, CancelStep, MayBeCancelled, LeaveOperation
      <4>2. \E new : step' = [step EXCEPT ![<<p, m>>] = new]
        BY <3>3 DEF EndStep, MayEnd, CancelStep, MayBeCancelled
      <4>3. \A n \in Steps[DefinitionOf(q)] : step[<<q, n>>] = "idle" => step'[<<q, n>>] = "idle"
        <5> SUFFICES ASSUME NEW n \in Steps[DefinitionOf(q)], step[<<q, n>>] = "idle"
                     PROVE  step'[<<q, n>>] = "idle"
          OBVIOUS
        <5>1. <<q, n>> \in AllSteps /\ <<q, n>> # <<p, m>>
          BY <2>1, <4>1 DEF AllSteps, StepsOf
        <5> QED BY <4>2, <5>1 DEF ControlInv, ComposedTypeOK
      <4> QED BY <3>1, <4>1, <4>3 DEF NothingBegins, AdmittedStep
    <3> QED BY <2>2, <3>2, <3>3
  <2>3. ASSUME UNCHANGED <<step, calls>>, NEW p \in Runs, NEW new,
               stage' = [stage EXCEPT ![p] = new], p # q \/ stage[q] # "idle"
        PROVE  NothingBegins(q)
    <3>1. stage \in [Runs -> Stages]
      BY DEF ControlInv, ComposedTypeOK
    <3>2. stage[q] = "idle" => stage'[q] = "idle"
      BY <2>1, <2>3, <3>1
    <3>3. \A n \in Steps[DefinitionOf(q)] :
            /\ step[<<q, n>>] = "idle" => step'[<<q, n>>] = "idle"
            /\ AdmittedStep(q, n)' => AdmittedStep(q, n)
      BY <2>3 DEF AdmittedStep
    <3> QED BY <3>2, <3>3 DEF NothingBegins
  <2>4. ASSUME NEW p \in Runs, EndRun(p) PROVE NothingBegins(q)
    <3>1. UNCHANGED <<step, calls>> /\ stage[p] # "idle"
      BY <2>4 DEF EndRun, MayFinish, ledger
    <3>2. \E new : stage' = [stage EXCEPT ![p] = new]
      BY <2>4 DEF EndRun, MayFinish
    <3> QED BY <2>3, <3>1, <3>2
  <2>5. ASSUME NEW p \in Children, WrapperStep(p) PROVE NothingBegins(q)
    <3>1. UNCHANGED <<step, calls>> /\ p \in Runs
      BY <2>5, CallerIs DEF WrapperStep, StartChild, MayBeCalled, ViewsFor, RecordOutput,
                            DropOutput, AdmitChildRun, ledger
    <3>2. \E new : stage' = [stage EXCEPT ![p] = new]
      BY <2>5 DEF WrapperStep, StartChild, MayBeCalled, ViewsFor, RecordOutput, DropOutput,
                  Refused, Begins
    <3>3. ASSUME p = q, stage[q] = "idle" PROVE FALSE
      <4>1. Works(Caller(q))
        BY <2>5, <3>3 DEF WrapperStep, StartChild, MayBeCalled, ViewsFor, RecordOutput, DropOutput
      <4>2. Caller(q) \in Below(r)
        BY <2>1, <3>3, BelowIs
      <4> QED BY <4>1, <4>2 DEF CancellationAgrees, Works
    <3> QED BY <2>3, <3>1, <3>2, <3>3
  <2>6. ASSUME (\E p \in Runs : Cancel(p)) \/ (\E id \in OwnNames : Invalidate(id)) \/ Finished
        PROVE  NothingBegins(q)
    <3>1. UNCHANGED <<step, calls, stage>>
      BY <2>6 DEF Cancel, Invalidate, Finished, compositionVars, composed, ledger
    <3> QED BY <3>1 DEF NothingBegins, AdmittedStep
  <2>7. ASSUME NEW x \in AllRetrievals, RetrievalStep(x) PROVE NothingBegins(q)
    <3>1. UNCHANGED <<step, stage>>
      BY <2>7, RetrievalChanges
    <3>2. "tool" \in Classes /\ calls \in [Classes -> SUBSET CallIds]
      BY IdentityAssumption DEF ControlInv, TypeOK
    <3>3. \A y \in calls'["tool"] : y \in calls["tool"] \/ y = x
      BY <2>7, <3>2 DEF RetrievalStep, BeginRetrieval, MayBeginRetrieval, AdmitRetrieval,
              MayAdmitRetrieval, EndRetrieval, MayEndRetrieval, EnterOperation, AdmitNamed,
              LeaveOperation
    <3>4. \A n \in Steps[DefinitionOf(q)] : <<q, n>> # x
      BY <2>1, RetrievalsAre DEF AllSteps, StepsOf
    <3> QED BY <3>1, <3>3, <3>4 DEF NothingBegins, AdmittedStep
  <2> QED BY <2>2, <2>4, <2>5, <2>6, <2>7 DEF ComposedNext, Progress, RunStep
<1>4. ControlInv /\ CancellationAgrees /\ ComposedNext =>
        \A r \in cancelling : \A q \in Below(r) : NoRetrievalBegins(q)
  <2> SUFFICES ASSUME ControlInv, CancellationAgrees, ComposedNext,
                      NEW r \in cancelling, NEW q \in Below(r), ~ SomeRetrieval(q, {"raised"}),
                      NEW x \in RetrievalsOf(q)
               PROVE  /\ retrieval[x] \in {"idle", "queued"} =>
                           retrieval'[x] \in {"idle", "queued", "cancelled"}
                      /\ x \in calls'["tool"] => x \in calls["tool"]
    BY DEF NoRetrievalBegins
  <2>1. /\ r \in Runs /\ q \in Runs /\ x \in AllRetrievals /\ x \notin AllSteps
        /\ stage[q] = "running" => q \in cancelling
    BY BelowIs, RetrievalsAre DEF CancellationAgrees
  <2>2. retrieval[x] \notin OnItsWay
    BY <2>1 DEF ControlInv, RetrievalsAgree, RetrievalsStand, SomeRetrieval
  <2>3. "tool" \in Classes /\ calls \in [Classes -> SUBSET CallIds]
        /\ retrieval \in [AllRetrievals -> RetrievalStates]
    BY <2>1, IdentityAssumption DEF ControlInv, TypeOK, RetrievalsAgree
  <2>4. ASSUME NEW p \in Runs, NEW m \in Steps[DefinitionOf(p)],
               BeginStep(p, m) \/ AdmitStep(p, m) \/ EndStep(p, m) \/ CancelStep(p, m)
        PROVE  retrieval' = retrieval /\ (x \in calls'["tool"] => x \in calls["tool"])
    <3>1. <<p, m>> \in AllSteps
      BY <2>4 DEF AllSteps, StepsOf
    <3> QED BY <2>1, <2>3, <2>4, <3>1 DEF BeginStep, MayBegin, AdmitStep, MayBeAdmitted, EndStep,
               MayEnd, CancelStep, MayBeCancelled, EnterOperation, AdmitNamed, LeaveOperation
  <2>5. ASSUME NEW p \in Runs, EndRun(p) PROVE UNCHANGED <<retrieval, calls>>
    BY <2>5 DEF EndRun, MayFinish, ledger
  <2>6. ASSUME NEW p \in Children, WrapperStep(p)
        PROVE  retrieval'[x] \in {retrieval[x], "queued"} /\ calls' = calls
    BY <2>1, <2>6 DEF WrapperStep, StartChild, MayBeCalled, ViewsFor, Refused, Begins,
       RecordOutput, DropOutput, AdmitChildRun, ledger
  <2>7. ASSUME NEW p \in Runs, Cancel(p)
        PROVE  retrieval'[x] \in {retrieval[x], WhenCancelled(retrieval[x])} /\ calls' = calls
    BY <2>1, <2>7 DEF Cancel, ledger
  <2>8. ASSUME (\E id \in OwnNames : Invalidate(id)) \/ Finished
        PROVE  UNCHANGED <<retrieval, calls>>
    BY <2>8 DEF Invalidate, Finished, compositionVars, composed, ledger
  <2>9. ASSUME NEW y \in AllRetrievals, RetrievalStep(y)
        PROVE  /\ retrieval[x] \in {"idle", "queued"} => retrieval'[x] = retrieval[x]
               /\ x \in calls'["tool"] => x \in calls["tool"]
    <3>1. CASE y = x
      BY <2>1, <2>2, <2>3, <2>9, <3>1 DEF RetrievalStep, BeginRetrieval, MayBeginRetrieval,
         AdmitRetrieval, MayAdmitRetrieval, EndRetrieval, MayEndRetrieval, LeaveOperation, OnItsWay
    <3>2. CASE y # x
      <4>1. retrieval'[x] = retrieval[x]
        BY <2>1, <2>3, <2>9, <3>2, RetrievalChanges
      <4>2. x \in calls'["tool"] => x \in calls["tool"]
        BY <2>3, <2>9, <3>2 DEF RetrievalStep, BeginRetrieval, MayBeginRetrieval, AdmitRetrieval,
           MayAdmitRetrieval, EndRetrieval, MayEndRetrieval, EnterOperation, AdmitNamed,
           LeaveOperation
      <4> QED BY <4>1, <4>2
    <3> QED BY <3>1, <3>2
  <2> QED BY <2>4, <2>5, <2>6, <2>7, <2>8, <2>9
          DEF ComposedNext, Progress, RunStep, WhenCancelled
<1>5. ControlInv /\ CancellationAgrees /\ ComposedNext =>
        \A r \in cancelling : \A q \in Below(r) : NothingBegins(q) /\ NoRetrievalBegins(q)
  BY <1>3, <1>4
<1> QED BY <1>1, <1>2, <1>5, ControlInvariance, PTL DEF ComposedSpec, CancelledRunsBeginNothing

-----------------------------------------------------------------------------
(* The stores of the runs only grow. *)

\* In this step every store keeps its records as they are, and what is stale in it.
StoresGrow == \A q \in Runs : Grows(store[q], store'[q])

\* One store grows, or none.
LEMMA OneStoreGrows ==
  ASSUME ComposedTypeOK, NEW r \in Runs, NEW t, Grows(store[r], t),
         store' = [store EXCEPT ![r] = t] \/ store' = store
  PROVE  StoresGrow
<1>1. \A q \in Runs : Grows(store[q], store[q])
  BY DEF Grows
<1>2. \A q \in Runs : store'[q] = store[q] \/ (q = r /\ store'[q] = t)
  BY DEF ComposedTypeOK
<1> QED BY <1>1, <1>2 DEF StoresGrow

\* A record that is added to a store that is well kept.
LEMMA AdditionGrows ==
  ASSUME ComposedInv, NEW r \in Runs, NEW n \in Names, NEW record \in Content,
         MayAdd(store[r], Own(n), record)
  PROVE  Grows(store[r], Added(store[r], Own(n), record))
<1>1. WellKept(store[r])
  BY DEF ComposedInv, ContentsKept, StoresKept
<1>2. Own(n) \in Ids \ Known(store[r]) /\ Links(record) \subseteq Known(store[r])
  <2>1. Own(n) \in Ids
    <3> DEFINE X == Names \cup Children
    <3>1. n \in X
      OBVIOUS
    <3> HIDE DEF X
    <3>2. <<n>> \in Seq(X)
      BY <3>1
    <3> QED BY <3>2 DEF Own, Ids, X
  <2>2. Store(store[r])!References(record) \subseteq Known(store[r])
    BY DEF MayAdd, Store!ReferencesValid, Store!Known, Known
  <2> QED BY <2>1, <2>2, StoreIs DEF MayAdd
<1> QED BY <1>1, <1>2, AddedIs

LEMMA StepGrowsStores ==
  ASSUME NamesDistinct, ComposedInv, [ComposedNext]_compositionVars
  PROVE  StoresGrow
<1> USE DEF ComposedInv
<1>1. Root \in Runs /\ \A q \in Children : q \in Runs /\ Caller(q) \in Runs
  BY CallerIs DEF Runs
<1>2. ASSUME store' = store PROVE StoresGrow
  BY <1>2 DEF StoresGrow, Grows
<1>3. ASSUME NEW r \in Runs, NEW n \in Steps[DefinitionOf(r)],
             BeginStep(r, n) \/ AdmitStep(r, n) \/ EndStep(r, n) \/ CancelStep(r, n)
      PROVE  StoresGrow
  <2>1. \/ store' = store
        \/ \E record \in FoundRecords(store[r]) :
             /\ MayAdd(store[r], Own(n), record)
             /\ store' = [store EXCEPT ![r] = Added(@, Own(n), record)]
    BY <1>3 DEF BeginStep, MayBegin, AdmitStep, MayBeAdmitted, EndStep, MayEnd, CancelStep,
                MayBeCancelled
  <2>2. ASSUME NEW record \in FoundRecords(store[r]), MayAdd(store[r], Own(n), record),
               store' = [store EXCEPT ![r] = Added(@, Own(n), record)]
        PROVE  StoresGrow
    <3>1. record \in Content /\ n \in Names
      <4>1. n \in FoundNames(r)
        BY DEF FoundNames, NamesOf
      <4> QED BY <4>1, FoundNamesAre, FoundRecordsAre DEF ContentsKept, StoresKept
    <3> DEFINE t == Added(store[r], Own(n), record)
    <3>2. Grows(store[r], t)
      BY <2>2, <3>1, AdditionGrows
    <3>3. store' = [store EXCEPT ![r] = t]
      BY <2>2
    <3> HIDE DEF t
    <3> QED BY <3>2, <3>3, OneStoreGrows
  <2> QED BY <1>2, <2>1, <2>2
<1>4. ASSUME NEW r \in Runs, EndRun(r) PROVE StoresGrow
  <2>1. CASE r = Root
    BY <1>2, <1>4, <2>1 DEF EndRun, MayFinish
  <2>2. CASE r # Root
    <3> DEFINE t == WithImports(r, store[r], store[Caller(r)])
    <3>1. r \in Children /\ stage[r] = "running"
      BY <1>4, <2>2 DEF EndRun, MayFinish, Children
    <3>2. Grows(store[Caller(r)], t)
      BY <3>1, ImportsAre
    <3>3. PICK how : Absorbs(r, how)
      BY <1>4, <2>2 DEF EndRun, MayFinish
    <3>4. store' = [store EXCEPT ![Caller(r)] = t] \/ store' = store
      BY <3>3 DEF Absorbs
    <3> HIDE DEF t
    <3> QED BY <1>1, <3>1, <3>2, <3>4, OneStoreGrows
  <2> QED BY <2>1, <2>2
<1>5. ASSUME NEW r \in Children, StartChild(r) PROVE StoresGrow
  <2>1. CASE Refused(r)
    BY <1>2, <2>1 DEF Refused
  <2>2. ASSUME NEW view, Begins(r, view) PROVE StoresGrow
    <3> DEFINE t == Projected(store[Caller(r)], view)
    <3>1. stage[r] = "idle"
      BY <1>5 DEF StartChild, MayBeCalled, ViewsFor
    <3>2. store[r] = EmptyStore
      BY <3>1 DEF ContentsKept, ImportsAgree
    <3>3. store' = [store EXCEPT ![r] = t]
      BY <2>2 DEF Begins
    <3> HIDE DEF t
    <3>4. Grows(store[r], t)
      BY <3>2, EmptyGrows
    <3> QED BY <1>1, <3>3, <3>4, OneStoreGrows
  <2>3. Refused(r) \/ \E view : Begins(r, view)
    BY <1>5 DEF StartChild, MayBeCalled, ViewsFor
  <2> QED BY <2>1, <2>2, <2>3
<1>6. ASSUME NEW r \in Children, RecordOutput(r) \/ DropOutput(r) PROVE StoresGrow
  <2> DEFINE c == Caller(r)
             n == Output[Last(r)]
             t == Added(store[c], Own(n), OutputRecord(r))
  <2>1. CASE store' = store
    BY <1>2, <2>1
  <2>2. CASE store' # store
    <3>1. /\ MayAdd(store[c], Own(n), OutputRecord(r))
          /\ store' = [store EXCEPT ![c] = t]
      BY <1>6, <2>2 DEF RecordOutput, DropOutput
    <3>2. OutputRecord(r) \in Content
      BY <1>1, <3>1, OutputRecordIs DEF ContentsKept, StoresKept
    <3>3. n \in Names /\ c \in Runs
      BY CallerIs, DefinitionsAssumption
    <3>4. Grows(store[c], t)
      BY <3>1, <3>2, <3>3, AdditionGrows
    <3> HIDE DEF t
    <3> QED BY <3>1, <3>3, <3>4, OneStoreGrows
  <2> QED BY <2>1, <2>2
<1>7. ASSUME NEW id, Invalidate(id) PROVE StoresGrow
  <2> DEFINE s == store[Root]
             X == Store(s)!StaleWith(s.records, IndexOf(s.records), {id})
             t == [records |-> s.records, stale |-> X]
  <2>1. s = [records |-> s.records, stale |-> s.stale]
    <3>1. WellKept(s)
      BY <1>1 DEF ContentsKept, StoresKept
    <3> QED BY <3>1, WellKeptIs
  <2>2. s.stale \subseteq X
    <3>1. \E Y : X = s.stale \cup Y
      BY DEF Store!StaleWith
    <3> HIDE DEF X
    <3> QED BY <3>1
  <2>3. store' = [store EXCEPT ![Root].stale = X]
    BY <1>7 DEF Invalidate
  <2> HIDE DEF X
  <2>4. store'[Root] = t /\ \A q \in Runs \ {Root} : store'[q] = store[q]
    BY <1>1, <2>1, <2>3 DEF ComposedTypeOK
  <2>5. Grows(s, t)
    BY <2>2 DEF Grows, Known
  <2>6. \A q \in Runs : Grows(store[q], store[q])
    BY DEF Grows
  <2> HIDE DEF t
  <2> QED BY <2>4, <2>5, <2>6 DEF StoresGrow
<1>8. ASSUME \/ \E x \in AllRetrievals : RetrievalStep(x)
             \/ \E r \in Runs : Cancel(r)
             \/ UNCHANGED compositionVars
      PROVE  store' = store
  BY <1>8, RetrievalChanges DEF Cancel, compositionVars, composed
<1> QED BY <1>2, <1>3, <1>4, <1>5, <1>6, <1>7, <1>8
       DEF ComposedNext, Progress, RunStep, WrapperStep, Finished

\* is_current finds what the records that support each other show.
CurrencyIs ==
  \A r \in Runs : \A id \in Known(store[r]) : IsCurrent(store[r], id) <=> Supported(store[r], id)

\* What supports a record of a store that has grown supported it before.
LEMMA SupportIsOld ==
  ASSUME NEW s, NEW t, WellKept(s), Grows(s, t), NEW id \in Known(s), now' = now,
         \E S \in SUBSET Known(t) :
            id \in S /\ \A x \in S : \/ t.records[x].completed
                                     \/ /\ x \notin t.stale /\ ~ (now' >= t.records[x].expires)
                                        /\ t.records[x].dependencies \subseteq S
  PROVE  Supported(s, id)
<1>1. PICK S \in SUBSET Known(t) :
        id \in S /\ \A x \in S : \/ t.records[x].completed
                                 \/ /\ x \notin t.stale /\ ~ (now' >= t.records[x].expires)
                                    /\ t.records[x].dependencies \subseteq S
  OBVIOUS
<1> DEFINE V == S \cap Known(s)
<1>2. \A x \in Known(s) : t.records[x] = s.records[x] /\ s.records[x].dependencies \subseteq Known(s)
  BY WellKeptIs DEF Grows, Links
<1>3. s.stale \subseteq t.stale
  BY DEF Grows
<1>4. Vouched(s, V)
  BY <1>1, <1>2, <1>3 DEF Vouched
<1> QED BY <1>1, <1>4 DEF Supported

\* No step takes a record out of a store or changes it, and none makes a record current
\* again that was not: not an import from a child, not a supersession, not a late output.
StoresOnlyGrow ==
  [][\A r \in Runs :
       /\ Grows(store[r], store'[r])
       /\ \A id \in Known(store[r]) : IsCurrent(store[r], id)' => IsCurrent(store[r], id)]_compositionVars

\* Evidence is append-only in every run of the tree, in whatever order children end, are
\* cancelled or bring in what they found: what was replaced or invalidated once stays so
\* (add refuses a known identity and only ever adds to what is invalidated).
THEOREM NothingIsLostOrRevived == NamesDistinct => (ComposedSpec => StoresOnlyGrow)
<1> SUFFICES ASSUME NamesDistinct PROVE ComposedSpec => StoresOnlyGrow
  OBVIOUS
<1>1. ComposedSpec => []ComposedInv
  BY ComposedInvariance
<1>2. ComposedInv => CurrencyIs
  BY CurrentIsSupported DEF CurrencyIs, ComposedInv, ContentsKept, StoresKept
<1>3. ComposedInv /\ CurrencyIs /\ CurrencyIs' /\ ComposedNext =>
        \A r \in Runs :
          /\ Grows(store[r], store'[r])
          /\ \A id \in Known(store[r]) : IsCurrent(store[r], id)' => IsCurrent(store[r], id)
  <2> SUFFICES ASSUME ComposedInv, CurrencyIs, CurrencyIs', ComposedNext, NEW r \in Runs
               PROVE  /\ Grows(store[r], store'[r])
                      /\ \A id \in Known(store[r]) : IsCurrent(store[r], id)' => IsCurrent(store[r], id)
    OBVIOUS
  <2>1. Grows(store[r], store'[r])
    BY StepGrowsStores DEF StoresGrow
  <2>2. now' = now
    BY ZenonT(60) DEF ComposedNext, Progress, RunStep, WrapperStep, BeginStep, MayBegin, AdmitStep,
           MayBeAdmitted, EndStep, MayEnd, CancelStep, MayBeCancelled, EndRun, MayFinish,
           StartChild, MayBeCalled, ViewsFor, RecordOutput, DropOutput, Cancel, Invalidate,
           RetrievalStep, BeginRetrieval, MayBeginRetrieval, AdmitRetrieval, MayAdmitRetrieval,
           EndRetrieval, MayEndRetrieval, Finished, EnterOperation, AdmitNamed, LeaveOperation, AdmitChildRun, compositionVars,
           ledger
  <2>3. ASSUME NEW id \in Known(store[r]), IsCurrent(store[r], id)' PROVE IsCurrent(store[r], id)
    <3>1. id \in Known(store'[r]) /\ WellKept(store[r])
      BY <2>1 DEF Grows, ComposedInv, ContentsKept, StoresKept
    <3>2. Supported(store[r], id)'
      BY <2>3, <3>1 DEF CurrencyIs
    <3>3. Supported(store[r], id)
      BY <2>1, <2>2, <3>1, <3>2, SupportIsOld DEF Supported, Vouched
    <3> QED BY <3>3 DEF CurrencyIs
  <2> QED BY <2>1, <2>3
<1> QED BY <1>1, <1>2, <1>3, PTL DEF ComposedSpec, StoresOnlyGrow
=============================================================================
