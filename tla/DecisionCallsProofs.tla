------------------------- MODULE DecisionCallsProofs -------------------------
(***************************************************************************)
(* What concurrent decisions (DecisionCalls) keep for any inputs, limits   *)
(* and delays: their types, that every request is an admitted attempt,     *)
(* that each decision is measured once, that it is made over current       *)
(* inputs, that they use the ledger as UsageLedger specifies, and that     *)
(* every step takes a decision further.                                    *)
(***************************************************************************)
EXTENDS DecisionCalls, FiniteSetTheorems, FunctionTheorems, TLAPS

Looked == {"observed", "unknown"}

\* The requests of a decision are its attempts in order, up to the one it is at;
\* the attempt it asks admission for was not sent.
Numbered(d) ==
  /\ at[d] \in {"idle", "entered"} => number[d] = 0
  /\ at[d] = "admitting" => number[d] >= 1
  /\ at[d] = "sleeping" => number[d] < MaxAttempts
  /\ \A k \in 1..MaxAttempts : <<d, k>> \in sent =>
       /\ k <= number[d] /\ (at[d] = "admitting" => k < number[d])
       /\ k > 1 => <<d, k - 1>> \in sent
  /\ at[d] = "admitting" /\ number[d] > 1 => <<d, number[d] - 1>> \in sent
  /\ at[d] \in {"calling", "sleeping"} => number[d] >= 1 /\ <<d, number[d]>> \in sent

\* The outcome is known when the decision leaves the ledger, and a used or late
\* answer when it is out.
Placed(d) ==
  /\ at[d] \in {"idle", "entered", "admitting", "calling", "sleeping"} => outcome[d] = "none"
  /\ at[d] = "measuring" => outcome[d] \in {"answered", "provider"}
  /\ outcome[d] \in {"decided", "stale"} => at[d] = "out"
  /\ outcome[d] = "answered" => at[d] \in {"leaving", "measuring"}
  /\ at[d] \in {"leaving", "out"} => outcome[d] # "none"

\* Measured once when the provider answered or failed it, and only then.
Measured(d) ==
  /\ IF at[d] = "out" /\ outcome[d] \in {"decided", "stale", "provider"}
     THEN \E kind \in Looked : \A other \in Looked : measured[<<d, other>>] # "nothing" <=> other = kind
     ELSE \A kind \in Looked : measured[<<d, kind>>] = "nothing"
  /\ outcome[d] = "provider" => measured[<<d, "observed">>] = "nothing"

\* The ledger admitted what was sent, within its limits.
SentCounted ==
  /\ attempts = [id \in AttemptIds |-> IF id \in sent THEN 1 ELSE 0]
  /\ IsFiniteSet(sent)
  /\ Cardinality(sent) <= ProviderAttempts /\ Cardinality(sent) <= SubmittedQuestions

IInv ==
  /\ TypeOK /\ SentCounted
  /\ \A d \in Decisions : Numbered(d) /\ Placed(d) /\ Measured(d)

Places == {"idle", "entered", "admitting", "calling", "sleeping", "leaving", "measuring", "out"}
Outcomes == {"none", "inputs", "refused", "answered", "provider", "cancelled", "decided", "stale"}

Decided(d) == Numbered(d) /\ Placed(d) /\ Measured(d)

\* A step of one decision leaves the others as they are.
LEMMA OneSteps ==
  ASSUME IInv, NEW d \in Decisions, TypeOK', SentCounted', Decided(d)',
         \A e \in Decisions \ {d} :
           /\ at'[e] = at[e] /\ number'[e] = number[e] /\ outcome'[e] = outcome[e]
           /\ \A kind \in Looked : measured'[<<e, kind>>] = measured[<<e, kind>>]
           /\ \A k \in 1..MaxAttempts : <<e, k>> \in sent' <=> <<e, k>> \in sent
  PROVE  IInv'
  <1> SUFFICES ASSUME NEW e \in Decisions \ {d}
               PROVE  Decided(e)'
    BY DEF IInv, Decided
  <1>0. MaxAttempts \in Nat /\ number[e] \in 0..MaxAttempts
    BY DecisionLimitsAssumption DEF IInv, TypeOK
  <1>1. Numbered(e)'
    BY <1>0 DEF IInv, Numbered
  <1>2. Placed(e)'
    BY DEF IInv, Placed
  <1>3. Measured(e)'
    BY DEF IInv, Measured, Looked
  <1> QED BY <1>1, <1>2, <1>3 DEF Decided

LEMMA StateTypes ==
  ASSUME IInv
  PROVE  /\ at \in [Decisions -> Places] /\ number \in [Decisions -> 0..MaxAttempts]
         /\ outcome \in [Decisions -> Outcomes] /\ timeout \in [Decisions -> 0..Deadline]
         /\ until \in [Decisions -> Nat] /\ sent \subseteq AttemptIds /\ now \in Nat
         /\ MaxAttempts \in Nat /\ MaxAttempts >= 1 /\ Deadline \in Nat /\ MaxTime \in Nat
         /\ measured \in [Decisions \X Ledger!Kinds -> {"counted", "nothing"}]
         /\ recorded \subseteq Decisions
  BY DecisionLimitsAssumption DEF IInv, TypeOK, Ledger!TypeOK, Places, Outcomes

\* A step that touches neither the requests nor the measurements.
LEMMA QuietStep ==
  ASSUME IInv, NEW d \in Decisions, NEW to \in Places, NEW how \in Outcomes,
         at' = [at EXCEPT ![d] = to], outcome' = [outcome EXCEPT ![d] = how],
         UNCHANGED <<attempts, measured, sent, recorded>>,
         number' \in [Decisions -> 0..MaxAttempts],
         \A e \in Decisions \ {d} : number'[e] = number[e],
         timeout' \in [Decisions -> 0..Deadline], until' \in [Decisions -> Nat],
         Ledger!TypeOK', changed' \subseteq Sources,
         Numbered(d)', Placed(d)',
         at[d] # "out", to = "out" => how \notin {"decided", "stale", "provider"},
         \/ how # "provider"
         \/ how = outcome[d]
         \/ outcome[d] = "none"
  PROVE  IInv'
  <1>1. \A e \in Decisions \ {d} : at'[e] = at[e] /\ outcome'[e] = outcome[e]
    BY StateTypes
  <1>2. at'[d] = to /\ outcome'[d] = how
    BY StateTypes
  <1>3. TypeOK'
    BY <1>1, <1>2, StateTypes DEF TypeOK, IInv, Places, Outcomes
  <1>4. SentCounted'
    BY DEF IInv, SentCounted
  <1>5. \A kind \in Looked : measured[<<d, kind>>] = "nothing"
    BY DEF IInv, Measured
  <1>6. Measured(d)'
    BY <1>2, <1>5 DEF Measured, Looked
  <1>7. Decided(d)'
    BY <1>6, SMTT(30) DEF Decided
  <1> QED BY <1>1, <1>3, <1>4, <1>7, OneSteps

-----------------------------------------------------------------------------
(* Steps of a decision. *)

LEMMA RefuseStep ==
  ASSUME IInv, NEW d \in Decisions, RefuseStale(d)
  PROVE  IInv'
  <1>1. /\ at[d] = "idle" /\ at' = [at EXCEPT ![d] = "out"]
        /\ outcome' = [outcome EXCEPT ![d] = "inputs"]
        /\ UNCHANGED <<ledger, progress, sent, store>>
    BY DEF RefuseStale, Ends, Goes
  <1>2. at'[d] = "out" /\ outcome'[d] = "inputs"
    BY <1>1, StateTypes
  <1>3. Numbered(d)' /\ Placed(d)'
    BY <1>1, <1>2 DEF IInv, Numbered, Placed, progress
  <1>4. Ledger!TypeOK' /\ changed' \subseteq Sources
    BY <1>1 DEF IInv, TypeOK, Ledger!TypeOK, ledger, store
  <1> QED BY <1>1, <1>3, <1>4, StateTypes, QuietStep
        DEF Places, Outcomes, ledger, progress, store

LEMMA StartStep ==
  ASSUME IInv, NEW d \in Decisions, Start(d)
  PROVE  IInv'
  <1>1. /\ at[d] = "idle"
        /\ UNCHANGED <<attempts, calls, children, measured, now, progress, sent, store>>
        /\ reply' = Ledger!OperationReply(d, Deadline)
        /\ \/ active' = active \cup {d} /\ operations' = operations \cup {d}
           \/ UNCHANGED <<active, operations>>
    BY DEF Start, Ledger!EnterOperation
  <1>2. Ledger!TypeOK' /\ changed' \subseteq Sources
    BY <1>1 DEF IInv, TypeOK, Ledger!TypeOK, Ledger!OperationReply, Ledger!Replies, store
  <1>3. PICK to \in Places, how \in Outcomes :
          /\ at' = [at EXCEPT ![d] = to] /\ outcome' = [outcome EXCEPT ![d] = how]
          /\ <<to, how>> \in {<<"entered", "none">>, <<"out", "refused">>}
    <2>1. CASE Goes(d, "entered") /\ UNCHANGED outcome
      <3>1. outcome[d] = "none"
        BY <1>1 DEF IInv, Placed
      <3>2. outcome' = [outcome EXCEPT ![d] = "none"]
        BY <2>1, <3>1, StateTypes
      <3> QED BY <2>1, <3>2 DEF Goes, Places, Outcomes
    <2>2. CASE Ends(d, "refused")
      BY <2>2 DEF Ends, Goes, Places, Outcomes
    <2> QED BY <2>1, <2>2 DEF Start
  <1>4. at'[d] = to /\ outcome'[d] = how
    BY <1>3, StateTypes
  <1>5. Numbered(d)' /\ Placed(d)'
    BY <1>1, <1>3, <1>4 DEF IInv, Numbered, Placed, progress
  <1> QED BY <1>1, <1>2, <1>3, <1>5, StateTypes, QuietStep DEF progress, store

LEMMA BeginStep ==
  ASSUME IInv, NEW d \in Decisions, Begin(d)
  PROVE  IInv'
  <1>1. /\ at[d] = "entered" /\ outcome[d] = "none" /\ number[d] = 0
        /\ UNCHANGED <<ledger, until, sent, store>>
    BY DEF Begin, IInv, Placed, Numbered
  <1>2. Ledger!TypeOK' /\ changed' \subseteq Sources
    BY <1>1 DEF IInv, TypeOK, Ledger!TypeOK, ledger, store
  <1>3. CASE now < Deadline
    <2>1. /\ at' = [at EXCEPT ![d] = "admitting"] /\ outcome' = outcome
          /\ timeout' = [timeout EXCEPT ![d] = Deadline - now]
          /\ number' = [number EXCEPT ![d] = 1]
      BY <1>3 DEF Begin, Goes
    <2>2. outcome' = [outcome EXCEPT ![d] = "none"]
      BY <1>1, <2>1, StateTypes
    <2>3. at'[d] = "admitting" /\ number'[d] = 1 /\ outcome'[d] = "none"
      BY <2>1, <2>2, StateTypes
    <2>4. \A k \in 1..MaxAttempts : <<d, k>> \notin sent
      <3>1. Numbered(d)
        BY DEF IInv
      <3>2. \A k \in 1..MaxAttempts : <<d, k>> \in sent => k <= number[d]
        BY <3>1 DEF Numbered
      <3>3. \A k \in 1..MaxAttempts : ~ k <= 0
        BY StateTypes
      <3> QED BY <1>1, <3>2, <3>3
    <2>5. Numbered(d)' /\ Placed(d)'
      BY <1>1, <2>3, <2>4, StateTypes DEF Numbered, Placed
    <2>6. Deadline - now \in 0..Deadline
      BY <1>3, StateTypes
    <2>7. timeout' \in [Decisions -> 0..Deadline] /\ number' \in [Decisions -> 0..MaxAttempts]
          /\ \A e \in Decisions \ {d} : number'[e] = number[e]
      BY <2>1, <2>6, StateTypes, SMTT(30)
    <2> QED BY <1>1, <1>2, <2>1, <2>2, <2>5, <2>7, StateTypes, QuietStep
          DEF Places, Outcomes, ledger, store
  <1>4. CASE ~ now < Deadline
    <2>1. /\ at' = [at EXCEPT ![d] = "leaving"] /\ outcome' = [outcome EXCEPT ![d] = "refused"]
          /\ UNCHANGED <<timeout, number>>
      BY <1>4 DEF Begin, Leaves, Goes
    <2>2. at'[d] = "leaving" /\ outcome'[d] = "refused"
      BY <2>1, StateTypes
    <2>3. Numbered(d)' /\ Placed(d)'
      BY <1>1, <2>1, <2>2, SMTT(30) DEF IInv, Numbered, Placed
    <2> QED BY <1>1, <1>2, <2>1, <2>3, StateTypes, QuietStep
          DEF Places, Outcomes, ledger, store
  <1> QED BY <1>3, <1>4

\* The call ends: answered, failed or cancelled.
LEMMA CallEnds ==
  ASSUME IInv, NEW d \in Decisions, NEW how \in {"answered", "provider", "cancelled"},
         at[d] \in {"calling", "sleeping"}, Leaves(d, how),
         UNCHANGED <<ledger, progress, sent, store>>
  PROVE  IInv'
  <1>1. at' = [at EXCEPT ![d] = "leaving"] /\ outcome' = [outcome EXCEPT ![d] = how]
    BY DEF Leaves, Goes
  <1>2. at'[d] = "leaving" /\ outcome'[d] = how
    BY <1>1, StateTypes
  <1>3. Numbered(d)' /\ Placed(d)'
    BY <1>1, <1>2 DEF IInv, Numbered, Placed, progress
  <1>4. Ledger!TypeOK' /\ changed' \subseteq Sources
    BY SMTT(30) DEF IInv, TypeOK, Ledger!TypeOK, ledger, store
  <1>5. outcome[d] = "none"
    BY SMTT(30) DEF IInv, Placed
  <1> QED BY <1>1, <1>3, <1>4, <1>5, StateTypes, QuietStep
        DEF Places, Outcomes, ledger, progress, store

LEMMA RetryStep ==
  ASSUME IInv, NEW d \in Decisions, Retry(d)
  PROVE  IInv'
  <1>1. /\ at[d] = "calling" /\ number[d] < MaxAttempts /\ outcome[d] = "none"
        /\ at' = [at EXCEPT ![d] = "sleeping"]
        /\ UNCHANGED <<ledger, number, timeout, outcome, sent, store>>
    BY DEF Retry, Goes, IInv, Placed
  <1>2. outcome' = [outcome EXCEPT ![d] = "none"]
    BY <1>1, StateTypes
  <1>3. PICK delay \in 0..MaxDelay : until' = [until EXCEPT ![d] = now + delay]
    BY DEF Retry
  <1>4. until' \in [Decisions -> Nat]
    BY <1>3, StateTypes, DecisionLimitsAssumption
  <1>5. at'[d] = "sleeping" /\ outcome'[d] = "none"
    BY <1>1, StateTypes
  <1>6. Numbered(d)' /\ Placed(d)'
    BY <1>1, <1>5 DEF IInv, Numbered, Placed
  <1>7. Ledger!TypeOK' /\ changed' \subseteq Sources
    <2>1. TypeOK /\ UNCHANGED <<active, operations, attempts, calls, children, measured, now, reply>>
          /\ changed' = changed
      BY <1>1, SMTT(30) DEF IInv, ledger, store
    <2> QED BY <2>1, SMTT(30) DEF TypeOK, Ledger!TypeOK
  <1> QED BY <1>1, <1>2, <1>4, <1>6, <1>7, StateTypes, QuietStep
        DEF Places, Outcomes, ledger, store

LEMMA WakeStep ==
  ASSUME IInv, NEW d \in Decisions, Wake(d)
  PROVE  IInv'
  <1>1. /\ at[d] = "sleeping" /\ number[d] < MaxAttempts /\ outcome[d] = "none"
        /\ number[d] >= 1 /\ <<d, number[d]>> \in sent
        /\ number' = [number EXCEPT ![d] = @ + 1]
        /\ at' = [at EXCEPT ![d] = "admitting"]
        /\ UNCHANGED <<ledger, timeout, until, outcome, sent, store>>
    BY DEF Wake, Goes, IInv, Placed, Numbered
  <1>2. outcome' = [outcome EXCEPT ![d] = "none"]
    BY <1>1, StateTypes
  <1>3. at'[d] = "admitting" /\ outcome'[d] = "none" /\ number'[d] = number[d] + 1
        /\ number[d] \in 0..MaxAttempts
    BY <1>1, StateTypes
  <1>4. number' \in [Decisions -> 0..MaxAttempts]
        /\ \A e \in Decisions \ {d} : number'[e] = number[e]
    BY <1>1, <1>3, StateTypes
  <1>5. Numbered(d)'
    <2>1. Numbered(d)
      BY DEF IInv
    <2>2. \A k \in 1..MaxAttempts : <<d, k>> \in sent =>
            k <= number[d] /\ (k > 1 => <<d, k - 1>> \in sent)
      BY <2>1 DEF Numbered
    <2>3. \A k \in 1..MaxAttempts : k <= number[d] => k <= number[d] + 1 /\ k < number[d] + 1
      BY <1>3, StateTypes
    <2>4. number[d] + 1 >= 1 /\ (number[d] + 1) - 1 = number[d]
      BY <1>1, <1>3
    <2> QED BY <1>1, <1>3, <2>2, <2>3, <2>4 DEF Numbered
  <1>7. Placed(d)'
    BY <1>3 DEF Placed
  <1>6. Ledger!TypeOK' /\ changed' \subseteq Sources
    <2>1. TypeOK /\ UNCHANGED <<active, operations, attempts, calls, children, measured, now, reply>>
          /\ changed' = changed
      BY <1>1, SMTT(30) DEF IInv, ledger, store
    <2> QED BY <2>1, SMTT(30) DEF TypeOK, Ledger!TypeOK
  <1> QED BY <1>1, <1>2, <1>4, <1>5, <1>6, <1>7, StateTypes, QuietStep
        DEF Places, Outcomes, ledger, store

LEMMA LeaveStep ==
  ASSUME IInv, NEW d \in Decisions, Leave(d)
  PROVE  IInv'
  <1>1. /\ at[d] = "leaving" /\ active' = active \ {d}
        /\ UNCHANGED <<operations, attempts, calls, children, measured, now, reply>>
        /\ UNCHANGED <<progress, outcome, sent, store>>
    BY DEF Leave, Ledger!LeaveOperation
  <1>2. PICK to \in {"measuring", "out"} :
          /\ at' = [at EXCEPT ![d] = to]
          /\ to = "measuring" <=> outcome[d] \in {"answered", "provider"}
    BY DEF Leave, Goes
  <1>3. at'[d] = to
    BY <1>2, StateTypes
  <1>4. outcome' = [outcome EXCEPT ![d] = outcome[d]] /\ outcome[d] \in Outcomes
    BY <1>1, StateTypes
  <1>5. outcome[d] \notin {"decided", "stale"}
    BY <1>1 DEF IInv, Placed
  <1>6. outcome[d] # "none"
    BY <1>1 DEF IInv, Placed
  <1>7. Numbered(d)' /\ Placed(d)'
    BY <1>1, <1>2, <1>3, <1>5, <1>6 DEF IInv, Numbered, Placed, progress
  <1>8. Ledger!TypeOK' /\ changed' \subseteq Sources
    BY <1>1 DEF IInv, TypeOK, Ledger!TypeOK, store
  <1> QED BY <1>1, <1>2, <1>4, <1>5, <1>7, <1>8, StateTypes, QuietStep
        DEF Places, Outcomes, progress, store

\* The ledger counts as this module does.
LEMMA SameCount == \A S : Ledger!Cardinality(S) = Cardinality(S)
  BY Zenon DEF Ledger!Cardinality, Cardinality

\* The ledger counts the requests: each is one attempt with one question.
LEMMA AdmittedAreSent ==
  ASSUME IInv
  PROVE  /\ Ledger!Cardinality(Ledger!Admitted) = Cardinality(sent)
         /\ Ledger!Cardinality(Ledger!Submitted) = Cardinality(sent)
  <1>1. sent \subseteq AttemptIds /\ IsFiniteSet(sent)
    BY DEF IInv, TypeOK, SentCounted
  <1>2. \A id \in AttemptIds : attempts[id] = IF id \in sent THEN 1 ELSE 0
    BY DEF IInv, SentCounted
  <1>3. Ledger!Admitted = sent
    BY <1>1, <1>2 DEF Ledger!Admitted
  <1> DEFINE Pairs == {<<id, 1>> : id \in sent}
             f == [id \in sent |-> <<id, 1>>]
  <1>4. Ledger!Submitted = Pairs
    <2>1. ASSUME NEW p \in AttemptIds \X (1..1)
          PROVE  p[2] <= attempts[p[1]] <=> p[1] \in sent
      BY <1>2, <2>1
    <2>2. ASSUME NEW p \in AttemptIds \X (1..1)
          PROVE  p = <<p[1], 1>>
      OBVIOUS
    <2> QED BY <1>1, <2>1, <2>2 DEF Ledger!Submitted
  <1>5. f \in Bijection(sent, Pairs)
    BY DEF Bijection, Injection, IsInjective, Surjection
  <1>6. Cardinality(Pairs) = Cardinality(sent)
    BY <1>1, <1>5, Fun_ExistsBij, FS_Bijection
  <1> QED BY <1>3, <1>4, <1>6, SameCount

LEMMA AdmitStep ==
  ASSUME IInv, NEW d \in Decisions, Admit(d)
  PROVE  IInv'
  <1> DEFINE id == <<d, number[d]>>
  <1>0. Numbered(d) /\ Placed(d) /\ Measured(d) /\ TypeOK /\ SentCounted
    BY DEF IInv
  <1>1. /\ at[d] = "admitting" /\ outcome[d] = "none" /\ number[d] \in 1..MaxAttempts
        /\ id \in AttemptIds /\ id \notin sent
        /\ \A kind \in Looked : measured[<<d, kind>>] = "nothing"
    BY <1>0, StateTypes DEF Admit, Numbered, Placed, Measured, AttemptIds
  <1>2. attempts[id] = 0
    BY <1>1 DEF IInv, SentCounted
  <1>3. /\ reply' = Ledger!AttemptReply(id, 1, Deadline)
        /\ attempts' = [attempts EXCEPT ![id] = IF reply' = "ok" THEN 1 ELSE @]
        /\ UNCHANGED <<active, operations, calls, children, measured, now>>
        /\ UNCHANGED <<number, timeout, store>>
    BY DEF Admit, Ledger!AdmitProviderAttempt
  <1>4. reply' \in Ledger!Replies
    BY <1>3 DEF Ledger!AttemptReply, Ledger!Replies
  <1>5. attempts \in [AttemptIds -> 0..1] /\ attempts' \in [AttemptIds -> 0..1]
    BY <1>1, <1>3 DEF IInv, TypeOK, Ledger!TypeOK
  <1>6. Ledger!TypeOK'
    <2>1. Ledger!TypeOK
      BY <1>0, Zenon DEF TypeOK
    <2> QED BY <1>3, <1>4, <1>5, <2>1 DEF Ledger!TypeOK
  <1>7. CASE reply' # "ok"
    <2>1. /\ at' = [at EXCEPT ![d] = "leaving"] /\ outcome' = [outcome EXCEPT ![d] = "refused"]
          /\ UNCHANGED <<until, sent>>
      BY <1>7 DEF Admit, Leaves, Goes
    <2>2. at'[d] = "leaving" /\ outcome'[d] = "refused"
      BY <2>1, StateTypes
    <2>3. attempts' = attempts
      BY <1>3, <1>5, <1>7
    <2>4. Numbered(d)' /\ Placed(d)'
      BY <1>0, <1>3, <2>1, <2>2 DEF Numbered, Placed
    <2> QED BY <1>1, <1>3, <1>6, <2>1, <2>3, <2>4, StateTypes, QuietStep
          DEF Places, Outcomes, store, IInv, TypeOK
  <1>8. CASE reply' = "ok"
    <2>1. /\ at' = [at EXCEPT ![d] = "calling"] /\ outcome' = outcome
          /\ until' = [until EXCEPT ![d] = now + timeout[d]]
          /\ sent' = sent \cup {id}
      BY <1>8 DEF Admit, Goes
    <2>2. at'[d] = "calling" /\ \A e \in Decisions \ {d} : at'[e] = at[e]
      BY <2>1, StateTypes
    <2>3. /\ ~ Cardinality(sent) >= ProviderAttempts
          /\ ~ Cardinality(sent) + 1 > SubmittedQuestions
      BY <1>2, <1>3, <1>8, AdmittedAreSent DEF Ledger!AttemptReply
    <2>4. IsFiniteSet(sent) /\ Cardinality(sent) \in Nat
      BY <1>0, FS_CardinalityType DEF SentCounted
    <2>5. IsFiniteSet(sent') /\ Cardinality(sent') = Cardinality(sent) + 1
      BY <1>1, <2>1, <2>4, FS_AddElement
    <2>6. attempts' = [one \in AttemptIds |-> IF one \in sent' THEN 1 ELSE 0]
      BY <1>1, <1>3, <1>8, <2>1 DEF IInv, SentCounted
    <2>7. SentCounted'
      BY <2>3, <2>4, <2>5, <2>6, DecisionLimitsAssumption DEF SentCounted
    <2>8. until' \in [Decisions -> Nat]
      BY <2>1, StateTypes
    <2>9. TypeOK'
      BY <1>0, <1>1, <1>3, <1>6, <2>1, <2>8 DEF TypeOK, store
    <2>10. Numbered(d)'
      <3>1. \A k \in 1..MaxAttempts : <<d, k>> \in sent => k < number[d] /\ (k > 1 => <<d, k - 1>> \in sent)
        BY <1>0, <1>1 DEF Numbered
      <3>2. number[d] > 1 => <<d, number[d] - 1>> \in sent
        BY <1>0, <1>1 DEF Numbered
      <3>3. \A k \in 1..MaxAttempts : <<d, k>> \in sent' =>
              k <= number[d] /\ (k > 1 => <<d, k - 1>> \in sent')
        <4> SUFFICES ASSUME NEW k \in 1..MaxAttempts, <<d, k>> \in sent'
                     PROVE  k <= number[d] /\ (k > 1 => <<d, k - 1>> \in sent')
          OBVIOUS
        <4>1. k \in Int /\ number[d] \in Int
          BY <1>1, StateTypes
        <4>2. CASE <<d, k>> \in sent
          BY <2>1, <3>1, <4>1, <4>2
        <4>3. CASE k = number[d]
          BY <2>1, <3>2, <4>1, <4>3
        <4> QED BY <2>1, <4>2, <4>3
      <3> QED BY <1>1, <1>3, <2>1, <2>2, <3>3 DEF Numbered
    <2>11. Placed(d)' /\ Measured(d)'
      BY <1>1, <1>3, <2>1, <2>2 DEF Placed, Measured, Looked
    <2>12. \A e \in Decisions \ {d}, k \in 1..MaxAttempts : <<e, k>> \in sent' <=> <<e, k>> \in sent
      BY <2>1
    <2>13. Decided(d)'
      BY <2>10, <2>11 DEF Decided
    <2> QED BY <1>3, <2>1, <2>2, <2>7, <2>9, <2>12, <2>13, OneSteps
  <1> QED BY <1>7, <1>8

\* The provider's answer, or its failure, is measured.
LEMMA MeasureStep ==
  ASSUME IInv, NEW d \in Decisions, MeasureError(d) \/ Conclude(d)
  PROVE  IInv'
  <1>0. Numbered(d) /\ Placed(d) /\ Measured(d) /\ TypeOK /\ SentCounted
    BY DEF IInv
  <1>1. at[d] = "measuring" /\ \A kind \in Looked : measured[<<d, kind>>] = "nothing"
    BY <1>0 DEF MeasureError, Conclude, Measured
  <1>2. PICK kind \in Looked, how \in {"provider", "decided", "stale"} :
          /\ Ledger!Record(d, kind, "counted")
          /\ at' = [at EXCEPT ![d] = "out"] /\ outcome' = [outcome EXCEPT ![d] = how]
          /\ how = "provider" => kind = "unknown"
          /\ UNCHANGED <<progress, sent, changed>> /\ recorded' \in {recorded, recorded \cup {d}}
    <2>1. CASE MeasureError(d)
      <3>1. outcome' = [outcome EXCEPT ![d] = "provider"]
        BY <2>1, StateTypes DEF MeasureError
      <3> QED BY <2>1, <3>1 DEF MeasureError, Goes, Looked, store
    <2>2. CASE Conclude(d)
      <3>1. \E kind \in Looked : Ledger!Record(d, kind, "counted")
        BY <2>2 DEF Conclude, Looked
      <3>2. \E how \in {"decided", "stale"} : outcome' = [outcome EXCEPT ![d] = how]
        BY <2>2 DEF Conclude, Ends
      <3> QED BY <2>2, <3>1, <3>2 DEF Conclude, Ends, Goes
    <2> QED BY <2>1, <2>2
  <1>3. /\ reply' = "ok" /\ measured' = [measured EXCEPT ![<<d, kind>>] = "counted"]
        /\ UNCHANGED <<active, operations, attempts, calls, children, now>>
    BY <1>1, <1>2 DEF Ledger!Record
  <1>4. Looked \subseteq Ledger!Kinds
    BY DEF Looked, Ledger!Kinds
  <1>5. measured' \in [Decisions \X Ledger!Kinds -> {"counted", "nothing"}]
    BY <1>3, StateTypes
  <1>6. Ledger!TypeOK'
    BY <1>0, <1>3, <1>5 DEF TypeOK, Ledger!TypeOK, Ledger!Replies
  <1>7. /\ \A other \in Looked : measured'[<<d, other>>] # "nothing" <=> other = kind
        /\ \A e \in Decisions \ {d}, other \in Looked : measured'[<<e, other>>] = measured[<<e, other>>]
    BY <1>1, <1>2, <1>3, <1>4, StateTypes
  <1>8. at'[d] = "out" /\ outcome'[d] = how
        /\ \A e \in Decisions \ {d} : at'[e] = at[e] /\ outcome'[e] = outcome[e]
    BY <1>2, StateTypes
  <1>9. TypeOK'
    BY <1>0, <1>2, <1>6, <1>8 DEF TypeOK, progress
  <1>10. SentCounted'
    BY <1>0, <1>2, <1>3 DEF SentCounted
  <1>11. Numbered(d)'
    BY <1>0, <1>2, <1>8 DEF Numbered, progress
  <1>12. Placed(d)'
    BY <1>2, <1>8 DEF Placed
  <1>13. Measured(d)'
    BY <1>2, <1>7, <1>8 DEF Measured, Looked
  <1>14. Decided(d)'
    BY <1>11, <1>12, <1>13 DEF Decided
  <1> QED BY <1>2, <1>7, <1>8, <1>9, <1>10, <1>14, OneSteps DEF progress

\* The host changes a source, time passes, or nothing happens.
LEMMA OtherSteps ==
  ASSUME IInv, (\E e \in Sources : Change(e)) \/ Tick \/ UNCHANGED vars
  PROVE  IInv'
  <1>1. /\ UNCHANGED <<active, operations, attempts, calls, children, measured, reply>>
        /\ UNCHANGED <<at, number, timeout, until, outcome, sent, recorded>>
        /\ now' \in 0..MaxTime /\ changed' \subseteq Sources
    BY StateTypes DEF IInv, TypeOK, Ledger!TypeOK, Change, Tick, Ledger!Tick, vars, ledger,
                      progress, store
  <1>2. TypeOK'
    BY <1>1 DEF IInv, TypeOK, Ledger!TypeOK
  <1>3. SentCounted'
    BY <1>1 DEF IInv, SentCounted
  <1>4. \A d \in Decisions : Numbered(d)' /\ Placed(d)' /\ Measured(d)'
    <2> SUFFICES ASSUME NEW d \in Decisions
                 PROVE  Numbered(d)' /\ Placed(d)' /\ Measured(d)'
      OBVIOUS
    <2>1. Numbered(d)'
      BY <1>1, Zenon DEF IInv, Numbered
    <2>2. Placed(d)'
      BY <1>1, Zenon DEF IInv, Placed
    <2>3. Measured(d)'
      BY <1>1, ZenonT(60) DEF IInv, Measured, Looked
    <2> QED BY <2>1, <2>2, <2>3
  <1> QED BY <1>2, <1>3, <1>4 DEF IInv

LEMMA Starts == Init => IInv
  <1> SUFFICES ASSUME Init
               PROVE  IInv
    OBVIOUS
  <1>1. TypeOK
    BY DecisionLimitsAssumption DEF Init, TypeOK, Ledger!Init, Ledger!TypeOK, Ledger!Replies
  <1>2. SentCounted
    BY FS_EmptySet, DecisionLimitsAssumption DEF Init, Ledger!Init, SentCounted
  <1>3. ASSUME NEW d \in Decisions
        PROVE  Numbered(d) /\ Placed(d) /\ Measured(d)
    <2>1. Looked \subseteq Ledger!Kinds
      BY DEF Looked, Ledger!Kinds
    <2> QED BY <2>1 DEF Init, Ledger!Init, Numbered, Placed, Measured
  <1> QED BY <1>1, <1>2, <1>3 DEF IInv

LEMMA GoesOn == IInv /\ [Next]_vars => IInv'
  <1> SUFFICES ASSUME IInv, [Next]_vars
               PROVE  IInv'
    OBVIOUS
  <1>1. ASSUME NEW d \in Decisions, Step(d) \/ Cancel(d)
        PROVE  IInv'
    <2>1. CASE Answer(d) \/ Fail(d) \/ Cancel(d)
      BY <2>1, CallEnds DEF Answer, Fail, Cancel
    <2> QED BY <1>1, <2>1, RefuseStep, StartStep, BeginStep, AdmitStep, RetryStep, WakeStep,
               LeaveStep, MeasureStep DEF Step
  <1> QED BY <1>1, OtherSteps DEF Next, Finished

LEMMA Invariant == Spec => []IInv
  BY Starts, GoesOn, PTL DEF Spec

-----------------------------------------------------------------------------
\* Every state of the decisions and their ledger has its types, for any limits.
THEOREM TypeCorrect == Spec => []TypeOK
  <1>1. IInv => TypeOK
    BY DEF IInv
  <1> QED BY <1>1, Invariant, PTL

\* For any decisions, limits and delays, every request was admitted, and those of
\* a decision are its attempts in order.
THEOREM RequestsAreAdmitted == Spec => []RequestsAdmitted
  <1>1. ASSUME IInv
        PROVE  RequestsAdmitted
    <2>1. \A id \in sent : attempts[id] = 1
      BY <1>1 DEF IInv, TypeOK, SentCounted
    <2>2. ASSUME NEW id \in sent, id[2] > 1
          PROVE  <<id[1], id[2] - 1>> \in sent
      <3>1. id[1] \in Decisions /\ id[2] \in 1..MaxAttempts /\ id = <<id[1], id[2]>>
        BY <1>1 DEF IInv, TypeOK, AttemptIds
      <3>2. Numbered(id[1])
        BY <1>1, <3>1 DEF IInv
      <3> QED BY <2>2, <3>1, <3>2 DEF Numbered
    <2> QED BY <1>1, <2>1, <2>2 DEF IInv, SentCounted, RequestsAdmitted
  <1> QED BY <1>1, Invariant, PTL

\* For any decisions and limits, a decision is measured once if the provider
\* answered or failed it, and otherwise never.
THEOREM DecisionsMeasuredOnce == Spec => []MeasuredOnce
  <1>1. ASSUME IInv
        PROVE  MeasuredOnce
    <2> DEFINE kinds(d) == {kind \in {"observed", "unknown"} : measured[<<d, kind>>] # "nothing"}
    <2>1. ASSUME NEW d \in Decisions
          PROVE  /\ at[d] = "out" =>
                      (Cardinality(kinds(d)) = IF outcome[d] \in {"decided", "stale", "provider"} THEN 1 ELSE 0)
                 /\ outcome[d] = "provider" => "observed" \notin kinds(d)
      <3>1. Measured(d)
        BY <1>1 DEF IInv
      <3>2. CASE at[d] = "out" /\ outcome[d] \in {"decided", "stale", "provider"}
        <4>1. PICK kind \in Looked : \A other \in Looked : measured[<<d, other>>] # "nothing" <=> other = kind
          BY <3>1, <3>2 DEF Measured
        <4>2. kinds(d) = {kind}
          BY <4>1 DEF Looked
        <4> QED BY <3>1, <3>2, <4>2, FS_Singleton DEF Measured
      <3>3. CASE ~ (at[d] = "out" /\ outcome[d] \in {"decided", "stale", "provider"})
        <4>1. kinds(d) = {}
          BY <3>1, <3>3 DEF Measured, Looked
        <4> QED BY <3>3, <4>1, FS_EmptySet
      <3> QED BY <3>2, <3>3
    <2> QED BY <2>1 DEF MeasuredOnce
  <1> QED BY <1>1, Invariant, PTL

\* For any decisions and hosts, a decision is returned over unchanged inputs only,
\* and a late answer is kept.
THEOREM DecidedOverCurrent == Spec => DecidedOverCurrentInputs
  <1> DEFINE A == \A d \in Decisions : outcome[d] = "answered" /\ outcome'[d] # "answered" =>
                    d \in recorded' /\ (outcome'[d] = "decided" => InputsOf[d] \cap changed' = {})
  <1>1. ASSUME IInv, [Next]_vars
        PROVE  [A]_vars
    <2> SUFFICES ASSUME NEW d \in Decisions, outcome[d] = "answered", outcome'[d] # "answered"
                 PROVE  d \in recorded' /\ (outcome'[d] = "decided" => InputsOf[d] \cap changed' = {})
      OBVIOUS
    <2>1. at[d] \in {"leaving", "measuring"}
      BY <1>1 DEF IInv, Placed
    <2>2. outcome \in [Decisions -> Outcomes]
      BY <1>1, StateTypes
    <2>3. ASSUME NEW e \in Decisions, Step(e) \/ Cancel(e)
          PROVE  Conclude(d)
      <3>1. CASE e = d
        BY <2>1, <2>2, <2>3, <3>1
           DEF Step, Cancel, RefuseStale, Start, Begin, Admit, Answer, Fail, Retry, Wake, Leave, MeasureError
      <3>2. CASE e # d
        BY <2>2, <2>3, <3>2
           DEF Step, Cancel, RefuseStale, Start, Begin, Admit, Answer, Fail, Retry, Wake, Leave, MeasureError,
               Conclude, Leaves, Ends
      <3> QED BY <3>1, <3>2
    <2>4. Conclude(d)
      BY <1>1, <2>3 DEF Next, Change, Tick, Finished, vars
    <2>5. recorded' = recorded \cup {d} /\ changed' = changed
          /\ outcome' = [outcome EXCEPT ![d] = IF InputsCurrent(d) THEN "decided" ELSE "stale"]
      BY <2>4 DEF Conclude, Ends
    <2> QED BY <2>2, <2>5 DEF InputsCurrent
  <1> QED BY <1>1, Invariant, PTL DEF Spec, DecidedOverCurrentInputs

-----------------------------------------------------------------------------
(* The decisions use the ledger as its own specification allows.           *)

\* A deadline the clock cannot reach is as good as the last one of the ledger.
LEMMA LedgerDeadline ==
  ASSUME TypeOK
  PROVE  \E deadline \in Ledger!Deadlines : now >= Deadline <=> now >= deadline
  <1>1. now \in 0..MaxTime /\ MaxTime \in Nat /\ Deadline \in Nat
    BY DecisionLimitsAssumption DEF TypeOK, Ledger!TypeOK
  <1> DEFINE deadline == IF Deadline <= MaxTime THEN Deadline ELSE MaxTime + 1
  <1>2. deadline \in 0..(MaxTime + 1) /\ (now >= Deadline <=> now >= deadline)
    BY <1>1
  <1> QED BY <1>2 DEF Ledger!Deadlines

LEMMA LedgerSteps ==
  ASSUME IInv, [Next]_vars
  PROVE  [Ledger!Next]_(Ledger!vars)
  <1>1. PICK deadline \in Ledger!Deadlines : now >= Deadline <=> now >= deadline
    BY LedgerDeadline DEF IInv
  <1>2. ASSUME NEW d \in Decisions, Step(d) \/ Cancel(d)
        PROVE  Ledger!Call \/ UNCHANGED ledger
    <2>1. CASE Start(d)
      <3>1. Ledger!EnterOperation(d, Deadline)
        BY <2>1 DEF Start
      <3>2. Ledger!EnterOperation(d, deadline)
        BY <1>1, <3>1 DEF Ledger!EnterOperation, Ledger!OperationReply
      <3> QED BY <3>2 DEF Ledger!Call
    <2>2. CASE Admit(d)
      <3>1. Ledger!AdmitProviderAttempt(<<d, number[d]>>, 1, Deadline)
        BY <2>2 DEF Admit
      <3>2. Ledger!AdmitProviderAttempt(<<d, number[d]>>, 1, deadline)
        BY <1>1, <3>1 DEF Ledger!AdmitProviderAttempt, Ledger!AttemptReply
      <3>3. number[d] \in 1..MaxAttempts
        <4>1. at[d] = "admitting"
          BY <2>2 DEF Admit
        <4>2. number[d] >= 1
          BY <4>1 DEF IInv, Numbered
        <4> QED BY <4>2, StateTypes
      <3>4. <<d, number[d]>> \in AttemptIds /\ 1 \in 1..1
        BY <3>3 DEF AttemptIds
      <3> QED BY <3>2, <3>4 DEF Ledger!Call
    <2>3. CASE Leave(d)
      <3>1. Ledger!LeaveOperation(d)
        BY <2>3 DEF Leave
      <3> QED BY <3>1 DEF Ledger!Call
    <2>4. CASE MeasureError(d) \/ Conclude(d)
      <3>1. PICK kind \in Looked : Ledger!Record(d, kind, "counted")
        BY <2>4 DEF MeasureError, Conclude, Looked
      <3>2. kind \in Ledger!Kinds /\ "counted" \in {"counted"}
        BY DEF Looked, Ledger!Kinds
      <3> QED BY <3>1, <3>2 DEF Ledger!Call
    <2>5. CASE RefuseStale(d) \/ Begin(d) \/ Answer(d) \/ Fail(d) \/ Retry(d) \/ Wake(d) \/ Cancel(d)
      BY <2>5 DEF RefuseStale, Begin, Answer, Fail, Retry, Wake, Cancel
    <2> QED BY <1>2, <2>1, <2>2, <2>3, <2>4, <2>5 DEF Step
  <1>3. CASE Tick
    BY <1>3 DEF Tick, Ledger!Next
  <1>4. CASE (\E e \in Sources : Change(e)) \/ Finished \/ UNCHANGED vars
    BY <1>4 DEF Change, Finished, vars, ledger, Ledger!vars
  <1> QED BY <1>2, <1>3, <1>4 DEF Next, Ledger!Next, Ledger!vars, ledger

\* For any decisions, limits and delays, everything the decisions do to the ledger is
\* what UsageLedger allows its callers, so that what is proved of every caller of the
\* ledger holds here (evaluate and admit_provider_attempt over limits.py).
THEOREM DecisionsUseTheLedger == Spec => Ledger!Spec
  <1>1. Init => Ledger!Init
    BY DEF Init
  <1>2. IInv /\ [Next]_vars => [Ledger!Next]_(Ledger!vars)
    BY LedgerSteps
  <1> QED BY <1>1, <1>2, Invariant, PTL DEF Spec, Ledger!Spec

-----------------------------------------------------------------------------
(* Progress, as far as it can be stated of steps. *)

\* How far a decision has come in one attempt, ...
Stage ==
  [idle |-> 0, entered |-> 1, admitting |-> 2, calling |-> 3, sleeping |-> 4,
   leaving |-> 5, measuring |-> 6, out |-> 7]

\* ... and in all of them.
Place(d) == 8 * number[d] + Stage[at[d]]

LastPlace == 8 * MaxAttempts + 7

\* A step of d takes it further, and no step of anyone takes a decision back.
Advances(d) ==
  /\ Place(d)' >= Place(d)
  /\ Step(d) \/ Cancel(d) => Place(d)' > Place(d)

\* No decision is further than out after its last attempt.
LEMMA PlaceTypes ==
  ASSUME TypeOK, NEW d \in Decisions
  PROVE  /\ number[d] \in Nat /\ Stage[at[d]] \in 0..7
         /\ Place(d) \in 0..LastPlace /\ (at[d] # "out" => Place(d) < LastPlace)
<1>1. number[d] \in 0..MaxAttempts
  BY DEF TypeOK
<1>2. Stage[at[d]] \in 0..7 /\ (at[d] # "out" => Stage[at[d]] < 7)
  BY DEF TypeOK, Stage
<1>3. MaxAttempts \in Nat
  BY DecisionLimitsAssumption
<1> QED BY <1>1, <1>2, <1>3 DEF Place, LastPlace

\* A decision moves to a later stage, or to its next attempt.
LEMMA StepTakesFurther ==
  ASSUME TypeOK, NEW d \in Decisions, Numbered(d), Step(d) \/ Cancel(d)
  PROVE  /\ Place(d)' \in Int /\ Place(d)' > Place(d)
         /\ \A e \in Decisions \ {d} : number'[e] = number[e] /\ at'[e] = at[e]
<1>1. number[d] \in Nat
  BY PlaceTypes
<1>2. CASE Begin(d) \/ Wake(d)
  <2>1. /\ \/ Stage[at[d]] = 1 /\ number[d] = 0 /\ number'[d] = 1 /\ Stage[at'[d]] = 2
           \/ Stage[at[d]] = 1 /\ number'[d] = number[d] /\ Stage[at'[d]] = 5
           \/ Stage[at[d]] = 4 /\ number'[d] = number[d] + 1 /\ Stage[at'[d]] = 2
        /\ \A e \in Decisions \ {d} : number'[e] = number[e] /\ at'[e] = at[e]
    BY <1>2 DEF Begin, Wake, Goes, Leaves, Stage, TypeOK, Numbered
  <2>2. Place(d)' = 8 * number'[d] + Stage[at'[d]]
    BY DEF Place, Stage
  <2>3. Place(d)' \in Int /\ Place(d)' > Place(d)
    BY <1>1, <2>1, <2>2 DEF Place
  <2> QED BY <2>1, <2>3
<1>3. CASE ~ (Begin(d) \/ Wake(d))
  <2>1. number' = number
    BY <1>3 DEF Step, RefuseStale, Start, Admit, Answer, Fail, Retry, Leave, MeasureError,
                Conclude, Cancel, progress
  <2>2. /\ Stage[at'[d]] > Stage[at[d]]
        /\ \A e \in Decisions \ {d} : at'[e] = at[e]
    BY <1>3 DEF Step, RefuseStale, Start, Admit, Answer, Fail, Retry, Leave, MeasureError,
                Conclude, Cancel, Goes, Leaves, Ends, Stage, TypeOK
  <2>3. Stage[at[d]] \in Int /\ Stage[at'[d]] \in Int
    <3>1. at'[d] \in {"idle", "entered", "admitting", "calling", "sleeping", "leaving",
                      "measuring", "out"}
      BY <1>3 DEF Step, RefuseStale, Start, Admit, Answer, Fail, Retry, Leave, MeasureError,
                Conclude, Cancel, Goes, Leaves, Ends, TypeOK
    <3> QED BY <3>1, PlaceTypes DEF Stage
  <2> QED BY <1>1, <2>1, <2>2, <2>3 DEF Place
<1> QED BY <1>2, <1>3

\* The steps of the others leave a decision where it is.
LEMMA EveryoneAdvances ==
  ASSUME IInv, [Next]_vars, NEW d \in Decisions
  PROVE  Advances(d)
<1>0. TypeOK /\ \A e \in Decisions : Numbered(e)
  BY DEF IInv
<1>1. Place(d) \in Int
  BY <1>0, PlaceTypes, DecisionLimitsAssumption DEF LastPlace
<1>2. CASE Step(d) \/ Cancel(d)
  <2>1. Place(d)' \in Int /\ Place(d)' > Place(d)
    BY <1>0, <1>2, StepTakesFurther
  <2> QED BY <1>2, <2>1, <1>1 DEF Advances
<1>3. ASSUME NEW e \in Decisions, Step(e) \/ Cancel(e), e # d, ~ (Step(d) \/ Cancel(d))
      PROVE  Advances(d)
  <2>1. number'[d] = number[d] /\ at'[d] = at[d]
    BY <1>0, <1>3, StepTakesFurther
  <2>2. Place(d)' = Place(d)
    BY <2>1 DEF Place
  <2> QED BY <1>1, <1>3, <2>2 DEF Advances
<1>4. CASE ~ (Step(d) \/ Cancel(d)) /\ UNCHANGED <<number, at>>
  <2>1. Place(d)' = Place(d)
    BY <1>4 DEF Place
  <2> QED BY <1>1, <1>4, <2>1 DEF Advances
<1> QED BY <1>2, <1>3, <1>4 DEF Next, Change, Tick, Finished, progress, vars

\* However an attempt fails and is retried, a decision takes at most LastPlace steps
\* and is then out, and neither another decision nor time takes it back: what its
\* attempts may cost is bounded by max_attempts alone (the loop of
\* TypeSafeProvider.evaluate).
THEOREM DecisionsGoForward ==
  Spec => /\ [](\A d \in Decisions : Place(d) \in 0..LastPlace
                                     /\ (at[d] # "out" => Place(d) < LastPlace))
          /\ [][\A d \in Decisions : Advances(d)]_vars
<1>1. TypeOK => \A d \in Decisions : Place(d) \in 0..LastPlace
                                     /\ (at[d] # "out" => Place(d) < LastPlace)
  BY PlaceTypes
<1>2. IInv /\ [Next]_vars => [\A d \in Decisions : Advances(d)]_vars
  BY EveryoneAdvances
<1> QED BY <1>1, <1>2, TypeCorrect, Invariant, PTL DEF Spec
=============================================================================
