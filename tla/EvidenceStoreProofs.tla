------------------------- MODULE EvidenceStoreProofs -------------------------
(***************************************************************************)
(* What EvidenceStore keeps for every set of ids and scopes and every      *)
(* bound: its types, well-founded provenance, indexes that agree with the  *)
(* records, invalidation that reaches all that derives from a record, no   *)
(* resurrection of a record that stopped being current, and views          *)
(* (EvidenceProjection) that are complete whatever order their worklist    *)
(* took.                                                                   *)
(***************************************************************************)
EXTENDS EvidenceProjection, WellFoundedInduction, FiniteSetTheorems, FunctionTheorems,
        SequenceTheorems, TLAPS

\* Insertion ranks are below the number of records, so a new record ranks last.
RanksBelowCount == \A id \in Known : records[id].position < count

IInv ==
  /\ TypeOK
  /\ IsFiniteSet(Known)
  /\ RanksBelowCount
  /\ ProvenanceWellFounded
  /\ IndexesAgree
  /\ SupersededIsStale

\* The three ways an addition can be made, with the record named: the form in
\* which the step lemmas use AddSome.
LEMMA AddSomeIsAdd ==
  ASSUME AddSome
  PROVE  \E id \in Ids \ Known : \E r \in [scope : Scopes, completed : BOOLEAN,
             dependencies : SUBSET Ids, supersedes : SUBSET Ids,
             conflicts : SUBSET Ids, expires : now..Never, position : {count}] :
           id \notin References(r) /\ Add(id, r)
<1>1. PICK id \in Ids \ Known, c \in ReferenceChoices, scope \in Scopes,
          completed \in BOOLEAN, expires \in now..Never :
        /\ id \notin References(c)
        /\ Add(id, NewRecord(c, scope, completed, expires))
  BY DEF AddSome
<1> DEFINE r == NewRecord(c, scope, completed, expires)
<1>2. r \in [scope : Scopes, completed : BOOLEAN, dependencies : SUBSET Ids,
             supersedes : SUBSET Ids, conflicts : SUBSET Ids,
             expires : now..Never, position : {count}]
  BY DEF NewRecord, ReferenceChoices
<1>3. id \notin References(r)
  BY <1>1 DEF References, NewRecord
<1> QED BY <1>1, <1>2, <1>3

\* What a step of Add does to the records, without the update notation.
LEMMA AddEffect ==
  ASSUME TypeOK, NEW id \in Ids \ Known,
         NEW r \in [scope : Scopes, completed : BOOLEAN, dependencies : SUBSET Ids,
                    supersedes : SUBSET Ids, conflicts : SUBSET Ids,
                    expires : now..Never, position : {count}],
         Add(id, r)
  PROVE  /\ Known' = Known \cup {id}
         /\ records'[id] = r
         /\ \A j \in Known : records'[j] = records[j]
         /\ r \in Record
         /\ References(r) \subseteq Known
         /\ count' = count + 1
         /\ now' = now
<1>1. records' = [j \in Known \cup {id} |-> IF j = id THEN r ELSE records[j]]
  BY DEF Add
<1>2. r \in Record
  BY TimeAssumption DEF TypeOK, Record, Never
<1>3. References(r) \subseteq Known
  BY DEF Add, ReferencesValid
<1> QED BY <1>1, <1>2, <1>3 DEF Known, Add

\* Invalidation only adds known records to the stale ones.
LEMMA StaleWithBounds ==
  ASSUME NEW store, NEW index, NEW ids
  PROVE  /\ stale \subseteq StaleWith(store, index, ids)
         /\ StaleWith(store, index, ids) \subseteq stale \cup DOMAIN store
BY DEF StaleWith, Affected

\* The set an invalidation affects contains its origin and is closed under the
\* dependents index.
LEMMA AffectedClosed ==
  ASSUME NEW known, NEW index, NEW id \in known,
         \A k \in known : index[k] \subseteq known
  PROVE  /\ id \in Affected(known, index, id)
         /\ \A k \in Affected(known, index, id) :
              index[k] \subseteq Affected(known, index, id)
<1>1. id \in Affected(known, index, id)
  BY DEF Affected
<1>2. ASSUME NEW k \in Affected(known, index, id), NEW d \in index[k]
      PROVE  d \in Affected(known, index, id)
  <2>1. d \in known
    BY <1>2 DEF Affected
  <2>2. ASSUME NEW C \in SUBSET known,
               id \in C, \A x \in C : index[x] \subseteq C
        PROVE  d \in C
    BY <1>2, <2>2 DEF Affected
  <2> QED BY <2>1, <2>2 DEF Affected
<1> QED BY <1>1, <1>2

-----------------------------------------------------------------------------
\* An empty store has nothing to disagree about.
LEMMA InitIInv == Init => IInv
<1> SUFFICES ASSUME Init PROVE IInv
  OBVIOUS
<1>1. Known = {}
  BY DEF Init, Known
<1>2. TypeOK
  BY <1>1, TimeAssumption DEF Init, TypeOK, Known
<1>3. IndexesAgree
  BY <1>1 DEF Init, IndexesAgree
<1> QED
  BY <1>1, <1>2, <1>3, FS_EmptySet
     DEF IInv, RanksBelowCount, ProvenanceWellFounded, SupersededIsStale

\* A new record only points back, and enters every index (EvidenceStore.add).
LEMMA AddIInv ==
  ASSUME IInv, NEW id \in Ids \ Known,
         NEW r \in [scope : Scopes, completed : BOOLEAN, dependencies : SUBSET Ids,
                    supersedes : SUBSET Ids, conflicts : SUBSET Ids,
                    expires : now..Never, position : {count}],
         id \notin References(r),
         Add(id, r)
  PROVE  IInv'
<1> USE DEF IInv
<1>1. /\ Known' = Known \cup {id}
      /\ records'[id] = r
      /\ \A j \in Known : records'[j] = records[j]
      /\ r \in Record
      /\ References(r) \subseteq Known
      /\ count' = count + 1
      /\ now' = now
  BY AddEffect
<1>2. dependents' = DependentsWith(id, r) /\ conflicts' = ConflictsWith(id, r)
  BY DEF Add
<1>3. stale \subseteq stale' /\ stale' \subseteq Known'
  <2>1. stale' = StaleWith(records', dependents', r.supersedes)
    BY DEF Add
  <2> QED BY <1>1, <2>1, StaleWithBounds DEF TypeOK, Known
<1>4. TypeOK'
  <2>1. records' \in [Known' -> Record]
    BY <1>1 DEF TypeOK, Known, Add
  <2>2. dependents' \in [Ids -> SUBSET Known']
    BY <1>1, <1>2 DEF TypeOK, DependentsWith
  <2>3. conflicts' \in [Ids -> SUBSET Known']
    BY <1>1, <1>2 DEF TypeOK, ConflictsWith, References
  <2> QED BY <1>1, <1>3, <2>1, <2>2, <2>3 DEF TypeOK
<1>5. RanksBelowCount'
  <2>1. \A j \in Known : records[j].position \in Nat
    BY DEF TypeOK, Record
  <2> QED BY <1>1, <2>1 DEF RanksBelowCount, TypeOK
<1>6. ProvenanceWellFounded'
  <2>1. ASSUME NEW j \in Known, NEW ref \in References(records[j])
        PROVE  /\ ref \in Known'
               /\ records'[ref].position < records'[j].position
               /\ records'[ref].scope = records'[j].scope
    BY <1>1, <2>1 DEF ProvenanceWellFounded
  <2>2. ASSUME NEW ref \in References(r)
        PROVE  /\ ref \in Known'
               /\ records'[ref].position < r.position
               /\ records'[ref].scope = r.scope
    BY <1>1, <2>2 DEF RanksBelowCount, Add, ReferencesValid
  <2> QED BY <1>1, <2>1, <2>2 DEF ProvenanceWellFounded
<1>7. IndexesAgree'
  <2>1. \A a \in Ids : dependents'[a] = {b \in Known' : a \in records'[b].dependencies}
    BY <1>1, <1>2 DEF IndexesAgree, DependentsWith
  <2>2. r.conflicts \subseteq Known /\ id \notin Known /\ r.conflicts \subseteq Ids
    BY <1>1 DEF References
  <2>3. \A b \in Known : records[b].conflicts \subseteq Known
    BY DEF ProvenanceWellFounded, References
  <2>4. conflicts'[id] = conflicts[id] \cup r.conflicts
    BY <1>2 DEF ConflictsWith
  <2>5. conflicts[id] = {}
    BY <2>2, <2>3 DEF IndexesAgree
  <2>6. conflicts'[id] = {b \in Known' : \/ id \in records'[b].conflicts
                                         \/ id \in Known' /\ b \in records'[id].conflicts}
    BY <1>1, <2>2, <2>3, <2>4, <2>5
  <2>7. ASSUME NEW a \in Ids, a # id
        PROVE  conflicts'[a] = {b \in Known' : \/ a \in records'[b].conflicts
                                               \/ a \in Known' /\ b \in records'[a].conflicts}
    <3>1. conflicts'[a] = IF a \in r.conflicts THEN conflicts[a] \cup {id}
                                               ELSE conflicts[a]
      BY <1>2, <2>7 DEF ConflictsWith
    <3>2. conflicts[a] = {b \in Known : \/ a \in records[b].conflicts
                                        \/ a \in Known /\ b \in records[a].conflicts}
      BY DEF IndexesAgree
    <3> QED BY <1>1, <2>2, <2>3, <2>7, <3>1, <3>2
  <2> QED BY <2>1, <2>6, <2>7 DEF IndexesAgree
<1>8. SupersededIsStale'
  <2>1. ASSUME NEW j \in Known, NEW s \in records[j].supersedes
        PROVE  records'[s].completed \/ s \in stale'
    <3>1. s \in Known
      BY DEF ProvenanceWellFounded, References
    <3> QED BY <1>1, <1>3, <3>1 DEF SupersededIsStale
  <2>2. ASSUME NEW s \in r.supersedes
        PROVE  records'[s].completed \/ s \in stale'
    <3>1. s \in DOMAIN records'
      BY <1>1 DEF References, Known
    <3>2. \A k \in DOMAIN records' : dependents'[k] \subseteq DOMAIN records'
      BY <1>4 DEF TypeOK, Known
    <3>3. s \in Affected(DOMAIN records', dependents', s)
      BY <3>1, <3>2, AffectedClosed
    <3> QED BY <3>3 DEF Add, StaleWith
  <2> QED BY <1>1, <2>1, <2>2 DEF SupersededIsStale
<1>9. IsFiniteSet(Known)'
  BY <1>1, FS_AddElement
<1> QED BY <1>4, <1>5, <1>6, <1>7, <1>8, <1>9

\* Invalidation only adds known ids to the stale set.
LEMMA InvalidateIInv ==
  ASSUME IInv, NEW id \in Known, Invalidate(id)
  PROVE  IInv'
<1> USE DEF IInv
<1>1. UNCHANGED <<records, count, dependents, conflicts, now>>
  BY DEF Invalidate
<1>2. stale \subseteq stale' /\ stale' \subseteq Known
  BY StaleWithBounds DEF Invalidate, TypeOK, Known
<1>3. TypeOK'
  BY <1>1, <1>2 DEF TypeOK, Known
<1> QED
  BY <1>1, <1>2, <1>3
     DEF RanksBelowCount, ProvenanceWellFounded, IndexesAgree,
         SupersededIsStale, Known

\* Every step keeps the invariant.
LEMMA NextIInv == IInv /\ [Next]_vars => IInv'
<1> SUFFICES ASSUME IInv, [Next]_vars PROVE IInv'
  OBVIOUS
<1>1. CASE AddSome
  BY <1>1, AddSomeIsAdd, AddIInv
<1>2. CASE InvalidateSome
  BY <1>2, InvalidateIInv DEF InvalidateSome
<1>3. CASE Tick
  BY <1>3, TimeAssumption
     DEF Tick, IInv, TypeOK, RanksBelowCount, ProvenanceWellFounded,
         IndexesAgree, SupersededIsStale, Known
<1>4. CASE UNCHANGED vars
  BY <1>4 DEF vars, IInv, TypeOK, RanksBelowCount, ProvenanceWellFounded,
              IndexesAgree, SupersededIsStale, Known
<1> QED BY <1>1, <1>2, <1>3, <1>4 DEF Next

-----------------------------------------------------------------------------
\* A step leaves every record it finds as it is, never marks one current again
\* and never turns the clock back.
LEMMA StoreOnlyGrows ==
  ASSUME IInv, [Next]_vars
  PROVE  /\ Known \subseteq Known'
         /\ \A id \in Known : records'[id] = records[id]
         /\ stale \subseteq stale'
         /\ now \in Int /\ now' \in Int /\ now <= now'
<1>1. now \in Int
  BY TimeAssumption DEF IInv, TypeOK
<1>2. CASE AddSome
  <2>1. PICK id \in Ids \ Known, r \in [scope : Scopes, completed : BOOLEAN,
               dependencies : SUBSET Ids, supersedes : SUBSET Ids,
               conflicts : SUBSET Ids, expires : now..Never, position : {count}] :
          Add(id, r)
    BY <1>2, AddSomeIsAdd
  <2>2. /\ Known' = Known \cup {id}
        /\ \A j \in Known : records'[j] = records[j]
        /\ now' = now
    BY <2>1, AddEffect DEF IInv
  <2>3. stale \subseteq stale'
    BY <2>1, StaleWithBounds DEF Add
  <2> QED BY <1>1, <2>2, <2>3
<1>3. CASE InvalidateSome
  <2>1. PICK id \in Known : Invalidate(id)
    BY <1>3 DEF InvalidateSome
  <2> QED BY <1>1, <2>1, StaleWithBounds DEF Invalidate, Known
<1>4. CASE Tick
  BY <1>1, <1>4, TimeAssumption DEF Tick, Known
<1>5. CASE UNCHANGED vars
  BY <1>1, <1>5 DEF vars, Known
<1> QED BY <1>2, <1>3, <1>4, <1>5 DEF Next

\* Whatever vouches for a known record after a step vouched for it before.
LEMMA SupportIsInherited ==
  ASSUME IInv, [Next]_vars, NEW id \in Known, Supported(id)'
  PROVE  Supported(id)
<1>1. PICK S \in SUBSET Known' : id \in S /\ Vouches(S)'
  BY DEF Supported
<1>2. /\ Known \subseteq Known'
      /\ \A j \in Known : records'[j] = records[j]
      /\ stale \subseteq stale'
      /\ now \in Int /\ now' \in Int /\ now <= now'
  BY StoreOnlyGrows
<1>3. ASSUME NEW s \in S \cap Known, ~ records[s].completed
      PROVE  /\ s \notin stale
             /\ ~ Expired(s, now)
             /\ records[s].dependencies \subseteq S \cap Known
  <2>1. /\ s \notin stale'
        /\ ~ (now' >= records[s].expires)
        /\ records[s].dependencies \subseteq S
    BY <1>1, <1>2, <1>3 DEF Vouches, Expired
  <2>2. records[s].dependencies \subseteq Known
    BY DEF IInv, ProvenanceWellFounded, References
  <2>3. records[s].expires \in Int
    BY TimeAssumption DEF IInv, TypeOK, Record, Never
  <2> QED BY <1>2, <2>1, <2>2, <2>3 DEF Expired
<1>4. Vouches(S \cap Known)
  BY <1>3 DEF Vouches
<1> QED BY <1>1, <1>4 DEF Supported

\* All that derives from a record an invalidation affects is affected by it:
\* the complement of the affected set is closed under dependencies.
LEMMA DerivedIsAffected ==
  ASSUME NEW known, NEW store, NEW index, NEW origin \in known,
         \A k \in known : index[k] = {b \in known : k \in store[b].dependencies},
         NEW id \in known,
         NEW a \in Affected(known, index, origin),
         \A C \in SUBSET known :
           (id \in C /\ \A k \in C : store[k].dependencies \subseteq C) => a \in C,
         \A k \in known : store[k].dependencies \subseteq known
  PROVE  id \in Affected(known, index, origin)
<1> DEFINE A == Affected(known, index, origin)
           C == known \ A
<1>1. \A k \in A : index[k] \subseteq A
  BY AffectedClosed
<1>2. SUFFICES ASSUME id \notin A PROVE FALSE
  OBVIOUS
<1>3. ASSUME NEW k \in C, NEW d \in store[k].dependencies
      PROVE  d \in C
  <2>1. SUFFICES ASSUME d \in A PROVE FALSE
    BY <1>3
  <2>2. k \in index[d]
    BY <1>3, <2>1 DEF Affected
  <2> QED BY <1>1, <1>3, <2>1, <2>2
<1>4. a \in C
  BY <1>2, <1>3
<1> QED BY <1>4

\* A step that makes a record stale makes everything stale that had been
\* derived from it, completed executions apart.
LEMMA StalenessReachesDerived ==
  ASSUME IInv, [Next]_vars, NEW id \in Known, ~ records[id].completed,
         NEW a \in Ancestors(id), a \in stale', a \notin stale
  PROVE  id \in stale'
<1> DEFINE Reaches(known, store) ==
      \A C \in SUBSET known :
        (id \in C /\ \A k \in C : store[k].dependencies \subseteq C) => a \in C
<1>1. Reaches(Known, records)
  BY DEF Ancestors
<1>2. CASE AddSome
  <2>1. PICK n \in Ids \ Known, r \in [scope : Scopes, completed : BOOLEAN,
               dependencies : SUBSET Ids, supersedes : SUBSET Ids,
               conflicts : SUBSET Ids, expires : now..Never, position : {count}] :
          n \notin References(r) /\ Add(n, r)
    BY <1>2, AddSomeIsAdd
  <2>2. /\ Known' = Known \cup {n}
        /\ records'[n] = r
        /\ \A j \in Known : records'[j] = records[j]
        /\ References(r) \subseteq Known
    BY <2>1, AddEffect DEF IInv
  <2>3. IInv'
    BY NextIInv
  <2>4. PICK s \in r.supersedes : a \in Affected(Known', dependents', s)
    BY <2>1, ZenonT(60) DEF Add, StaleWith, Known
  <2>5. s \in Known'
    BY <2>2 DEF References
  <2>6. \A k \in Known' : dependents'[k] = {b \in Known' : k \in records'[b].dependencies}
    BY <2>3 DEF IInv, IndexesAgree, TypeOK
  <2>7. \A k \in Known' : records'[k].dependencies \subseteq Known'
    BY <2>3 DEF IInv, ProvenanceWellFounded, References
  <2>8. Reaches(Known', records')
    <3>1. SUFFICES ASSUME NEW C \in SUBSET Known', id \in C,
                          \A k \in C : records'[k].dependencies \subseteq C
                   PROVE  a \in C
      OBVIOUS
    <3>2. \A k \in C \cap Known : records[k].dependencies \subseteq C \cap Known
      BY <2>2, <3>1 DEF IInv, ProvenanceWellFounded, References
    <3> QED BY <1>1, <3>1, <3>2
  <2>9. id \in Affected(Known', dependents', s)
    <3>1. id \in Known'
      BY <2>2
    <3> HIDE DEF Reaches
    <3>2. \A C \in SUBSET Known' :
            (id \in C /\ \A k \in C : records'[k].dependencies \subseteq C) => a \in C
      BY <2>8 DEF Reaches
    <3> QED BY <3>1, <2>4, <2>5, <2>6, <2>7, <3>2, DerivedIsAffected
  <2> QED BY <2>1, <2>2, <2>4, <2>9 DEF Add, StaleWith, Known
<1>3. CASE InvalidateSome
  <2>1. PICK o \in Known : Invalidate(o)
    BY <1>3 DEF InvalidateSome
  <2>2. a \in Affected(Known, dependents, o)
    BY <2>1 DEF Invalidate, StaleWith, Known
  <2>3. \A k \in Known : dependents[k] = {b \in Known : k \in records[b].dependencies}
    BY DEF IInv, IndexesAgree, TypeOK
  <2>4. \A k \in Known : records[k].dependencies \subseteq Known
    BY DEF IInv, ProvenanceWellFounded, References
  <2>5. id \in Affected(Known, dependents, o)
    BY <1>1, <2>2, <2>3, <2>4, DerivedIsAffected
  <2> QED BY <2>1, <2>5 DEF Invalidate, StaleWith, Known
<1>4. CASE Tick
  BY <1>4 DEF Tick
<1>5. CASE UNCHANGED vars
  BY <1>5 DEF vars
<1> QED BY <1>2, <1>3, <1>4, <1>5 DEF Next

-----------------------------------------------------------------------------
\* The inductive invariant holds throughout.
LEMMA SpecIInv == Spec => []IInv
BY InitIInv, NextIInv, PTL DEF Spec

\* Every state of the store is well typed (state.py:EvidenceStore).
THEOREM TypeCorrect == Spec => []TypeOK
BY SpecIInv, PTL DEF IInv

\* Provenance only points backwards and never crosses a scope, so is_current's
\* recursion ends and its cycle error is unreachable.
THEOREM ProvenanceCorrect == Spec => []ProvenanceWellFounded
BY SpecIInv, PTL DEF IInv

\* The indexes that invalidate and project follow always match the records.
THEOREM IndexesCorrect == Spec => []IndexesAgree
BY SpecIInv, PTL DEF IInv

\* What a record supersedes is stale for good, completed executions apart.
THEOREM SupersessionCorrect == Spec => []SupersededIsStale
BY SpecIInv, PTL DEF IInv

\* No step makes a record current that was not.
THEOREM StaleForGood == Spec => NoResurrection
<1>1. IInv /\ [Next]_vars => [\A id \in Known : ~ Supported(id) => ~ Supported(id)']_vars
  BY SupportIsInherited
<1> QED BY <1>1, SpecIInv, PTL DEF Spec, NoResurrection

\* An invalidation reaches everything already derived from its target.
THEOREM InvalidationIsTransitive == Spec => InvalidationReachesDerived
<1>1. IInv /\ [Next]_vars =>
        [\A id \in Known :
           (Ancestors(id) \cap (stale' \ stale) # {} /\ ~ records[id].completed)
             => id \in stale']_vars
  BY StalenessReachesDerived
<1> QED BY <1>1, SpecIInv, PTL DEF Spec, InvalidationReachesDerived

-----------------------------------------------------------------------------
\* One unfolding of is_current: what a record's currency is, given that of its
\* dependencies.
Unfolded(f) ==
  [id \in Known |->
     \/ records[id].completed
     \/ /\ id \notin stale
        /\ ~ Expired(id, now)
        /\ \A d \in records[id].dependencies : f[d]]

\* The recursion of is_current has a solution, although the records are not
\* walked through: being supported is one.
LEMMA SupportUnfolds ==
  ASSUME ProvenanceWellFounded
  PROVE  LET f == [id \in Known |-> Supported(id)] IN f = Unfolded(f)
<1> DEFINE f == [id \in Known |-> Supported(id)]
<1>1. ASSUME NEW id \in Known
      PROVE  Supported(id) <=> Unfolded(f)[id]
  <2>1. \A d \in records[id].dependencies : d \in Known
    BY DEF ProvenanceWellFounded, References
  <2>2. ASSUME Supported(id) PROVE Unfolded(f)[id]
    <3>1. PICK S \in SUBSET Known : id \in S /\ Vouches(S)
      BY <2>2 DEF Supported
    <3>2. \A d \in S : Supported(d)
      BY <3>1 DEF Supported
    <3> QED BY <2>1, <3>1, <3>2 DEF Vouches, Unfolded
  <2>3. ASSUME Unfolded(f)[id] PROVE Supported(id)
    <3> DEFINE S == {d \in Known : Supported(d)} \cup {id}
    <3>1. ASSUME NEW d \in Known, Supported(d)
          PROVE  \/ records[d].completed
                 \/ /\ d \notin stale
                    /\ ~ Expired(d, now)
                    /\ records[d].dependencies \subseteq S
      <4>1. PICK V \in SUBSET Known : d \in V /\ Vouches(V)
        BY <3>1 DEF Supported
      <4>2. \A e \in V : e \in S
        BY <4>1 DEF Supported
      <4> HIDE DEF S
      <4> QED BY <4>1, <4>2 DEF Vouches
    <3>2. \/ records[id].completed
          \/ /\ id \notin stale
             /\ ~ Expired(id, now)
             /\ records[id].dependencies \subseteq S
      BY <2>1, <2>3 DEF Unfolded
    <3>3. Vouches(S)
      BY <3>1, <3>2 DEF Vouches
    <3> QED BY <3>3 DEF Supported
  <2> QED BY <2>2, <2>3
<1>2. f = [id \in Known |-> Supported(id)] /\ Unfolded(f) = [id \in Known |-> Unfolded(f)[id]]
  BY DEF Unfolded
<1>3. \A id \in Known : Supported(id) \in BOOLEAN /\ Unfolded(f)[id] \in BOOLEAN
  BY DEF Supported, Unfolded
<1>4. \A id \in Known : f[id] = Unfolded(f)[id]
  BY <1>1, <1>3
<1> QED BY <1>2, <1>4, Zenon

\* So what the code computes is a solution too.
LEMMA CurrencyUnfolds ==
  ASSUME ProvenanceWellFounded
  PROVE  CurrentAt(now) = Unfolded(CurrentAt(now))
<1>1. \E f : f = Unfolded(f)
  BY SupportUnfolds
<1>2. CurrentAt(now) = CHOOSE f : f = Unfolded(f)
  BY DEF CurrentAt, Unfolded
<1> QED BY <1>1, <1>2

\* There is one solution only: provenance points back, so a record on which two
\* differ rests on an earlier one.
LEMMA CurrentIsSupported ==
  ASSUME TypeOK, ProvenanceWellFounded, NEW id \in Known
  PROVE  IsCurrent(id) <=> Supported(id)
<1> DEFINE f == CurrentAt(now)
           T == {n \in Nat : \E j \in Known : /\ records[j].position = n
                                              /\ ~ (f[j] <=> Supported(j))}
<1>1. /\ f = Unfolded(f)
      /\ \A j \in Known : f[j] = Unfolded(f)[j]
  BY CurrencyUnfolds
<1>2. ASSUME NEW j \in Known
      PROVE  Supported(j) <=> \/ records[j].completed
                              \/ /\ j \notin stale
                                 /\ ~ Expired(j, now)
                                 /\ \A d \in records[j].dependencies : Supported(d)
  <2> DEFINE g == [k \in Known |-> Supported(k)]
  <2>1. \A d \in records[j].dependencies : d \in Known
    BY DEF ProvenanceWellFounded, References
  <2>2. g = Unfolded(g)
    BY SupportUnfolds
  <2>3. g[j] = Supported(j)
    OBVIOUS
  <2>4. g[j] = Unfolded(g)[j]
    BY <2>2
  <2> QED BY <2>1, <2>3, <2>4 DEF Unfolded
<1>3. SUFFICES ASSUME T # {} PROVE FALSE
  <2>1. records[id].position \in Nat
    BY DEF TypeOK, Record
  <2> QED BY <2>1 DEF IsCurrent
<1>4. PICK n \in T : \A m \in T : <<m, n>> \notin OpToRel(<, Nat)
  <2> HIDE DEF T
  <2>1. IsWellFoundedOn(OpToRel(<, Nat), Nat)
    BY NatLessThanWellFounded
  <2>2. T \subseteq Nat
    BY DEF T
  <2> QED BY <1>3, <2>1, <2>2, WFMin
<1>5. PICK j \in Known : records[j].position = n /\ ~ (f[j] <=> Supported(j))
  OBVIOUS
<1>6. ASSUME NEW d \in records[j].dependencies
      PROVE  d \in Known /\ (f[d] <=> Supported(d))
  <2>1. d \in Known /\ records[d].position < n
    BY <1>5 DEF ProvenanceWellFounded, References
  <2>2. records[d].position \in Nat
    BY <2>1 DEF TypeOK, Record
  <2>3. <<records[d].position, n>> \in OpToRel(<, Nat)
    BY <2>1, <2>2 DEF OpToRel
  <2> QED BY <1>4, <2>1, <2>2, <2>3
<1>7. f[j] <=> \/ records[j].completed
               \/ /\ j \notin stale
                  /\ ~ Expired(j, now)
                  /\ \A d \in records[j].dependencies : f[d]
  <2> HIDE DEF f
  <2> QED BY <1>1 DEF Unfolded
<1> HIDE DEF f
<1> QED BY <1>2, <1>5, <1>6, <1>7

\* is_current answers what a record's support says, in every reachable store.
THEOREM CurrencyIsSound == Spec => []CurrencyIsSupport
<1>1. IInv => CurrencyIsSupport
  BY CurrentIsSupported DEF IInv, CurrencyIsSupport
<1> QED BY <1>1, SpecIInv, PTL

-----------------------------------------------------------------------------
(* The worklist of project.                                                *)

\* The last element of a nonempty sequence and what is before it.
LEMMA Popped ==
  ASSUME NEW S, NEW s \in Seq(S), s # <<>>
  PROVE  /\ s[Len(s)] \in S
         /\ SubSeq(s, 1, Len(s) - 1) \in Seq(S)
         /\ Len(SubSeq(s, 1, Len(s) - 1)) = Len(s) - 1
         /\ Len(s) \in Nat \ {0}
         /\ Range(s) = Range(SubSeq(s, 1, Len(s) - 1)) \cup {s[Len(s)]}
<1>1. Len(s) \in Nat \ {0} /\ DOMAIN s = 1..Len(s)
  BY EmptySeq, LenProperties
<1> DEFINE n == Len(s) - 1
<1>2. n \in Nat /\ Len(s) = n + 1
  BY <1>1
<1> HIDE DEF n
<1>3. \A i \in 1..(n + 1) : s[i] \in S
  BY <1>2, ElementOfSeq
<1>4. /\ SubSeq(s, 1, Len(s) - 1) \in Seq(S)
      /\ Len(SubSeq(s, 1, Len(s) - 1)) = n
      /\ \A i \in 1..n : SubSeq(s, 1, Len(s) - 1)[i] = s[i]
  <2>1. \A i \in 1..n : s[i] \in S
    BY <1>2, <1>3
  <2>2. /\ SubSeq(s, 1, n) \in Seq(S)
        /\ Len(SubSeq(s, 1, n)) = IF 1 <= n THEN n - 1 + 1 ELSE 0
        /\ \A i \in 1..(n - 1 + 1) : SubSeq(s, 1, n)[i] = s[1 + i - 1]
    BY <1>2, <2>1, SubSeqProperties
  <2>3. n - 1 + 1 = n /\ \A i \in 1..n : 1 + i - 1 = i
    BY <1>2
  <2> QED BY <1>2, <2>2, <2>3
<1>5. DOMAIN SubSeq(s, 1, Len(s) - 1) = 1..n
  BY <1>4, LenProperties
<1>6. Range(s) = Range(SubSeq(s, 1, Len(s) - 1)) \cup {s[Len(s)]}
  <2>1. Range(s) = {s[i] : i \in 1..(n + 1)} /\ s[Len(s)] = s[n + 1]
    BY <1>1, <1>2 DEF Range
  <2>2. Range(SubSeq(s, 1, Len(s) - 1)) = {s[i] : i \in 1..n}
    BY <1>4, <1>5 DEF Range
  <2>3. \A i \in 1..(n + 1) : i \in 1..n \/ i = n + 1
    BY <1>2
  <2>4. 1..n \subseteq 1..(n + 1) /\ n + 1 \in 1..(n + 1)
    BY <1>2
  <2> QED BY <2>1, <2>2, <2>3, <2>4
<1> QED BY <1>1, <1>2, <1>3, <1>4, <1>6

LEMMA Pushed ==
  ASSUME NEW S, NEW s \in Seq(S), NEW t \in Seq(S)
  PROVE  /\ s \o t \in Seq(S)
         /\ Len(s \o t) = Len(s) + Len(t)
         /\ Range(s \o t) = Range(s) \cup Range(t)
<1> DEFINE m == Len(s)
           n == Len(t)
           st == s \o t
<1>1. /\ m \in Nat /\ DOMAIN s = 1..m
      /\ n \in Nat /\ DOMAIN t = 1..n
  BY LenProperties
<1>2. /\ st \in Seq(S) /\ Len(st) = m + n
      /\ \A i \in 1..(m + n) : st[i] = IF i <= m THEN s[i] ELSE t[i - m]
  BY ConcatProperties
<1>3. DOMAIN st = 1..(m + n)
  BY <1>2, LenProperties
<1>4. Range(st) \subseteq Range(s) \cup Range(t)
  <2>1. SUFFICES ASSUME NEW i \in 1..(m + n) PROVE st[i] \in Range(s) \cup Range(t)
    BY <1>3 DEF Range
  <2>2. i <= m => i \in 1..m
    BY <1>1
  <2>3. ~ (i <= m) => i - m \in 1..n
    BY <1>1
  <2> QED BY <1>1, <1>2, <2>2, <2>3 DEF Range
<1>5. Range(s) \subseteq Range(st)
  <2>1. SUFFICES ASSUME NEW i \in 1..m PROVE s[i] \in Range(st)
    BY <1>1 DEF Range
  <2>2. i \in 1..(m + n) /\ i <= m
    BY <1>1
  <2>3. st[i] = s[i]
    BY <1>2, <2>2
  <2> QED BY <1>3, <2>2, <2>3 DEF Range
<1>6. Range(t) \subseteq Range(st)
  <2>1. SUFFICES ASSUME NEW i \in 1..n PROVE t[i] \in Range(st)
    BY <1>1 DEF Range
  <2>2. i + m \in 1..(m + n) /\ ~ (i + m <= m) /\ (i + m) - m = i
    BY <1>1
  <2>3. st[i + m] = t[i]
    BY <1>2, <2>2
  <2> QED BY <1>3, <2>2, <2>3 DEF Range
<1> QED BY <1>2, <1>4, <1>5, <1>6

\* There is an order of a finite set, and any order of it has all its elements.
LEMMA Orders ==
  ASSUME NEW S, IsFiniteSet(S)
  PROVE  /\ OrdersOf(S) # {}
         /\ \A s \in OrdersOf(S) :
              s \in Seq(S) /\ Len(s) = Cardinality(S) /\ Range(s) = S
<1> DEFINE n == Cardinality(S)
           D == 1..n
<1>1. n \in Nat /\ ExistsBijection(D, S)
  BY FS_CardinalityType
<1>2. OrdersOf(S) = Bijection(D, S)
  BY DEF OrdersOf
<1>3. OrdersOf(S) # {}
  BY <1>1, <1>2 DEF ExistsBijection
<1>4. ASSUME NEW s \in OrdersOf(S)
      PROVE  s \in Seq(S) /\ Len(s) = n /\ Range(s) = S
  <2>1. s \in [D -> S] /\ \A x \in S : \E i \in D : s[i] = x
    BY <1>2 DEF Bijection, Injection, Surjection
  <2>2. s \in Seq(S)
    BY <1>1, <2>1, SeqDef
  <2>3. Len(s) = n
    <3>1. DOMAIN s = 1..Len(s) /\ Len(s) \in Nat /\ DOMAIN s = 1..n
      BY <2>1, <2>2, LenProperties
    <3> QED BY <1>1, <3>1
  <2>4. Range(s) = S
    BY <2>1 DEF Range
  <2> QED BY <2>2, <2>3, <2>4
<1> QED BY <1>3, <1>4

Items == [id : Known, mustBeCurrent : BOOLEAN]

LEMMA SameLength == \A m, n \in Nat : 1..m = 1..n => m = n
<1> SUFFICES ASSUME NEW m \in Nat, NEW n \in Nat, 1..m = 1..n, m # n PROVE FALSE
  OBVIOUS
<1>1. CASE m < n
  BY <1>1, n \in 1..n
<1>2. CASE n < m
  BY <1>2, m \in 1..m
<1> QED BY <1>1, <1>2

LEMMA PendingAllOf ==
  ASSUME NEW S \in SUBSET Known, NEW s \in Seq(S), NEW demand \in BOOLEAN
  PROVE  /\ PendingAll(s, demand) \in Seq(Items)
         /\ Len(PendingAll(s, demand)) = Len(s)
         /\ Range(PendingAll(s, demand)) = {Pending(id, demand) : id \in Range(s)}
<1> DEFINE p == PendingAll(s, demand)
<1>1. Len(s) \in Nat /\ DOMAIN s = 1..Len(s) /\ \A i \in 1..Len(s) : s[i] \in Known
  BY LenProperties, ElementOfSeq
<1>2. p \in [1..Len(s) -> Items]
  BY <1>1 DEF PendingAll, Pending, Items
<1>3. p \in Seq(Items)
  <2> HIDE DEF p
  <2>1. Seq(Items) = UNION {[1..n -> Items] : n \in Nat}
    BY SeqDef, Zenon
  <2> QED BY <1>1, <1>2, <2>1, Zenon
<1>4. Len(p) = Len(s)
  <2>1. DOMAIN p = 1..Len(p) /\ Len(p) \in Nat /\ DOMAIN p = 1..Len(s)
    BY <1>2, <1>3, LenProperties
  <2> HIDE DEF p
  <2> QED BY <1>1, <2>1, SameLength
<1>5. Range(p) = {Pending(id, demand) : id \in Range(s)}
  BY <1>1 DEF Range, PendingAll
<1> QED BY <1>3, <1>4, <1>5

\* What an item pushes: there is an order to push it in, and in any order it is
\* the dependencies under the same demand and the conflicts under none.
LEMMA LinkedItems ==
  ASSUME IsFiniteSet(Known), TypeOK, ProvenanceWellFounded, NEW item \in Items
  PROVE  /\ Linked(item) # {}
         /\ \A links \in Linked(item) :
              /\ links \in Seq(Items)
              /\ Len(links) <= 2 * Cardinality(Known)
              /\ Range(links) =
                   {Pending(d, item.mustBeCurrent) : d \in records[item.id].dependencies}
                     \cup {Pending(c, FALSE) : c \in conflicts[item.id]}
<1> DEFINE D == records[item.id].dependencies
           C == conflicts[item.id]
           demand == item.mustBeCurrent
<1>1. item.id \in Known /\ demand \in BOOLEAN /\ item.id \in Ids
  BY DEF Items, TypeOK
<1>2. D \in SUBSET Known /\ C \in SUBSET Known
  BY <1>1 DEF ProvenanceWellFounded, References, TypeOK
<1>3. /\ IsFiniteSet(D) /\ Cardinality(D) <= Cardinality(Known)
      /\ IsFiniteSet(C) /\ Cardinality(C) <= Cardinality(Known)
  BY <1>2, FS_Subset
<1>4. Cardinality(D) \in Nat /\ Cardinality(C) \in Nat /\ Cardinality(Known) \in Nat
  BY <1>3, FS_CardinalityType
<1> DEFINE pushed(d, c) == PendingAll(d, demand) \o PendingAll(c, FALSE)
<1>5. Linked(item) = {pushed(d, c) : d \in OrdersOf(D), c \in OrdersOf(C)}
  BY DEF Linked
<1> HIDE DEF D, C, demand, pushed
<1>6. /\ OrdersOf(D) # {}
      /\ \A d \in OrdersOf(D) : d \in Seq(D) /\ Len(d) = Cardinality(D) /\ Range(d) = D
      /\ OrdersOf(C) # {}
      /\ \A c \in OrdersOf(C) : c \in Seq(C) /\ Len(c) = Cardinality(C) /\ Range(c) = C
  BY <1>3, Orders
<1>7. ASSUME NEW d \in OrdersOf(D), NEW c \in OrdersOf(C)
      PROVE  LET links == pushed(d, c) IN
             /\ links \in Seq(Items)
             /\ Len(links) <= 2 * Cardinality(Known)
             /\ Range(links) = {Pending(x, demand) : x \in D} \cup {Pending(x, FALSE) : x \in C}
  <2>1. /\ PendingAll(d, demand) \in Seq(Items)
        /\ Len(PendingAll(d, demand)) = Cardinality(D)
        /\ Range(PendingAll(d, demand)) = {Pending(x, demand) : x \in D}
    BY <1>1, <1>2, <1>6, PendingAllOf
  <2>2. /\ PendingAll(c, FALSE) \in Seq(Items)
        /\ Len(PendingAll(c, FALSE)) = Cardinality(C)
        /\ Range(PendingAll(c, FALSE)) = {Pending(x, FALSE) : x \in C}
    BY <1>2, <1>6, PendingAllOf
  <2> DEFINE p == PendingAll(d, demand)
             q == PendingAll(c, FALSE)
  <2> HIDE DEF p, q
  <2>3. /\ p \o q \in Seq(Items) /\ Len(p \o q) = Len(p) + Len(q)
        /\ Range(p \o q) = Range(p) \cup Range(q)
    <3>1. p \in Seq(Items) /\ q \in Seq(Items)
      BY <2>1, <2>2 DEF p, q
    <3> QED BY <3>1, Pushed
  <2>4. Len(p) + Len(q) <= 2 * Cardinality(Known)
    <3>1. Len(p) = Cardinality(D) /\ Len(q) = Cardinality(C)
      BY <2>1, <2>2 DEF p, q
    <3> QED BY <1>3, <1>4, <3>1
  <2> QED BY <2>1, <2>2, <2>3, <2>4 DEF p, q, pushed
<1>8. Linked(item) # {}
  <2>1. PICK d \in OrdersOf(D), c \in OrdersOf(C) : TRUE
    BY <1>6
  <2>2. pushed(d, c) \in Linked(item)
    BY <1>5
  <2> QED BY <2>2
<1>9. ASSUME NEW links \in Linked(item)
      PROVE  /\ links \in Seq(Items)
             /\ Len(links) <= 2 * Cardinality(Known)
             /\ Range(links) = {Pending(x, demand) : x \in D} \cup {Pending(x, FALSE) : x \in C}
  <2>1. PICK d \in OrdersOf(D), c \in OrdersOf(C) :
          links = pushed(d, c)
    BY <1>5
  <2> QED BY <1>7, <2>1
<1> QED BY <1>8, <1>9 DEF D, C, demand

-----------------------------------------------------------------------------
(* The least closed sets a view is compared with.                          *)

LEMMA CompleteViewIsLeast ==
  ASSUME ProvenanceWellFounded, NEW ids \in SUBSET Known
  PROVE  /\ CompleteView(ids) \subseteq Known
         /\ ids \subseteq CompleteView(ids)
         /\ \A id \in CompleteView(ids) : DependenciesAndConflicts(id) \subseteq CompleteView(ids)
         /\ \A C \in SUBSET Known :
              /\ ids \subseteq C
              /\ \A id \in C : DependenciesAndConflicts(id) \subseteq C
              => CompleteView(ids) \subseteq C
<1>1. CompleteView(ids) =
        {j \in Known : \A C \in SUBSET Known :
           (ids \subseteq C /\ \A k \in C : DependenciesAndConflicts(k) \subseteq C) => j \in C}
  BY DEF CompleteView, ClosedUnder
<1>2. \A id \in Known : DependenciesAndConflicts(id) \subseteq Known
  BY DEF DependenciesAndConflicts, ConflictsOf, ProvenanceWellFounded, References
<1>3. ASSUME NEW id \in CompleteView(ids), NEW d \in DependenciesAndConflicts(id)
      PROVE  d \in CompleteView(ids)
  BY <1>1, <1>2
<1> QED BY <1>1, <1>3

\* The conflict index is what the records say.
LEMMA IndexedConflicts ==
  ASSUME TypeOK, ProvenanceWellFounded, IndexesAgree, NEW id \in Known
  PROVE  conflicts[id] = ConflictsOf(id)
BY DEF TypeOK, IndexesAgree, ConflictsOf

LEMMA ContradictingIsClosed ==
  ASSUME ProvenanceWellFounded, NEW ids \in SUBSET Known
  PROVE  /\ \A id \in CompleteView(ids) : ConflictsOf(id) \subseteq Contradicting(ids)
         /\ \A id \in Contradicting(ids) : records[id].dependencies \subseteq Contradicting(ids)
<1> DEFINE S == UNION {ConflictsOf(id) : id \in CompleteView(ids)}
<1>1. S \in SUBSET Known
  BY DEF ConflictsOf
<1>2. /\ S \subseteq CompleteView(S)
      /\ \A id \in CompleteView(S) : DependenciesAndConflicts(id) \subseteq CompleteView(S)
  <2> HIDE DEF S
  <2> QED BY <1>1, CompleteViewIsLeast
<1> QED BY <1>2 DEF Contradicting, DependenciesAndConflicts

-----------------------------------------------------------------------------
(* The loop of project, turn by turn.                                      *)

\* A set of numbers with 0 and with every successor of its own is all of them.
LEMMA AllNumbers ==
  ASSUME NEW T \in SUBSET Nat, 0 \in T, \A n \in T : n + 1 \in T
  PROVE  T = Nat
<1> SUFFICES ASSUME Nat \ T # {} PROVE FALSE
  OBVIOUS
<1>1. PICK n \in Nat \ T : \A m \in Nat \ T : <<m, n>> \notin OpToRel(<, Nat)
  <2>1. IsWellFoundedOn(OpToRel(<, Nat), Nat)
    BY NatLessThanWellFounded
  <2> DEFINE C == Nat \ T
  <2>2. C \subseteq Nat /\ C # {}
    OBVIOUS
  <2> HIDE DEF C
  <2>3. \E x \in C : \A y \in C : <<y, x>> \notin OpToRel(<, Nat)
    BY <2>1, <2>2, WFMin
  <2> QED BY <2>3 DEF C
<1>2. n # 0 /\ n - 1 \in Nat
  OBVIOUS
<1>3. <<n - 1, n>> \in OpToRel(<, Nat)
  BY <1>2 DEF OpToRel
<1>4. n - 1 \in T
  BY <1>1, <1>2, <1>3
<1> QED BY <1>2, <1>4

Start(ids) == [queue |-> PendingAll(ids, TRUE), included |-> {}, refused |-> "none"]

AllTurns(W, scope) == UNION {Turn(w, scope) : w \in W}

\* f says where the loop may be after each of its first m turns.
IsWalk(f, m, ids, scope) ==
  f = [n \in 0..m |-> IF n = 0 THEN {Start(ids)} ELSE UNION {Turn(w, scope) : w \in f[n - 1]}]

LEMMA WalksExist ==
  ASSUME NEW m \in Nat, NEW ids, NEW scope
  PROVE  \E f : IsWalk(f, m, ids, scope)
<1> DEFINE T == {n \in Nat : \E f : IsWalk(f, n, ids, scope)}
           After(W) == UNION {Turn(w, scope) : w \in W}
<1>1. 0 \in T
  <2>1. IsWalk([n \in 0..0 |-> {Start(ids)}], 0, ids, scope)
    BY DEF IsWalk
  <2> QED BY <2>1
<1>2. ASSUME NEW n \in T PROVE n + 1 \in T
  <2>1. PICK f : IsWalk(f, n, ids, scope)
    OBVIOUS
  <2> DEFINE next == After(f[n])
             g == [k \in 0..(n + 1) |-> IF k = n + 1 THEN next ELSE f[k]]
  <2>2. ASSUME NEW k \in 0..(n + 1)
        PROVE  g[k] = IF k = 0 THEN {Start(ids)} ELSE After(g[k - 1])
    <3>1. CASE k = 0
      <4>1. g[k] = f[0] /\ 0 \in 0..n
        BY <3>1
      <4>2. f[0] = {Start(ids)}
        BY <2>1, <4>1 DEF IsWalk
      <4> HIDE DEF g
      <4> QED BY <3>1, <4>1, <4>2
    <3>2. CASE k = n + 1
      <4>1. g[k - 1] = f[n] /\ g[k] = next
        BY <3>2
      <4> HIDE DEF g
      <4> QED BY <3>2, <4>1
    <3>3. CASE k # 0 /\ k # n + 1
      <4>1. k \in 0..n /\ k - 1 \in 0..n
        BY <3>3
      <4>2. g[k - 1] = f[k - 1] /\ g[k] = f[k]
        BY <3>3, <4>1
      <4>3. f[k] = After(f[k - 1])
        <5> DEFINE h == [l \in 0..n |-> IF l = 0 THEN {Start(ids)} ELSE After(f[l - 1])]
        <5>1. f = h
          BY <2>1 DEF IsWalk
        <5>2. h[k] = After(f[k - 1])
          BY <3>3, <4>1
        <5> QED BY <5>1, <5>2
      <4> HIDE DEF g
      <4> QED BY <3>3, <4>2, <4>3
    <3> QED BY <3>1, <3>2, <3>3
  <2>3. g = [k \in 0..(n + 1) |-> g[k]]
    OBVIOUS
  <2> HIDE DEF g
  <2>4. IsWalk(g, n + 1, ids, scope)
    BY <2>2, <2>3 DEF IsWalk
  <2> QED BY <2>4
<1>3. T \subseteq Nat
  OBVIOUS
<1> HIDE DEF T
<1>4. T = Nat
  BY <1>1, <1>2, <1>3, AllNumbers
<1> QED BY <1>4 DEF T

\* Where the loop may stop, from its turns.
LEMMA WalksByTurns ==
  ASSUME NEW ids, NEW scope, MaxTurns(ids) \in Nat
  PROVE  \E f : /\ Walks(ids, scope) = f[MaxTurns(ids)]
                /\ f[0] = {Start(ids)}
                /\ \A n \in Nat : n < MaxTurns(ids) =>
                     f[n + 1] = AllTurns(f[n], scope)
<1> DEFINE M == MaxTurns(ids)
           f == CHOOSE f : IsWalk(f, M, ids, scope)
<1>1. Walks(ids, scope) = f[M]
  BY DEF Walks, IsWalk, Start
<1>2. IsWalk(f, M, ids, scope)
  BY WalksExist
<1> HIDE DEF f, M
<1> DEFINE After(W) == UNION {Turn(w, scope) : w \in W}
           h == [n \in 0..M |-> IF n = 0 THEN {Start(ids)} ELSE After(f[n - 1])]
<1>3. f = h
  BY <1>2 DEF IsWalk
<1>4. M \in Nat
  BY DEF M
<1>5. h[0] = {Start(ids)}
  BY <1>4
<1>6. ASSUME NEW n \in Nat, n < M PROVE h[n + 1] = After(f[n])
  <2>1. n + 1 \in 0..M /\ n + 1 # 0 /\ (n + 1) - 1 = n
    BY <1>4, <1>6
  <2> HIDE DEF After
  <2> QED BY <2>1
<1> HIDE DEF h
<1> QED BY <1>1, <1>3, <1>5, <1>6 DEF M, AllTurns

WalkStates == [queue : Seq(Items), included : SUBSET Known, refused : {"none", "scope", "stale"}]

Stopped(w) == w.queue = <<>> \/ w.refused # "none"

LEMMA TurnMakesOne ==
  ASSUME IsFiniteSet(Known), TypeOK, ProvenanceWellFounded, NEW scope, NEW w \in WalkStates
  PROVE  Turn(w, scope) # {}
<1> DEFINE item == w.queue[Len(w.queue)]
           pushed(links) == [w EXCEPT !.queue = SubSeq(@, 1, Len(@) - 1) \o links, !.included = @ \cup {item.id}]
<1>1. CASE Stopped(w)
  BY <1>1 DEF Turn, Stopped
<1>2. CASE ~ Stopped(w)
  <2>1. w.queue \in Seq(Items) /\ w.queue # <<>>
    BY <1>2 DEF WalkStates, Stopped
  <2>2. item \in Items
    BY <2>1, Popped
  <2>3. PICK links \in Linked(item) : TRUE
    BY <2>2, LinkedItems
  <2>4. pushed(links) \in {pushed(x) : x \in Linked(item)}
    OBVIOUS
  <2>5. \/ Turn(w, scope) = {[w EXCEPT !.refused = RefusalOfItem(item, w.included, scope)]}
        \/ Turn(w, scope) = {[w EXCEPT !.queue = SubSeq(@, 1, Len(@) - 1)]}
        \/ Turn(w, scope) = {pushed(x) : x \in Linked(item)}
    BY <1>2 DEF Turn, Stopped
  <2> HIDE DEF item, pushed
  <2> QED BY <2>4, <2>5
<1> QED BY <1>1, <1>2

\* What one turn does: it refuses, drops a record the view has, or includes one.
LEMMA TurnCases ==
  ASSUME TypeOK, ProvenanceWellFounded,
         NEW scope, NEW w \in WalkStates, ~ Stopped(w), NEW v \in Turn(w, scope)
  PROVE  LET item == w.queue[Len(w.queue)]
             rest == SubSeq(w.queue, 1, Len(w.queue) - 1)
             refused == RefusalOfItem(item, w.included, scope)
         IN  /\ item \in Items /\ rest \in Seq(Items)
             /\ Len(rest) = Len(w.queue) - 1 /\ Len(w.queue) \in Nat \ {0}
             /\ \/ /\ v = [queue |-> w.queue, included |-> w.included, refused |-> refused]
                   /\ refused \in {"scope", "stale"}
                \/ /\ refused = "none" /\ item.id \in w.included
                   /\ v = [queue |-> rest, included |-> w.included, refused |-> "none"]
                \/ /\ refused = "none" /\ item.id \notin w.included
                   /\ \E links \in Linked(item) :
                        v = [queue |-> rest \o links, included |-> w.included \cup {item.id},
                             refused |-> "none"]
<1> DEFINE item == w.queue[Len(w.queue)]
           rest == SubSeq(w.queue, 1, Len(w.queue) - 1)
           refused == RefusalOfItem(item, w.included, scope)
<1>1. /\ w.queue \in Seq(Items) /\ w.queue # <<>> /\ w.refused = "none"
      /\ w = [queue |-> w.queue, included |-> w.included, refused |-> w.refused]
  BY DEF WalkStates, Stopped
<1>2. /\ item \in Items /\ rest \in Seq(Items)
      /\ Len(rest) = Len(w.queue) - 1 /\ Len(w.queue) \in Nat \ {0}
  BY <1>1, Popped
<1>3. refused \in {"none", "scope", "stale"}
  BY DEF RefusalOfItem
<1> DEFINE pushed(links) == [w EXCEPT !.queue = rest \o links,
                                      !.included = w.included \cup {item.id}]
<1>4. Turn(w, scope) =
        IF refused # "none" THEN {[w EXCEPT !.refused = refused]}
        ELSE IF item.id \in w.included THEN {[w EXCEPT !.queue = rest]}
        ELSE {pushed(links) : links \in Linked(item)}
  BY <1>1 DEF Turn
<1> HIDE DEF pushed, item, rest, refused
<1>5. \/ /\ v = [queue |-> w.queue, included |-> w.included, refused |-> refused]
         /\ refused \in {"scope", "stale"}
      \/ /\ refused = "none" /\ item.id \in w.included
         /\ v = [queue |-> rest, included |-> w.included, refused |-> "none"]
      \/ /\ refused = "none" /\ item.id \notin w.included
         /\ \E links \in Linked(item) :
              v = [queue |-> rest \o links, included |-> w.included \cup {item.id},
                   refused |-> "none"]
  <2>1. CASE refused # "none"
    BY <1>1, <1>3, <1>4, <2>1
  <2>2. CASE refused = "none" /\ item.id \in w.included
    BY <1>1, <1>4, <2>2
  <2>3. CASE refused = "none" /\ item.id \notin w.included
    <3>1. PICK links \in Linked(item) : v = pushed(links)
      BY <1>4, <2>3
    <3>2. v = [queue |-> rest \o links, included |-> w.included \cup {item.id}, refused |-> "none"]
      BY <1>1, <3>1 DEF pushed
    <3> QED BY <2>3, <3>2
  <2> QED BY <2>1, <2>2, <2>3
<1> QED BY <1>2, <1>5 DEF item, rest, refused

\* The turns that are left are bounded by what is queued and what can be pushed.
Left(w) == Len(w.queue) + (Cardinality(Known) - Cardinality(w.included)) * (2 * Cardinality(Known))

LEMMA TurnsGoDown ==
  ASSUME IsFiniteSet(Known), TypeOK, ProvenanceWellFounded,
         NEW scope, NEW w \in WalkStates, NEW v \in Turn(w, scope)
  PROVE  /\ v \in WalkStates
         /\ Stopped(w) => v = w
         /\ ~ Stopped(w) => Stopped(v) \/ Left(v) < Left(w)
<1> DEFINE K == Cardinality(Known)
<1>1. \A S \in SUBSET Known : IsFiniteSet(S) /\ Cardinality(S) \in 0..K
  <2>1. ASSUME NEW S \in SUBSET Known PROVE IsFiniteSet(S) /\ Cardinality(S) \in 0..K
    <3>1. IsFiniteSet(S) /\ Cardinality(S) <= K
      BY FS_Subset
    <3> QED BY <3>1, FS_CardinalityType
  <2> QED BY <2>1
<1>2. K \in Nat
  BY FS_CardinalityType
<1> HIDE DEF K
<1>3. CASE Stopped(w)
  <2>1. Turn(w, scope) = {w}
    BY <1>3 DEF Turn, Stopped
  <2> QED BY <1>3, <2>1, SMTT(30)
<1>4. CASE ~ Stopped(w)
  <2> DEFINE item == w.queue[Len(w.queue)]
             rest == SubSeq(w.queue, 1, Len(w.queue) - 1)
             refused == RefusalOfItem(item, w.included, scope)
  <2>1. /\ item \in Items /\ rest \in Seq(Items)
        /\ Len(rest) = Len(w.queue) - 1 /\ Len(w.queue) \in Nat \ {0}
        /\ \/ /\ v = [queue |-> w.queue, included |-> w.included, refused |-> refused]
              /\ refused \in {"scope", "stale"}
           \/ /\ refused = "none" /\ item.id \in w.included
              /\ v = [queue |-> rest, included |-> w.included, refused |-> "none"]
           \/ /\ refused = "none" /\ item.id \notin w.included
              /\ \E links \in Linked(item) :
                   v = [queue |-> rest \o links, included |-> w.included \cup {item.id},
                        refused |-> "none"]
    BY <1>4, TurnCases
  <2>2. /\ w.queue \in Seq(Items) /\ w.included \in SUBSET Known
        /\ w.refused = "none" /\ w.queue # <<>>
    BY <1>4 DEF WalkStates, Stopped
  <2>4. Cardinality(w.included) \in 0..K
    BY <1>1, <2>2
  <2> HIDE DEF item, rest, refused
  <2>5. CASE /\ v = [queue |-> w.queue, included |-> w.included, refused |-> refused]
             /\ refused \in {"scope", "stale"}
    BY <1>4, <2>2, <2>5 DEF WalkStates, Stopped
  <2>6. CASE v = [queue |-> rest, included |-> w.included, refused |-> "none"]
    <3> DEFINE r == (K - Cardinality(w.included)) * (2 * K)
    <3>1. Left(v) = Len(rest) + r /\ Left(w) = Len(w.queue) + r
      BY <2>6 DEF Left, K
    <3>2. r \in Int
      BY <1>2, <2>4
    <3> HIDE DEF r
    <3>3. Left(v) < Left(w)
      BY <2>1, <3>1, <3>2
    <3> QED BY <1>4, <2>1, <2>2, <2>6, <3>3 DEF WalkStates
  <2>7. CASE item.id \notin w.included /\ \E links \in Linked(item) :
               v = [queue |-> rest \o links, included |-> w.included \cup {item.id},
                    refused |-> "none"]
    <3>1. PICK links \in Linked(item) :
            v = [queue |-> rest \o links, included |-> w.included \cup {item.id},
                 refused |-> "none"]
      BY <2>7
    <3>2. links \in Seq(Items) /\ Len(links) <= 2 * K
      BY <2>1, LinkedItems DEF K
    <3>3. rest \o links \in Seq(Items) /\ Len(rest \o links) = Len(rest) + Len(links)
      BY <2>1, <3>2, Pushed
    <3>5. w.included \cup {item.id} \in SUBSET Known
      BY <2>1, <2>2 DEF Items
    <3>6. Cardinality(w.included \cup {item.id}) = Cardinality(w.included) + 1
      BY <1>1, <2>2, <2>7, FS_AddElement
    <3>7. Left(v) < Left(w)
      <4> DEFINE c == Cardinality(w.included)
                 r == (K - c) * (2 * K)
                 s == (K - (c + 1)) * (2 * K)
      <4>1. Left(w) = Len(w.queue) + r /\ Left(v) = Len(rest) + Len(links) + s
        BY <3>1, <3>3, <3>6 DEF Left, K
      <4>2. c \in Int /\ Len(links) \in Nat
        BY <2>4, <3>2, LenProperties
      <4> HIDE DEF c
      <4>3. s = r - 2 * K /\ r \in Int
        BY <1>2, <4>2
      <4> HIDE DEF r, s
      <4>4. Len(rest) = Len(w.queue) - 1 /\ Len(w.queue) \in Nat /\ Len(links) <= 2 * K
        BY <2>1, <3>2
      <4>5. \A q, b, k \in Nat, x \in Int : b <= 2 * k => (q - 1) + b + (x - 2 * k) < q + x
        OBVIOUS
      <4>6. Left(v) = (Len(w.queue) - 1) + Len(links) + (r - 2 * K)
        BY <4>1, <4>3, <4>4
      <4>7. (Len(w.queue) - 1) + Len(links) + (r - 2 * K) < Len(w.queue) + r
        BY <1>2, <4>2, <4>3, <4>4, <4>5
      <4> QED BY <4>1, <4>6, <4>7
    <3> QED BY <1>4, <2>2, <3>1, <3>3, <3>5, <3>7 DEF WalkStates
  <2> QED BY <2>1, <2>5, <2>6, <2>7
<1> QED BY <1>3, <1>4

LEMMA LeftIsNat ==
  ASSUME IsFiniteSet(Known), NEW w \in WalkStates
  PROVE  Left(w) \in Nat /\ (Left(w) = 0 => w.queue = <<>>)
<1> DEFINE K == Cardinality(Known)
           c == Cardinality(w.included)
           r == (K - c) * (2 * K)
<1>1. w.queue \in Seq(Items) /\ w.included \in SUBSET Known
  BY DEF WalkStates
<1>2. K \in Nat /\ c \in Nat /\ c <= K
  BY <1>1, FS_Subset, FS_CardinalityType
<1>3. Len(w.queue) \in Nat /\ (Len(w.queue) = 0 => w.queue = <<>>)
  BY <1>1, EmptySeq, LenProperties
<1> HIDE DEF K, c
<1>4. r \in Nat
  <2>1. K - c \in Nat /\ 2 * K \in Nat
    BY <1>2
  <2> DEFINE a == K - c
             b == 2 * K
  <2> HIDE DEF a, b
  <2>2. a * b \in Nat
    BY <2>1 DEF a, b
  <2> QED BY <2>2 DEF a, b
<1>5. Left(w) = Len(w.queue) + r
  BY DEF Left, K, c
<1> HIDE DEF r
<1> QED BY <1>3, <1>4, <1>5

\* The loop always stops, whatever the order: every walk is over after MaxTurns.
LEMMA WalksStop ==
  ASSUME IsFiniteSet(Known), TypeOK, ProvenanceWellFounded,
         NEW scope, NEW ids \in Seq(Known)
  PROVE  /\ MaxTurns(ids) \in Nat
         /\ Walks(ids, scope) # {}
         /\ \A w \in Walks(ids, scope) : w \in WalkStates /\ Stopped(w)
<1> DEFINE K == Cardinality(Known)
           M == MaxTurns(ids)
<1>1. K \in Nat /\ Len(ids) \in Nat
  BY FS_CardinalityType, LenProperties
<1>2. M \in Nat /\ M = Len(ids) + K * (2 * K)
  <2>1. K * 2 * K \in Nat /\ K * (2 * K) = K * 2 * K
    BY <1>1
  <2> QED BY <1>1, <2>1 DEF MaxTurns
<1> HIDE DEF K, M
<1>3. PICK f : /\ Walks(ids, scope) = f[M]
               /\ f[0] = {Start(ids)}
               /\ \A n \in Nat : n < M => f[n + 1] = AllTurns(f[n], scope)
  <2>1. MaxTurns(ids) \in Nat
    BY <1>2 DEF M
  <2>2. PICK f : /\ Walks(ids, scope) = f[MaxTurns(ids)]
                 /\ f[0] = {Start(ids)}
                 /\ \A n \in Nat : n < MaxTurns(ids) =>
                      f[n + 1] = AllTurns(f[n], scope)
    BY <2>1, WalksByTurns
  <2>3. MaxTurns(ids) = M
    BY DEF M
  <2> QED BY <2>2, <2>3
<1>4. Start(ids) \in WalkStates /\ Left(Start(ids)) = M
  <2>1. PendingAll(ids, TRUE) \in Seq(Items) /\ Len(PendingAll(ids, TRUE)) = Len(ids)
    BY PendingAllOf
  <2>2. Cardinality({}) = 0
    BY FS_EmptySet
  <2>3. K - 0 = K
    BY <1>1
  <2> QED BY <1>2, <2>1, <2>2, <2>3 DEF Start, WalkStates, Left, K
<1> DEFINE T == {n \in Nat : n <= M =>
                   /\ f[n] # {}
                   /\ \A w \in f[n] : w \in WalkStates /\ (Stopped(w) \/ Left(w) + n <= M)}
<1>5. 0 \in T
  <2>1. \A w \in f[0] : w \in WalkStates /\ Left(w) + 0 <= M
    BY <1>2, <1>3, <1>4
  <2> QED BY <1>3, <2>1
<1>6. ASSUME NEW n \in T PROVE n + 1 \in T
  <2>1. SUFFICES ASSUME n + 1 <= M
                 PROVE  /\ f[n + 1] # {}
                        /\ \A v \in f[n + 1] :
                             v \in WalkStates /\ (Stopped(v) \/ Left(v) + (n + 1) <= M)
    OBVIOUS
  <2>2. n <= M /\ n < M
    BY <1>2, <2>1
  <2>3. /\ f[n] # {}
        /\ \A w \in f[n] : w \in WalkStates /\ (Stopped(w) \/ Left(w) + n <= M)
    BY <2>2
  <2>4. f[n + 1] = AllTurns(f[n], scope)
    BY <1>3, <2>2 DEF AllTurns
  <2>5. \A w \in WalkStates : Turn(w, scope) # {}
    BY TurnMakesOne
  <2>6. f[n + 1] # {}
    BY <2>3, <2>4, <2>5 DEF AllTurns
  <2>7. ASSUME NEW v \in f[n + 1]
        PROVE  v \in WalkStates /\ (Stopped(v) \/ Left(v) + (n + 1) <= M)
    <3>1. PICK w \in f[n] : v \in Turn(w, scope)
      BY <2>4 DEF AllTurns
    <3>2. w \in WalkStates /\ (Stopped(w) \/ Left(w) + n <= M)
      BY <2>3
    <3>3. /\ v \in WalkStates
          /\ Stopped(w) => v = w
          /\ ~ Stopped(w) => Stopped(v) \/ Left(v) < Left(w)
      BY <3>1, <3>2, TurnsGoDown
    <3>4. Left(v) \in Int /\ Left(w) \in Int
      BY <3>2, <3>3, LeftIsNat
    <3> QED BY <1>2, <3>2, <3>3, <3>4
  <2> QED BY <2>6, <2>7
<1>7. T = Nat
  <2>1. T \subseteq Nat
    OBVIOUS
  <2> HIDE DEF T
  <2> QED BY <1>5, <1>6, <2>1, AllNumbers
<1>8. /\ f[M] # {}
      /\ \A w \in f[M] : w \in WalkStates /\ (Stopped(w) \/ Left(w) + M <= M)
  <2>1. M \in T
    <3> HIDE DEF T
    <3> QED BY <1>2, <1>7
  <2> QED BY <1>2, <2>1
<1>9. ASSUME NEW w \in WalkStates, Left(w) + M <= M PROVE Stopped(w)
  BY <1>2, <1>9, LeftIsNat DEF Stopped
<1> QED BY <1>2, <1>3, <1>8, <1>9 DEF M

-----------------------------------------------------------------------------
(* What the loop has done so far, and owes.                                *)

\* All that is included or queued belongs to the view; what an included record
\* is linked to is included or queued; and nothing is included that is not
\* current but for a contradiction.
PartOfView(ids, scope, w) ==
  /\ w.included \subseteq CompleteView(ids)
  /\ \A x \in Range(w.queue) :
       x.id \in CompleteView(ids) /\ (x.mustBeCurrent \/ x.id \in Contradicting(ids))
  /\ \A id \in w.included :
       /\ records[id].scope = scope
       /\ IsCurrent(id) \/ id \in Contradicting(ids)

Owed(ids, w) ==
  /\ \A id \in ids : id \in w.included \/ \E x \in Range(w.queue) : x.id = id
  /\ \A id \in w.included : \A d \in DependenciesAndConflicts(id) :
       d \in w.included \/ \E x \in Range(w.queue) : x.id = d

\* What is asked for must be current, however it is reached: until it is refused,
\* a record asked for that is not current waits in the queue.
Asked(ids, scope, w) ==
  /\ w.refused = "none" => \A id \in ids : IsCurrent(id) \/ Pending(id, TRUE) \in Range(w.queue)
  /\ w.refused = "scope" => \E id \in CompleteView(ids) : records[id].scope # scope

\* Where no completed execution of the view has an input that is not current,
\* everything that must be current is, once what is asked for is.
NoPastExecutions(ids) ==
  \A id \in CompleteView(ids) : records[id].completed =>
    \A d \in records[id].dependencies : IsCurrent(d)

DemandsMet(ids, w) ==
  NoPastExecutions(ids) /\ (\A id \in ids : IsCurrent(id)) =>
    /\ \A x \in Range(w.queue) : x.mustBeCurrent => IsCurrent(x.id)
    /\ w.refused # "stale"

WalkInv(ids, scope, w) ==
  /\ w \in WalkStates
  /\ PartOfView(ids, scope, w)
  /\ Owed(ids, w)
  /\ Asked(ids, scope, w)
  /\ DemandsMet(ids, w)

Sound == IsFiniteSet(Known) /\ TypeOK /\ ProvenanceWellFounded /\ IndexesAgree

LEMMA CurrentDependencies ==
  ASSUME ProvenanceWellFounded, NEW id \in Known, IsCurrent(id), ~ records[id].completed,
         NEW d \in records[id].dependencies
  PROVE  IsCurrent(d)
<1> DEFINE f == CurrentAt(now)
<1>1. f = Unfolded(f)
  BY CurrencyUnfolds
<1>2. f[id] = Unfolded(f)[id]
  BY <1>1
<1> HIDE DEF f
<1>3. f[id] = \/ records[id].completed
              \/ /\ id \notin stale
                 /\ ~ Expired(id, now)
                 /\ \A e \in records[id].dependencies : f[e]
  BY <1>2 DEF Unfolded
<1> QED BY <1>3 DEF IsCurrent, f

LEMMA WalkStarts ==
  ASSUME Sound, NEW ids \in SUBSET Known, NEW scope, NEW order \in OrdersOf(ids)
  PROVE  WalkInv(ids, scope, Start(order))
<1> DEFINE w == Start(order)
<1>1. order \in Seq(ids) /\ Range(order) = ids
  BY FS_Subset, Orders DEF Sound
<1>2. /\ w = [queue |-> PendingAll(order, TRUE), included |-> {}, refused |-> "none"]
      /\ PendingAll(order, TRUE) \in Seq(Items)
      /\ Range(PendingAll(order, TRUE)) = {Pending(id, TRUE) : id \in ids}
  BY <1>1, PendingAllOf DEF Start
<1>3. ids \subseteq CompleteView(ids)
  BY CompleteViewIsLeast DEF Sound
<1>4. /\ w.included = {} /\ w.refused = "none"
      /\ Range(w.queue) = {Pending(id, TRUE) : id \in ids} /\ w \in WalkStates
  <2> HIDE DEF w
  <2>1. w.included = {} /\ w.refused = "none" /\ w.queue = PendingAll(order, TRUE)
    BY <1>2
  <2> QED BY <1>2, <2>1 DEF WalkStates
<1> HIDE DEF w
<1>5. \A x \in Range(w.queue) : x.id \in ids /\ x.mustBeCurrent = TRUE
  BY <1>4 DEF Pending
<1>6. \A id \in ids : Pending(id, TRUE) \in Range(w.queue) /\ Pending(id, TRUE).id = id
  BY <1>4 DEF Pending
<1>7. PartOfView(ids, scope, w)
  BY <1>3, <1>4, <1>5 DEF PartOfView
<1>8. Owed(ids, w)
  BY <1>4, <1>6 DEF Owed
<1>9. Asked(ids, scope, w)
  BY <1>4, <1>6 DEF Asked
<1>10. DemandsMet(ids, w)
  BY <1>4, <1>5 DEF DemandsMet
<1> QED BY <1>4, <1>7, <1>8, <1>9, <1>10 DEF WalkInv, w

\* What taking an item shows about the record, and what it pushes.
LEMMA TakenItem ==
  ASSUME Sound, NEW ids \in SUBSET Known, NEW scope, NEW w, WalkInv(ids, scope, w),
         NEW item \in Range(w.queue), item \in Items,
         RefusalOfItem(item, w.included, scope) = "none",
         NEW links \in Linked(item)
  PROVE  /\ records[item.id].scope = scope
         /\ item.mustBeCurrent => IsCurrent(item.id)
         /\ \A x \in Range(links) :
              /\ x.id \in CompleteView(ids)
              /\ x.mustBeCurrent \/ x.id \in Contradicting(ids)
              /\ /\ NoPastExecutions(ids)
                 /\ x.mustBeCurrent
                 => IsCurrent(x.id)
         /\ \A d \in DependenciesAndConflicts(item.id) : \E x \in Range(links) : x.id = d
<1>1. /\ item.id \in Known /\ item.mustBeCurrent \in BOOLEAN
      /\ item.id \in CompleteView(ids)
      /\ item.mustBeCurrent \/ item.id \in Contradicting(ids)
  BY DEF WalkInv, PartOfView, Items
<1>2. records[item.id].scope = scope /\ (item.mustBeCurrent => IsCurrent(item.id))
  BY DEF RefusalOfItem
<1> DEFINE D == records[item.id].dependencies
           C == ConflictsOf(item.id)
<1>3. Range(links) = {Pending(d, item.mustBeCurrent) : d \in D} \cup {Pending(c, FALSE) : c \in C}
  <2>1. conflicts[item.id] = C
    BY <1>1, IndexedConflicts DEF Sound
  <2> QED BY <2>1, LinkedItems DEF Sound
<1>4. /\ D \cup C \subseteq CompleteView(ids)
      /\ C \subseteq Contradicting(ids)
      /\ item.id \in Contradicting(ids) => D \subseteq Contradicting(ids)
  <2>1. DependenciesAndConflicts(item.id) \subseteq CompleteView(ids)
    BY <1>1, CompleteViewIsLeast DEF Sound
  <2>2. /\ C \subseteq Contradicting(ids)
        /\ item.id \in Contradicting(ids) => D \subseteq Contradicting(ids)
    BY <1>1, ContradictingIsClosed DEF Sound
  <2> QED BY <2>1, <2>2 DEF DependenciesAndConflicts
<1>5. ASSUME NoPastExecutions(ids), item.mustBeCurrent, NEW d \in D PROVE IsCurrent(d)
  <2>1. CASE records[item.id].completed
    BY <1>1, <1>5, <2>1 DEF NoPastExecutions
  <2>2. CASE ~ records[item.id].completed
    BY <1>1, <1>2, <1>5, <2>2, CurrentDependencies DEF Sound
  <2> QED BY <2>1, <2>2
<1>6. \A d : Pending(d, item.mustBeCurrent).id = d
             /\ Pending(d, item.mustBeCurrent).mustBeCurrent = item.mustBeCurrent
             /\ Pending(d, FALSE).id = d /\ Pending(d, FALSE).mustBeCurrent = FALSE
  BY DEF Pending
<1> HIDE DEF D, C
<1>7. ASSUME NEW x \in Range(links)
      PROVE  /\ x.id \in CompleteView(ids)
             /\ x.mustBeCurrent \/ x.id \in Contradicting(ids)
             /\ NoPastExecutions(ids) /\ x.mustBeCurrent => IsCurrent(x.id)
  <2>1. CASE \E d \in D : x = Pending(d, item.mustBeCurrent)
    <3>1. PICK d \in D : x = Pending(d, item.mustBeCurrent)
      BY <2>1
    <3>2. x.id = d /\ x.mustBeCurrent = item.mustBeCurrent
      BY <1>6, <3>1
    <3> QED BY <1>1, <1>4, <1>5, <3>2
  <2>2. CASE \E c \in C : x = Pending(c, FALSE)
    <3>1. PICK c \in C : x = Pending(c, FALSE)
      BY <2>2
    <3>2. x.id = c /\ x.mustBeCurrent = FALSE
      BY <1>6, <3>1
    <3> QED BY <1>4, <3>2
  <2> QED BY <1>3, <2>1, <2>2
<1>8. \A d \in DependenciesAndConflicts(item.id) : \E x \in Range(links) : x.id = d
  <2>1. \A d \in D : Pending(d, item.mustBeCurrent) \in Range(links)
    BY <1>3
  <2>2. \A c \in C : Pending(c, FALSE) \in Range(links)
    BY <1>3
  <2> QED BY <1>6, <2>1, <2>2 DEF DependenciesAndConflicts, D, C
<1> QED BY <1>2, <1>7, <1>8

LEMMA WalkGoesOn ==
  ASSUME Sound, NEW ids \in SUBSET Known, NEW scope, NEW w, WalkInv(ids, scope, w),
         NEW v \in Turn(w, scope)
  PROVE  WalkInv(ids, scope, v)
<1>1. w \in WalkStates
  BY DEF WalkInv
<1>2. CASE Stopped(w)
  <2>1. v = w
    BY <1>1, <1>2, TurnsGoDown DEF Sound
  <2> QED BY <2>1
<1>3. CASE ~ Stopped(w)
  <2> DEFINE item == w.queue[Len(w.queue)]
             rest == SubSeq(w.queue, 1, Len(w.queue) - 1)
             refused == RefusalOfItem(item, w.included, scope)
  <2>0. /\ TypeOK /\ ProvenanceWellFounded
        /\ item = w.queue[Len(w.queue)] /\ rest = SubSeq(w.queue, 1, Len(w.queue) - 1)
        /\ refused = RefusalOfItem(item, w.included, scope)
    BY DEF Sound
  <2>1. /\ item \in Items /\ rest \in Seq(Items)
        /\ Len(rest) = Len(w.queue) - 1 /\ Len(w.queue) \in Nat \ {0}
        /\ \/ /\ v = [queue |-> w.queue, included |-> w.included, refused |-> refused]
              /\ refused \in {"scope", "stale"}
           \/ /\ refused = "none" /\ item.id \in w.included
              /\ v = [queue |-> rest, included |-> w.included, refused |-> "none"]
           \/ /\ refused = "none" /\ item.id \notin w.included
              /\ \E links \in Linked(item) :
                   v = [queue |-> rest \o links, included |-> w.included \cup {item.id},
                        refused |-> "none"]
    BY <1>1, <1>3, <2>0, TurnCases
  <2>1a. Range(w.queue) = Range(rest) \cup {item}
    <3>1. w.queue \in Seq(Items) /\ w.queue # <<>>
      BY <1>1, <1>3 DEF WalkStates, Stopped
    <3> QED BY <2>0, <3>1, Popped
  <2> HIDE DEF item, rest, refused
  <2>2. w.refused = "none" /\ item \in Range(w.queue)
    BY <1>3, <2>1a DEF Stopped, WalkInv, WalkStates
  <2>3. v \in WalkStates
    BY <1>1, TurnsGoDown DEF Sound
  <2>4. item.id \in CompleteView(ids)
    BY <2>2 DEF WalkInv, PartOfView
  <2>5. /\ refused \in {"scope", "stale"} => v.refused = refused
        /\ refused = "scope" => records[item.id].scope # scope
        /\ refused = "stale" => item.mustBeCurrent /\ ~ IsCurrent(item.id)
        /\ refused = "none" => /\ records[item.id].scope = scope
                               /\ item.mustBeCurrent => IsCurrent(item.id)
    BY <2>1, <2>1a DEF refused, RefusalOfItem
  <2>6. CASE refused \in {"scope", "stale"}
    <3>1. v.queue = w.queue /\ v.included = w.included /\ v.refused = refused
      BY <2>1, <2>1a, <2>6
    <3>2. PartOfView(ids, scope, v) /\ Owed(ids, v)
      BY <3>1 DEF WalkInv, PartOfView, Owed
    <3>3. Asked(ids, scope, v)
      BY <2>4, <2>5, <2>6, <3>1 DEF Asked
    <3>4. DemandsMet(ids, v)
      BY <2>2, <2>5, <3>1 DEF WalkInv, DemandsMet
    <3> QED BY <2>3, <3>2, <3>3, <3>4 DEF WalkInv
  <2>7. CASE refused = "none" /\ item.id \in w.included
    <3>1. v.queue = rest /\ v.included = w.included /\ v.refused = "none"
      BY <2>1, <2>1a, <2>7
    <3>2. Range(v.queue) \subseteq Range(w.queue)
      BY <2>1, <2>1a, <3>1
    <3>3. PartOfView(ids, scope, v)
      BY <3>1, <3>2 DEF WalkInv, PartOfView
    <3>4. \A x \in Range(w.queue) : x.id \in v.included \/ x \in Range(v.queue)
      BY <2>1, <2>1a, <2>7, <3>1
    <3>5. Owed(ids, v)
      BY <3>1, <3>4 DEF WalkInv, Owed
    <3>6. Asked(ids, scope, v)
      <4>1. ASSUME NEW id \in ids, ~ IsCurrent(id) PROVE Pending(id, TRUE) \in Range(v.queue)
        <5>1. Pending(id, TRUE) \in Range(w.queue)
          BY <2>2, <4>1 DEF WalkInv, Asked
        <5>2. Pending(id, TRUE) # item
          <6>1. Pending(id, TRUE).id = id /\ Pending(id, TRUE).mustBeCurrent = TRUE
            BY DEF Pending
          <6> QED BY <2>5, <2>7, <4>1, <6>1
        <5> QED BY <2>1, <2>1a, <3>1, <5>1, <5>2
      <4> QED BY <3>1, <4>1 DEF Asked
    <3>7. DemandsMet(ids, v)
      BY <3>1, <3>2 DEF WalkInv, DemandsMet
    <3> QED BY <2>3, <3>3, <3>5, <3>6, <3>7 DEF WalkInv
  <2>8. CASE refused = "none" /\ item.id \notin w.included
    <3>1. PICK links \in Linked(item) :
            v = [queue |-> rest \o links, included |-> w.included \cup {item.id},
                 refused |-> "none"]
      BY <2>1, <2>1a, <2>8
    <3>2. links \in Seq(Items)
      BY <2>1, <2>1a, LinkedItems DEF Sound
    <3>3. Range(rest \o links) = Range(rest) \cup Range(links)
      BY <2>1, <2>1a, <3>2, Pushed
    <3>4. /\ v.included = w.included \cup {item.id} /\ v.refused = "none"
          /\ Range(v.queue) = Range(rest) \cup Range(links)
      BY <3>1, <3>3
    <3>5. /\ records[item.id].scope = scope
          /\ item.mustBeCurrent => IsCurrent(item.id)
          /\ \A x \in Range(links) :
               /\ x.id \in CompleteView(ids)
               /\ x.mustBeCurrent \/ x.id \in Contradicting(ids)
               /\ NoPastExecutions(ids) /\ x.mustBeCurrent => IsCurrent(x.id)
          /\ \A d \in DependenciesAndConflicts(item.id) : \E x \in Range(links) : x.id = d
      <4>1. RefusalOfItem(item, w.included, scope) = "none"
        BY <2>8 DEF refused
      <4>2. item \in Items /\ item \in Range(w.queue)
        BY <2>1, <2>1a, <2>2
      <4> QED BY <4>1, <4>2, TakenItem
    <3>6. item.mustBeCurrent \/ item.id \in Contradicting(ids)
      BY <2>2 DEF WalkInv, PartOfView
    <3>7. PartOfView(ids, scope, v)
      BY <2>1, <2>1a, <2>4, <3>4, <3>5, <3>6 DEF WalkInv, PartOfView
    <3>8. \A x \in Range(w.queue) : x.id \in v.included \/ x \in Range(v.queue)
      BY <2>1, <2>1a, <3>4
    <3>9. Owed(ids, v)
      <4>1. \A id \in ids : id \in v.included \/ \E x \in Range(v.queue) : x.id = id
        BY <3>4, <3>8 DEF WalkInv, Owed
      <4>2. ASSUME NEW id \in v.included, NEW d \in DependenciesAndConflicts(id)
            PROVE  d \in v.included \/ \E x \in Range(v.queue) : x.id = d
        <5>1. CASE id = item.id
          BY <3>4, <3>5, <4>2, <5>1
        <5>2. CASE id \in w.included
          BY <3>4, <3>8, <4>2, <5>2 DEF WalkInv, Owed
        <5> QED BY <3>4, <5>1, <5>2
      <4> QED BY <4>1, <4>2 DEF Owed
    <3>10. Asked(ids, scope, v)
      <4>1. ASSUME NEW id \in ids, ~ IsCurrent(id) PROVE Pending(id, TRUE) \in Range(v.queue)
        <5>1. Pending(id, TRUE) \in Range(w.queue)
          BY <2>2, <4>1 DEF WalkInv, Asked
        <5>2. Pending(id, TRUE) # item
          BY <3>5, <4>1 DEF Pending
        <5> QED BY <2>1, <2>1a, <3>4, <5>1, <5>2
      <4> QED BY <3>4, <4>1 DEF Asked
    <3>11. DemandsMet(ids, v)
      BY <2>1, <2>1a, <3>4, <3>5 DEF WalkInv, DemandsMet
    <3> QED BY <2>3, <3>7, <3>9, <3>10, <3>11 DEF WalkInv
  <2> QED BY <2>1, <2>1a, <2>6, <2>7, <2>8
<1> QED BY <1>2, <1>3

\* A view that is not refused is the least closed set; it is refused for what is
\* asked for or, apart from past executions, for nothing that could be otherwise.
LEMMA WalkEnds ==
  ASSUME Sound, NEW ids \in SUBSET Known, NEW scope, NEW w, WalkInv(ids, scope, w), Stopped(w)
  PROVE  /\ w.refused = "none" =>
              /\ w.included = CompleteView(ids)
              /\ \A id \in w.included :
                   records[id].scope = scope /\ (IsCurrent(id) \/ id \in Contradicting(ids))
              /\ \A id \in ids : IsCurrent(id)
         /\ NoPastExecutions(ids) =>
              (w.refused = "none" <=> /\ \A id \in ids : IsCurrent(id)
                                      /\ \A id \in CompleteView(ids) : records[id].scope = scope)
<1>1. ASSUME w.refused = "none"
      PROVE  /\ w.included = CompleteView(ids)
             /\ \A id \in w.included :
                  records[id].scope = scope /\ (IsCurrent(id) \/ id \in Contradicting(ids))
             /\ \A id \in ids : IsCurrent(id)
  <2>1. Range(w.queue) = {}
    <3>1. w.queue = <<>>
      BY <1>1 DEF Stopped
    <3> QED BY <3>1 DEF Range
  <2>2. w.included \in SUBSET Known
    BY DEF WalkInv, WalkStates
  <2>3. ids \subseteq w.included /\ \A id \in w.included : DependenciesAndConflicts(id) \subseteq w.included
    BY <2>1 DEF WalkInv, Owed
  <2>4. CompleteView(ids) \subseteq w.included
    BY <2>2, <2>3, CompleteViewIsLeast DEF Sound
  <2>5. w.included \subseteq CompleteView(ids)
    BY DEF WalkInv, PartOfView
  <2>6. \A id \in w.included :
          records[id].scope = scope /\ (IsCurrent(id) \/ id \in Contradicting(ids))
    BY DEF WalkInv, PartOfView
  <2>7. \A id \in ids : IsCurrent(id)
    BY <1>1, <2>1 DEF WalkInv, Asked
  <2> QED BY <2>4, <2>5, <2>6, <2>7
<1>2. ASSUME NoPastExecutions(ids), \A id \in ids : IsCurrent(id),
             \A id \in CompleteView(ids) : records[id].scope = scope
      PROVE  w.refused = "none"
  <2>1. w.refused # "stale"
    BY <1>2 DEF WalkInv, DemandsMet
  <2>2. w.refused # "scope"
    BY <1>2 DEF WalkInv, Asked
  <2> QED BY <2>1, <2>2 DEF WalkInv, WalkStates
<1> QED BY <1>1, <1>2

LEMMA WalksKeep ==
  ASSUME Sound, NEW ids \in SUBSET Known, NEW scope, NEW order \in OrdersOf(ids),
         NEW w \in Walks(order, scope)
  PROVE  WalkInv(ids, scope, w) /\ Stopped(w)
<1> DEFINE M == MaxTurns(order)
<1>1. order \in Seq(Known)
  <2>1. order \in Seq(ids)
    BY FS_Subset, Orders DEF Sound
  <2> QED BY <2>1, SeqMonotonic
<1>2. MaxTurns(order) \in Nat /\ Stopped(w)
  BY <1>1, WalksStop DEF Sound
<1>3. PICK f : /\ Walks(order, scope) = f[MaxTurns(order)]
               /\ f[0] = {Start(order)}
               /\ \A n \in Nat : n < MaxTurns(order) => f[n + 1] = AllTurns(f[n], scope)
  BY <1>2, WalksByTurns
<1> HIDE DEF M
<1> DEFINE T == {n \in Nat : n <= M => \A v \in f[n] : WalkInv(ids, scope, v)}
<1>4. 0 \in T
  BY <1>3, WalkStarts
<1>5. ASSUME NEW n \in T PROVE n + 1 \in T
  <2>1. SUFFICES ASSUME n + 1 <= M, NEW v \in f[n + 1] PROVE WalkInv(ids, scope, v)
    OBVIOUS
  <2>2. n < M /\ n <= M
    BY <1>2, <2>1 DEF M
  <2>3. PICK u \in f[n] : v \in Turn(u, scope)
    BY <1>3, <2>2 DEF AllTurns, M
  <2>4. WalkInv(ids, scope, u)
    BY <2>2
  <2> QED BY <2>3, <2>4, WalkGoesOn
<1>6. T = Nat
  <2>1. T \subseteq Nat
    OBVIOUS
  <2> HIDE DEF T
  <2> QED BY <1>4, <1>5, <2>1, AllNumbers
<1>7. \A v \in f[M] : WalkInv(ids, scope, v)
  <2>1. M \in T /\ M \in Nat /\ M <= M
    <3>1. M \in Nat
      BY <1>2 DEF M
    <3> HIDE DEF T
    <3> QED BY <1>6, <3>1
  <2> QED BY <2>1
<1> QED BY <1>2, <1>3, <1>7 DEF M

\* The views of a question, with no limit on their size but what there is.
LEMMA ViewsOf ==
  ASSUME Sound, NEW ids \in SUBSET Known, NEW scope
  PROVE  /\ Views(ids, scope) # {}
         /\ \A result \in Views(ids, scope) :
              \E w : /\ WalkInv(ids, scope, w) /\ Stopped(w)
                     /\ result.refused = w.refused
                     /\ result.refused = "none" => result.view = w.included
<1>1. IsFiniteSet(Known) /\ IsFiniteSet(ids)
  BY FS_Subset DEF Sound
<1>2. \A order \in OrdersOf(ids) : order \in Seq(Known)
  BY <1>1, Orders, SeqMonotonic
<1>3. Views(ids, scope) # {}
  <2>1. PICK order \in OrdersOf(ids) : TRUE
    BY <1>1, Orders
  <2>2. PICK w \in Walks(order, scope) : TRUE
    BY <1>2, WalksStop DEF Sound
  <2>3. Outcome(w, Cardinality(Known)) \in Project(order, scope, Cardinality(Known))
    BY DEF Project
  <2> QED BY <2>3 DEF Views
<1>4. ASSUME NEW result \in Views(ids, scope)
      PROVE  \E w : /\ WalkInv(ids, scope, w) /\ Stopped(w)
                    /\ result.refused = w.refused
                    /\ result.refused = "none" => result.view = w.included
  <2>1. PICK order \in OrdersOf(ids) : result \in Project(order, scope, Cardinality(Known))
    BY DEF Views
  <2>2. PICK w \in Walks(order, scope) : result = Outcome(w, Cardinality(Known))
    BY <2>1 DEF Project
  <2>3. WalkInv(ids, scope, w) /\ Stopped(w)
    BY WalksKeep
  <2>4. w.included \in SUBSET Known
    BY <2>3 DEF WalkInv, WalkStates
  <2>5. Cardinality(w.included) <= Cardinality(Known)
    BY <1>1, <2>4, FS_Subset
  <2>6. Cardinality(w.included) \in Nat /\ Cardinality(Known) \in Nat
    BY <1>1, <2>4, FS_Subset, FS_CardinalityType
  <2>7. result.refused = w.refused /\ (result.refused = "none" => result.view = w.included)
    <3>1. CASE w.refused # "none"
      BY <2>2, <3>1 DEF Outcome
    <3>2. CASE w.refused = "none"
      <4>1. result = [refused |-> "none", view |-> w.included]
        BY <2>2, <2>5, <2>6, <3>2 DEF Outcome
      <4> QED BY <3>2, <4>1
    <3> QED BY <3>1, <3>2
  <2> QED BY <2>3, <2>7
<1> QED BY <1>3, <1>4

\* The view of a question or a child run has all it rests on and all that
\* contradicts it, and nothing that is not current but as a contradiction,
\* whatever order its worklist took (EvidenceStore.project).
THEOREM ViewsAreComplete == Spec => []ViewIsComplete
<1>1. IInv => ViewIsComplete
  <2> SUFFICES ASSUME IInv, NEW ids \in Questions, NEW scope \in Scopes,
                      NEW result \in Views(ids, scope), result.refused = "none"
               PROVE  /\ result.view = CompleteView(ids)
                      /\ \A id \in result.view :
                           /\ records[id].scope = scope
                           /\ ~ IsCurrent(id) => id \in Contradicting(ids)
    BY DEF ViewIsComplete
  <2>1. Sound /\ ids \in SUBSET Known
    BY DEF IInv, Sound, Questions
  <2>2. PICK w : /\ WalkInv(ids, scope, w) /\ Stopped(w)
                 /\ result.refused = w.refused
                 /\ result.refused = "none" => result.view = w.included
    BY <2>1, ViewsOf
  <2>3. w.refused = "none" /\ result.view = w.included
    BY <2>2
  <2>4. /\ w.included = CompleteView(ids)
        /\ \A id \in w.included :
             records[id].scope = scope /\ (IsCurrent(id) \/ id \in Contradicting(ids))
    BY <2>1, <2>2, <2>3, WalkEnds
  <2> QED BY <2>3, <2>4
<1> QED BY <1>1, SpecIInv, PTL

\* Where no completed execution has an input that is not current, the order the
\* worklist takes links in never decides whether a view is refused.
THEOREM OrderIsFreeButForPastExecutions == Spec => []OrderMattersOnlyPastExecutions
<1>1. IInv => OrderMattersOnlyPastExecutions
  <2> SUFFICES ASSUME IInv, NEW ids \in Questions, NEW scope \in Scopes, NoPastExecutions(ids)
               PROVE  Cardinality({result.refused = "none" : result \in Views(ids, scope)}) = 1
    BY DEF OrderMattersOnlyPastExecutions, NoPastExecutions
  <2>1. Sound /\ ids \in SUBSET Known
    BY DEF IInv, Sound, Questions
  <2> DEFINE given == /\ \A id \in ids : IsCurrent(id)
                      /\ \A id \in CompleteView(ids) : records[id].scope = scope
             answers == {result.refused = "none" : result \in Views(ids, scope)}
  <2>2. \A result \in Views(ids, scope) : result.refused = "none" <=> given
    <3>1. SUFFICES ASSUME NEW result \in Views(ids, scope)
                   PROVE  result.refused = "none" <=> given
      OBVIOUS
    <3>2. PICK w : /\ WalkInv(ids, scope, w) /\ Stopped(w) /\ result.refused = w.refused
      BY <2>1, ViewsOf
    <3> QED BY <2>1, <3>2, WalkEnds
  <2>3. PICK result \in Views(ids, scope) : TRUE
    BY <2>1, ViewsOf
  <2> HIDE DEF given
  <2>4. answers = {TRUE} \/ answers = {FALSE}
    <3>1. CASE given
      <4>1. \A r \in Views(ids, scope) : (r.refused = "none") = TRUE
        BY <2>2, <3>1
      <4> QED BY <2>3, <4>1
    <3>2. CASE ~ given
      <4>1. \A r \in Views(ids, scope) : (r.refused = "none") = FALSE
        BY <2>2, <3>2
      <4> QED BY <2>3, <4>1
    <3> QED BY <3>1, <3>2
  <2> HIDE DEF answers
  <2>5. Cardinality(answers) = 1
    BY <2>4, FS_Singleton
  <2> QED BY <2>5 DEF answers
<1> QED BY <1>1, SpecIInv, PTL
=============================================================================
