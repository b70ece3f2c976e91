---------------------------- MODULE EvidenceStore ----------------------------
(***************************************************************************)
(* The run-local evidence store of jev_frame/state.py: append-only records *)
(* with provenance (dependencies), supersession and conflict links, an     *)
(* index of dependents used for transitive invalidation, and expiry.       *)
(*                                                                         *)
(* A record's content is abstracted to what currency, scope and provenance *)
(* depend on.  A call that raises (duplicate id, unknown reference, a      *)
(* reference across scopes) is checked before anything is assigned, so it  *)
(* leaves the store as it was: it is the absence of a step here.           *)
(***************************************************************************)
EXTENDS Integers, FiniteSets

CONSTANTS
  Ids,            \* identifiers evidence may be given
  Scopes,         \* tenant or authority scopes
  MaxTime,        \* bound on the clock
  MaxReferences   \* bound on the references one new record makes

ASSUME TimeAssumption == MaxTime \in Nat
ASSUME ReferencesAssumption == MaxReferences \in Nat

VARIABLES
  records,      \* _records: the records added so far, by id
  count,        \* how many there are, which numbers their insertion order
  dependents,   \* _dependents: reverse index of the dependencies
  conflicts,    \* _conflicts: symmetric index of the conflict links
  stale,        \* _stale: ids invalidated explicitly or transitively
  now           \* the clock handed to the store

vars == <<records, count, dependents, conflicts, stale, now>>

-----------------------------------------------------------------------------
Known == DOMAIN records

\* expires_at = None: later than every clock reading
Never == MaxTime + 1

Record ==
  [scope        : Scopes,
   completed    : BOOLEAN,      \* an ExecutionReference whose state is SUCCEEDED
   dependencies : SUBSET Ids,
   supersedes   : SUBSET Ids,
   conflicts    : SUBSET Ids,
   expires      : 0..Never,
   position     : Nat]          \* rank in the insertion-ordered dict

References(r) == r.dependencies \cup r.supersedes \cup r.conflicts

Expired(id, t) == t >= records[id].expires

\* is_current: a completed execution is a historical fact; any other record
\* must be neither stale nor expired, and all it depends on must be current.
OwnCurrencyOnly(t) ==
  [id \in Known |-> \/ records[id].completed
                    \/ id \notin stale /\ ~ Expired(id, t)]

CurrentAt(t) ==
  LET current[id \in Known] ==
        \/ records[id].completed
        \/ /\ id \notin stale
           /\ ~ Expired(id, t)
           /\ \A d \in records[id].dependencies : current[d]
  IN  current

IsCurrent(id) == CurrentAt(now)[id]

\* The same without recursion: id belongs to a set of records that vouch for
\* each other.  The theorems use this form; CurrencyIsSupport relates the two.
Vouches(S) ==
  \A s \in S :
    \/ records[s].completed
    \/ /\ s \notin stale
       /\ ~ Expired(s, now)
       /\ records[s].dependencies \subseteq S

Supported(id) == \E S \in SUBSET Known : id \in S /\ Vouches(S)

\* The worklist of invalidate: everything reachable along the dependents
\* index, completed executions included.
AffectedNotThroughExecutions(known, index, id) ==
  {j \in known : \A C \in SUBSET known :
     (/\ id \in C
      /\ \A k \in C \ {x \in DOMAIN records : records[x].completed} :
           index[k] \subseteq C) => j \in C}

Affected(known, index, id) ==
  {j \in known : \A C \in SUBSET known :
                    (id \in C /\ \A k \in C : index[k] \subseteq C) => j \in C}

\* _stale once ids are invalidated in a store with this dependents index: a
\* completed execution is passed through and never marked.
OnlyLastInvalidation(store, index, ids) ==
  {j \in UNION {Affected(DOMAIN store, index, id) : id \in ids} :
     ~ store[j].completed}

StaleWith(store, index, ids) ==
  stale \cup {j \in UNION {Affected(DOMAIN store, index, id) : id \in ids} :
                ~ store[j].completed}

ReferencesValid(r) ==
  /\ References(r) \subseteq Known
  /\ \A ref \in References(r) : records[ref].scope = r.scope

\* The dependents index with record r added under id.
DependentsWith(id, r) ==
  [d \in Ids |-> IF d \in r.dependencies THEN dependents[d] \cup {id}
                                         ELSE dependents[d]]

\* The conflict index, linked in both directions.
ConflictsWith(id, r) ==
  [c \in Ids |-> IF c = id THEN conflicts[c] \cup r.conflicts
                 ELSE IF c \in r.conflicts THEN conflicts[c] \cup {id}
                 ELSE conflicts[c]]

-----------------------------------------------------------------------------
Init ==
  /\ records = [id \in {} |-> id]
  /\ count = 0
  /\ dependents = [id \in Ids |-> {}]
  /\ conflicts = [id \in Ids |-> {}]
  /\ stale = {}
  /\ now = 0

\* add: insert, index, then invalidate what the record supersedes.
Add(id, r) ==
  /\ id \notin Known
  /\ ReferencesValid(r)
  /\ records' = [j \in Known \cup {id} |-> IF j = id THEN r ELSE records[j]]
  /\ count' = count + 1
  /\ dependents' = DependentsWith(id, r)
  /\ conflicts' = ConflictsWith(id, r)
  /\ stale' = StaleWith(records', dependents', r.supersedes)
  /\ UNCHANGED now

Invalidate(id) ==
  /\ id \in Known
  /\ stale' = StaleWith(records, dependents, {id})
  /\ UNCHANGED <<records, count, dependents, conflicts, now>>

Tick ==
  /\ now < MaxTime
  /\ now' = now + 1
  /\ UNCHANGED <<records, count, dependents, conflicts, stale>>

\* What a caller may name in a new record, known or not: a bounded number of
\* references of the three sorts together.
ReferenceChoices ==
  {c \in [dependencies : SUBSET Ids, supersedes : SUBSET Ids, conflicts : SUBSET Ids] :
     Cardinality(c.dependencies) + Cardinality(c.supersedes)
       + Cardinality(c.conflicts) <= MaxReferences}

\* EvidenceRecord.__post_init__: a record never refers to itself, and it does
\* not expire before it is observed, which is now.
NewRecord(c, scope, completed, expires) ==
  [scope |-> scope, completed |-> completed, dependencies |-> c.dependencies,
   supersedes |-> c.supersedes, conflicts |-> c.conflicts,
   expires |-> expires, position |-> count]

AddSome ==
  \E id \in Ids \ Known, c \in ReferenceChoices, scope \in Scopes,
     completed \in BOOLEAN, expires \in now..Never :
    /\ id \notin References(c)
    /\ Add(id, NewRecord(c, scope, completed, expires))

InvalidateSome == \E id \in Known : Invalidate(id)

Next == AddSome \/ InvalidateSome \/ Tick

Spec == Init /\ [][Next]_vars

-----------------------------------------------------------------------------
TypeOK ==
  /\ Known \subseteq Ids
  /\ records \in [Known -> Record]
  /\ count \in Nat
  /\ dependents \in [Ids -> SUBSET Known]
  /\ conflicts \in [Ids -> SUBSET Known]
  /\ stale \subseteq Known
  /\ now \in 0..MaxTime

\* Provenance is well founded and stays inside one scope: whatever a record
\* refers to was added before it, in its own scope.  is_current recurses along
\* dependencies and its cycle check must never fire.
ProvenanceWellFounded ==
  \A id \in Known : \A ref \in References(records[id]) :
    /\ ref \in Known
    /\ records[ref].position < records[id].position
    /\ records[ref].scope = records[id].scope

\* The two indexes say exactly what the records say: invalidate follows the
\* dependents index and project the conflict index, never the records.
IndexesAgree ==
  \A a \in Ids :
    /\ dependents[a] = {b \in Known : a \in records[b].dependencies}
    /\ conflicts[a] = {b \in Known : \/ a \in records[b].conflicts
                                     \/ a \in Known /\ b \in records[a].conflicts}

\* is_current computes support: no record is current on the strength of a
\* dependency that is not, and none is refused whose whole support stands.
CurrencyIsSupport == \A id \in Known : IsCurrent(id) <=> Supported(id)

\* No resurrection: once a record is not current, no later addition,
\* invalidation or clock reading makes it current again, so an answer found
\* stale can never satisfy a later completion check.
NoResurrection ==
  [][\A id \in Known : ~ Supported(id) => ~ Supported(id)']_vars

\* Ancestors: every record whose change should reach id, through completed
\* executions too.
Ancestors(id) ==
  {j \in Known : \A C \in SUBSET Known :
      (id \in C /\ \A k \in C : records[k].dependencies \subseteq C) => j \in C}

\* Invalidation is transitive and passes through completed executions: when a
\* record becomes stale, everything already recorded that derives from it is
\* stale after the same step, unless it is itself a completed execution.
InvalidationReachesDerived ==
  [][\A id \in Known :
       (Ancestors(id) \cap (stale' \ stale) # {} /\ ~ records[id].completed)
         => id \in stale']_vars

\* A superseded record is stale from then on, unless it is a completed execution.
SupersededIsStale ==
  \A id \in Known : \A s \in records[id].supersedes :
    records[s].completed \/ s \in stale
=============================================================================
