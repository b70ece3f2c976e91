------------------------- MODULE EvidenceProjection -------------------------
(***************************************************************************)
(* EvidenceStore.project (state.py): the view of the evidence a question   *)
(* or a child run is given.  The code keeps a worklist that it takes from  *)
(* its end, so which link reaches a record first decides whether what lies *)
(* behind it must be current.  The order in which the links of one record  *)
(* are pushed is that of a tuple and of a hashed set: any order here.      *)
(***************************************************************************)
EXTENDS EvidenceStore, Sequences, Functions

Pending(id, mustBeCurrent) == [id |-> id, mustBeCurrent |-> mustBeCurrent]

PendingAll(ids, mustBeCurrent) == [i \in DOMAIN ids |-> Pending(ids[i], mustBeCurrent)]

\* What taking an item is refused for: get, require_current or the scope alone.
\* It is checked for every item, also for a record the view already has.
RefusalOfNewItem(item, included, scope) ==
  IF item.id \in included THEN "none"
  ELSE IF records[item.id].scope # scope THEN "scope"
  ELSE IF item.mustBeCurrent /\ ~ IsCurrent(item.id) THEN "stale"
  ELSE "none"

RefusalOfItem(item, included, scope) ==
  IF records[item.id].scope # scope THEN "scope"
  ELSE IF item.mustBeCurrent /\ ~ IsCurrent(item.id) THEN "stale"
  ELSE "none"

OrdersOf(ids) == Bijection(1..Cardinality(ids), ids)

\* The links of a record, in the orders they may be pushed: its dependencies
\* under the same demand, then what conflicts with it, current or not.
LinkedDependencies(item) ==
  {PendingAll(d, item.mustBeCurrent) : d \in OrdersOf(records[item.id].dependencies)}

Linked(item) ==
  {PendingAll(d, item.mustBeCurrent) \o PendingAll(c, FALSE) :
     d \in OrdersOf(records[item.id].dependencies), c \in OrdersOf(conflicts[item.id])}

\* One turn of the loop, in each order it may push the links; it stops where it
\* refuses and when the queue is empty.
Turn(w, scope) ==
  LET item == w.queue[Len(w.queue)]
      rest == SubSeq(w.queue, 1, Len(w.queue) - 1)
      refused == RefusalOfItem(item, w.included, scope)
  IN  IF w.queue = <<>> \/ w.refused # "none" THEN {w}
      ELSE IF refused # "none" THEN {[w EXCEPT !.refused = refused]}
      ELSE IF item.id \in w.included THEN {[w EXCEPT !.queue = rest]}
      ELSE {[w EXCEPT !.queue = rest \o links, !.included = @ \cup {item.id}] :
              links \in Linked(item)}

\* Every record that is included pushes its links once, dependencies and conflicts.
MaxTurns(ids) == Len(ids) + Cardinality(Known) * 2 * Cardinality(Known)

\* Where the loop may stop.
Walks(ids, scope) ==
  LET after[n \in 0..MaxTurns(ids)] ==
        IF n = 0 THEN {[queue |-> PendingAll(ids, TRUE), included |-> {}, refused |-> "none"]}
        ELSE UNION {Turn(w, scope) : w \in after[n - 1]}
  IN  after[MaxTurns(ids)]

\* project, with its capacity check at the end.
Outcome(w, capacity) ==
  IF w.refused # "none" THEN [refused |-> w.refused, view |-> {}]
  ELSE IF Cardinality(w.included) > capacity THEN [refused |-> "capacity", view |-> {}]
  ELSE [refused |-> "none", view |-> w.included]

Project(ids, scope, capacity) == {Outcome(w, capacity) : w \in Walks(ids, scope)}

-----------------------------------------------------------------------------
(* What a view should be, from the records alone. *)

\* The smallest set of records that holds ids and follows these links.
ClosedUnder(ids, Follow(_)) ==
  {j \in Known : \A C \in SUBSET Known :
                   (ids \subseteq C /\ \A k \in C : Follow(k) \subseteq C) => j \in C}

ConflictsOf(id) ==
  {c \in Known : c \in records[id].conflicts \/ id \in records[c].conflicts}

DependenciesAndConflicts(id) == records[id].dependencies \cup ConflictsOf(id)

CompleteView(ids) == ClosedUnder(ids, DependenciesAndConflicts)

\* What is in a view because it, or something that rests on it, contradicts
\* something else in it.
Contradicting(ids) ==
  CompleteView(UNION {ConflictsOf(id) : id \in CompleteView(ids)})

Questions == {ids \in SUBSET Known : Cardinality(ids) \in 1..2}

\* Whatever order a question names its records in.
Views(ids, scope) ==
  UNION {Project(order, scope, Cardinality(Known)) : order \in OrdersOf(ids)}

\* A view is complete: it has all that its records rest on and all that
\* contradicts them, in one scope, and a record that is not current is in it
\* only on the side of a contradiction (project, whatever its worklist did).
ViewIsComplete ==
  \A ids \in Questions, scope \in Scopes :
    \A result \in Views(ids, scope) :
      result.refused = "none" =>
        /\ result.view = CompleteView(ids)
        /\ \A id \in result.view :
             /\ records[id].scope = scope
             /\ ~ IsCurrent(id) => id \in Contradicting(ids)

\* Whether a view is refused depends on the order the links are taken in only
\* where a completed execution, current whatever became of its inputs, has an
\* input that is not.
OrderMattersOnlyPastExecutions ==
  \A ids \in Questions, scope \in Scopes :
    \/ Cardinality({result.refused = "none" : result \in Views(ids, scope)}) = 1
    \/ \E id \in CompleteView(ids) :
         records[id].completed /\ \E d \in records[id].dependencies : ~ IsCurrent(d)
=============================================================================
