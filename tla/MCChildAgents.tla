---------------------------- MODULE MCChildAgents ----------------------------
(* Small instances of ChildAgents for TLC. *)
EXTENDS ChildAgents

CONSTANTS asker, reader, broker, ask, read, review, again, s, old, a, b, out1, out2, out3, out4,
          p, p2

MCRunBy == read :> reader @@ review :> reader @@ ask :> broker @@ again :> asker
MCOffers == asker :> {read, ask} @@ reader :> {} @@ broker :> {review, again}
SharedOffers == asker :> {read, ask} @@ reader :> {} @@ broker :> {read, again}
MCSteps == asker :> {} @@ reader :> {a} @@ broker :> {b}
MCRetrieves == asker :> {} @@ reader :> {} @@ broker :> {p, p2}
NoRetrieves == [d \in Definitions |-> {}]
MCRead == [t \in Tools |-> IF t = again THEN <<>> ELSE <<s>>]
MCOutput == read :> out1 @@ review :> out2 @@ ask :> out3 @@ again :> out4
MCNeeds == [t \in Tools |-> {}]
MCOperations == AllSteps \cup AllRetrievals
MCChildRuns == Children
MCLimit == [class \in Classes |-> 4]

Evidence(superseded) == [Record0 EXCEPT !.supersedes = superseded]

\* The source is all there is, has replaced a record, or has been replaced.
MCSessions ==
  {Added(EmptyStore, Own(s), Evidence({})),
   Added(Added(EmptyStore, Own(old), Evidence({})), Own(s), Evidence({Own(old)})),
   Added(Added(EmptyStore, Own(s), Evidence({})), Own(old), Evidence({Own(s)}))}

\* What the theorems about child runs ask of a configuration holds of the first
\* offers, and not of the ones in which a child offers what its caller offers.
ASSUME OffersAssumption == NamesDistinct <=> Offers = MCOffers
==============================================================================
