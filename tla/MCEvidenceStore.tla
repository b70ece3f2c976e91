-------------------------- MODULE MCEvidenceStore --------------------------
(* The store and its views on a few interchangeable ids and scopes. *)
EXTENDS EvidenceProjection, TLC

Symmetry == Permutations(Ids) \cup Permutations(Scopes)
=============================================================================
