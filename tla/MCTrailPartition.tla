-------------------------- MODULE MCTrailPartition --------------------------
(* Small instances of TrailPartition.                                       *)
EXTENDS TrailPartition, TLC

Symmetry == Permutations(Txns) \cup Permutations(Orgs) \cup Permutations(Jobs)
=============================================================================
