------------------------ MODULE MCLatticeAggregator ------------------------
(* Model-checking instance of LatticeAggregator: one author who may build   *)
(* two different cells per round, three attesters.                          *)
EXTENDS LatticeAggregator, TLC

CONSTANTS n1, n2, n3

Symmetry == Permutations({n2, n3})
=============================================================================
