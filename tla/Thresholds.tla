----------------------------- MODULE Thresholds -----------------------------
(***************************************************************************)
(* The two quorum thresholds of the code base.                             *)
(*                                                                         *)
(* QuorumForVoters is used by the masternodes' block votes and by the      *)
(* lightnodes' certificate checks (savitri-consensus primitives/quorum.rs).*)
(* LatticeQuorum is used by the V0.2 lattice (types/lattice.rs).  Both are *)
(* integer divisions on usize; the values involved are group sizes, so no  *)
(* overflow is modelled.                                                   *)
(***************************************************************************)
EXTENDS Naturals

\* Mutant of QuorumForVoters: enough for one correct voter, f + 1.
QuorumOfOneCorrect(n) == (n - 1) \div 3 + 1

\* quorum_for_voters: ceil(2n/3), and 0 for the empty voter set.
QuorumForVoters(n) == IF n = 0 THEN 0 ELSE (2 * n + 2) \div 3

\* lattice_quorum: 2f+1 with f = (n-1)/3, and 0 for the empty group.
LatticeQuorum(n) == IF n = 0 THEN 0 ELSE 2 * ((n - 1) \div 3) + 1
=============================================================================
