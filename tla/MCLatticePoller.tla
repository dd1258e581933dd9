--------------------------- MODULE MCLatticePoller ---------------------------
(* Instances of LatticePoller: a is the pivot of every cycle. *)
EXTENDS LatticePoller, TLC

CONSTANTS a, b, c4, d4

\* The anchor of cycle 1 and its follower.
AnchorAndFollower == {<<2, a>>, <<3, b>>}
\* One cell in all.
OneCell == {<<2, a>>}
PivotA == {[k \in Cycles |-> a]}
=============================================================================
