----------------------------- MODULE MCLattice -----------------------------
(* Instances of Lattice: a is the pivot of the cycle. *)
EXTENDS Lattice, TLC

CONSTANTS a, b, c, d

\* Cells of the cycle's two rounds, two different ones of b in each.
TwoRounds == {<<2, a>>, <<2, b>>, <<3, b>>}
\* The anchor of a on a cell of b, and three followers.
Chain == {<<1, b>>, <<2, a>>, <<3, b>>, <<3, c>>, <<3, d>>}
PivotA == {[k \in Cycles |-> a]}

\* Bound: the cells of Chain are published one after the other, each when the
\* one before is certified everywhere; only the first may be missing at c.  A
\* cell reaches every node before the first attests it, and every node attests
\* it before the first attestation is delivered.
OneAtATime ==
    /\ \A x, y \in published :
         \/ x.round < y.round
         \/ x.round = y.round /\ <<x.author, y.author>> \in {<<b, c>>, <<b, d>>, <<c, d>>}
         => \A n \in Node : x \in aggs[n].certified \/ (n = c /\ x.round = 1)
    /\ \A x \in attested, n \in Node : n # x[1].author => <<x[1], n>> \in cellSeen
    /\ \A x \in attSeen, n \in Node : n # x[1].author => <<x[1], n>> \in attested
=============================================================================
