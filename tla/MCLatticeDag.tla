---------------------------- MODULE MCLatticeDag ----------------------------
(* Instances of LatticeDag; a is the pivot of every cycle. *)
EXTENDS LatticeDag, TLC

CONSTANTS a, b, c, d

\* One cell of a, then up to two different cells of b.
Contested == {<<2, a>>, <<3, b>>}
\* The anchor and three followers: exactly a quorum of four.
QuorumCycle == {<<2, a>>, <<3, b>>, <<3, c>>, <<3, d>>}
\* Bound: only a collects certificates of round 3.  Those of another node
\* would enter no cell, the Schedule ending with round 3, and its own commit only.
OneObserver ==
    \A n \in Node \ {a} : \A x \in certs[n] : x.cell.round < 3
\* Bound: either every author publishes one cell a round and OneObserver holds,
\* or only the slots of Contested are used and the clock stops at round 3.
CommitOrContest ==
    \/ OneObserver /\ \A x \in published : x.tag = 1
    \/ clock <= 3 /\ \A x \in published : Slot(x) \in Contested
PivotA == {[k \in Cycles |-> a]}
SymmetryCD == Permutations({c, d})
=============================================================================
