-------------------------- MODULE MCBlockFinality --------------------------
(* Instances of BlockFinality. *)
EXTENDS BlockFinality

CONSTANTS m1, m2, m3, g0, g1, g0old, x, y

Proposal(g, h, r, hash) == [height |-> h, round |-> r, hash |-> hash, group |-> g]

\* g0old is the id of g0 before a re-formation: same index.
GroupIndex == [g \in Group |-> IF g = g1 THEN 1 ELSE 0]

\* The proposer of g0 rotated: two blocks for height 1.
Rotated == {Proposal(g0, 1, 1, x), Proposal(g0, 1, 2, y)}
\* One block under an id older than the masternodes' active group.
Drifted == {Proposal(g0old, 1, 1, x)}

RotatedOrDrifted == Rotated \cup Drifted

OnlyG0 == {{g0}}
\* g0old has a backup leader, g0 none.
BackupIsM1 == [g \in Group |-> IF g = g0old THEN m1 ELSE Idle]
NoBackup == [g \in Group |-> Idle]

NoSizes(m) == agg[m].sizes = NewAggregator.sizes

\* The network tasks of different masternodes share nothing: one is enough.
OnlyM1Finalizes == \A m \in Masternode \ {m1} : fin[m] = NewFinality

\* Bound: m3 aggregates nothing.  Either the proposer of g0 rotates while m3 is
\* away, m2 alone issues certificates, nobody restarts and no group is active; or
\* one block of the older id meets a restart and the group sizes of m1, m2 is slow
\* to persist and no certificate grows old.
RotationOrDrift ==
    /\ OnlyM1Finalizes
    /\ agg[m3] = NewAggregator
    /\ NoSizes(m2)
    /\ \/ /\ proposed \subseteq Rotated
          /\ received[m3] = {}
          /\ restarts = 0
          /\ agg[m1] = NewAggregator
       \/ /\ proposed \subseteq Drifted
          /\ job[m2] = Idle \/ job[m2].step = "head"
          /\ now = 0
=============================================================================
