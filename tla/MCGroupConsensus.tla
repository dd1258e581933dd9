-------------------------- MODULE MCGroupConsensus --------------------------
(***************************************************************************)
(* Three masternodes, of which two may make a quorum when a third is not   *)
(* connected.  m1 coordinates epoch 0 (times 0 and 1), m2 epoch 1.         *)
(***************************************************************************)
EXTENDS GroupConsensus

CONSTANTS m1, m2, m3

Order == <<m1, m2, m3>>

Each(i, j, k) == [n \in {m1, m2, m3} |-> CASE n = m1 -> i [] n = m2 -> j [] n = m3 -> k]

Plan(start, clock, up, forms, restarts, counts) ==
    [start |-> start, clock |-> clock, up |-> up, forms |-> forms, restarts |-> restarts, counts |-> counts]

Plans ==
    { \* the coordinator is down: m2 is elected and sends its groups again and again
      Plan(0, 0, {m2, m3}, Each(0, 4, 0), Each(0, 0, 0), {1, 2}),
      \* the coordinator is down and both others stand for election
      Plan(0, 1, {m2, m3}, Each(0, 3, 1), Each(0, 0, 0), {1}),
      \* two candidates and three electors
      Plan(0, 0, {m1, m2, m3}, Each(0, 1, 1), Each(0, 0, 0), {1}),
      \* the coordinator proposes, and the epoch ends before the approval is everywhere
      Plan(1, 1, {m1, m2, m3}, Each(1, 0, 0), Each(0, 0, 0), {1}),
      \* a voter restarts
      Plan(1, 0, {m1, m2, m3}, Each(1, 0, 0), Each(0, 1, 0), {1}) }
=============================================================================
