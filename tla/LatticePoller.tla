--------------------------- MODULE LatticePoller ---------------------------
(***************************************************************************)
(* The lattice with the cycle selection of commit_poller_loop, and the     *)
(* fairness of a group in good order.                                      *)
(*                                                                         *)
(* Module Lattice lets try_commit run for any closed cycle.  The poller    *)
(* only ever tries the cycle after the last one it committed, cycle 0 when *)
(* there is none, and gives up at the first cycle that does not commit.    *)
(* Rounds are wall-clock seconds, so a group starts at a FirstRound that   *)
(* lies behind cycle 0: 2 in the instances, some 1.7 billion in reality.   *)
(***************************************************************************)
EXTENDS Lattice

\* start_cycle, and then every next cycle of the for loop: last_committed_cycle
\* is the largest cycle committed.
AttemptedCycle(n) ==
    LET done == {k \in Cycles : committed[n][k] # {}}
    IN  IF done = {} THEN 0 ELSE (CHOOSE k \in done : \A j \in done : j <= k) + 1

\* One iteration of the poller's loop that decides Committed.  Every other
\* decision leaves the loop without a state change.
Poll(n) ==
    /\ AttemptedCycle(n) \in Cycles
    /\ Commit(n, AttemptedCycle(n))

PollerNext ==
    \/ Tick
    \/ \E n \in Node, c \in Cell : \/ Publish(n, c)
                                   \/ ReceiveCell(n, c)
                                   \/ PublishAttestation(n, c)
                                   \/ \E s \in Node : ReceiveAttestation(n, c, s)
    \/ \E n \in Node : Gc(n) \/ Poll(n)

\* The good order: time passes, every message reaches every node, a node that
\* observed a cell goes on to attest it, and the poller keeps ticking.
Fairness ==
    /\ WF_vars(Tick)
    /\ \A n \in Node :
        /\ WF_vars(Poll(n))
        /\ \A c \in Cell :
            /\ WF_vars(ReceiveCell(n, c))
            /\ WF_vars(PublishAttestation(n, c))
            /\ \A s \in Node : WF_vars(ReceiveAttestation(n, c, s))

PollerSpec == Init /\ [][PollerNext]_vars /\ Fairness
-----------------------------------------------------------------------------
\* Cycle k is closed and try_commit on the table of n, with any of the pivots
\* the group may compute, decides Committed for it.
Committable(n, k) ==
    /\ k <= Dag!MaxAttemptCycle
    /\ \A view \in PivotViews :
          CommittableAnchors(aggs[n].certified, parents, LatticeQuorum(GroupSize), k, view[k]) # {}

\* The design lets a cycle without a quorum of followers be skipped: a cycle
\* that remains committable at a node is committed there, whatever became of
\* the cycles before it.
CommittableCyclesCommit ==
    \A n \in Node, k \in Cycles : <>[]Committable(n, k) => <>(committed[n][k] # {})

\* A cell that a quorum of nodes attested is certified at every node, when
\* every message is delivered and nothing is garbage collected in between.
AttestedCellsGetCertified ==
    \A n \in Node, c \in Cell :
        Cardinality(Dag!Attesters(attested, c)) >= LatticeQuorum(GroupSize)
            ~> \E d \in aggs[n].certified : Slot(d) = Slot(c)
=============================================================================
