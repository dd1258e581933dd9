------------------------------ MODULE Lattice ------------------------------
(***************************************************************************)
(* A group of lightnodes running the lattice runtime over gossip:          *)
(* savitri-lightnode lattice_runtime.rs (publisher, receive handlers) on   *)
(* top of the aggregator, and the commit walker.                           *)
(*                                                                         *)
(* Every gossip message is handled in a task of its own, so messages take  *)
(* effect in any order.  A copy of a message is delivered to a node at     *)
(* most once (gossipsub drops duplicates); a lost copy is one that is      *)
(* never delivered.  process_cell_message takes the aggregator lock twice, *)
(* so observing a cell and attesting it are two steps.                     *)
(***************************************************************************)
EXTENDS LineageCommit

CONSTANTS GroupSize, FirstRound, Schedule, PivotViews, Cycles  \* as in LatticeDag

ASSUME GroupAssumption == /\ Author = Node
                          /\ GroupSize \in Nat
                          /\ FirstRound \in Round
                          /\ Cycles \subseteq Nat
                          /\ PivotViews \subseteq [Cycles -> Node]

VARIABLES
    clock,      \* current_lattice_round()
    published,  \* the cells built, signed and gossiped so far
    parents,    \* the parents field of every published cell
    aggs,       \* the aggregator of every node
    cellSeen,   \* <<cell, by>>: the cell messages handled
    attested,   \* <<cell, by>>: the attestations signed and gossiped
    attSeen,    \* <<cell, signer, by>>: the attestation messages handled
    committed   \* the cells every node's walker committed for every cycle

vars == <<clock, published, parents, aggs, cellSeen, attested, attSeen, committed>>

\* The certificates of an aggregator, as CellCertificate holds them.
CertificatesOf(a) == {[cell |-> c, signers |-> a.signers[c]] : c \in a.certified}

Dag == INSTANCE LatticeDag WITH certs <- [n \in Node |-> CertificatesOf(aggs[n])]

Init ==
    /\ clock = FirstRound
    /\ published = {}
    /\ parents = [c \in Cell |-> {}]
    /\ aggs = [n \in Node |-> NewAggregator(GroupSize)]
    /\ cellSeen = {}
    /\ attested = {}
    /\ attSeen = {}
    /\ committed = [n \in Node |-> [k \in Cycles |-> {}]]

Tick ==
    /\ clock + 1 \in Round
    /\ clock' = clock + 1
    /\ UNCHANGED <<published, parents, aggs, cellSeen, attested, attSeen, committed>>

\* One tick of publisher_loop: build and sign a cell on the certified cells of
\* the round before, feed it to the own aggregator, gossip it.  The author does
\* not attest its own cell.  Nothing another task does between the reading of
\* the parents and the own observe_cell reads what this tick writes.
Publish(n, c) ==
    /\ Dag!PublishCell(n, CertifiedAtRound(aggs[n], clock - 1), c)
    /\ aggs' = [aggs EXCEPT ![n] = ObserveCell(@, c)]
    /\ UNCHANGED <<clock, cellSeen, attested, attSeen, committed>>

\* process_cell_message up to the release of the aggregator lock.
ReceiveCell(n, c) ==
    /\ c \in published
    /\ c.author # n
    /\ <<c, n>> \notin cellSeen
    /\ cellSeen' = cellSeen \cup {<<c, n>>}
    /\ aggs' = [aggs EXCEPT ![n] = ObserveCell(@, c)]
    /\ UNCHANGED <<clock, published, parents, attested, attSeen, committed>>

\* publish_attestation, the rest of process_cell_message: unconditional for
\* every cell of another author.
PublishAttestation(n, c) ==
    /\ <<c, n>> \in cellSeen \ attested
    /\ attested' = attested \cup {<<c, n>>}
    /\ aggs' = [aggs EXCEPT ![n] = ObserveAttestation(@, c, n)]
    /\ UNCHANGED <<clock, published, parents, cellSeen, attSeen, committed>>

\* process_attestation_message
ReceiveAttestation(n, c, s) ==
    /\ <<c, s>> \in attested
    /\ s # n
    /\ <<c, s, n>> \notin attSeen
    /\ attSeen' = attSeen \cup {<<c, s, n>>}
    /\ aggs' = [aggs EXCEPT ![n] = ObserveAttestation(@, c, s)]
    /\ UNCHANGED <<clock, published, parents, cellSeen, attested, committed>>

\* LineageCommit::try_commit on the node's aggregator, for any closed cycle.
Commit(n, k) ==
    /\ Dag!CommitCycle(n, k, aggs[n].certified)
    /\ UNCHANGED <<clock, published, parents, aggs, cellSeen, attested, attSeen>>

\* gc_old_cells at the end of every tick of commit_poller_loop.
Gc(n) ==
    /\ aggs' = [aggs EXCEPT ![n] = GcOldCells(@)]
    /\ UNCHANGED <<clock, published, parents, cellSeen, attested, attSeen, committed>>

Next ==
    \/ Tick
    \/ \E n \in Node, c \in Cell : \/ Publish(n, c)
                                   \/ ReceiveCell(n, c)
                                   \/ PublishAttestation(n, c)
                                   \/ \E s \in Node : ReceiveAttestation(n, c, s)
    \/ \E n \in Node : Gc(n)
    \/ \E n \in Node, k \in Cycles : Commit(n, k)

Spec == Init /\ [][Next]_vars
-----------------------------------------------------------------------------
\* The state has its type.
TypeOK ==
    /\ clock \in Round
    /\ published \subseteq Cell
    /\ parents \in [Cell -> SUBSET Cell]
    /\ aggs \in [Node -> Aggregator]
    /\ cellSeen \subseteq Cell \X Node
    /\ attested \subseteq Cell \X Node
    /\ attSeen \subseteq Cell \X Node \X Node
    /\ committed \in [Node -> [Cycles -> SUBSET Cell]]

\* Every node's aggregator only holds what was really sent: the cells of its
\* tables were published, and the signers counted for a cell attested it.  So
\* no certificate of any node rests on an attestation nobody made.
TablesHoldOnlySentMessages ==
    \A n \in Node :
        /\ aggs[n].pending \cup aggs[n].certified \subseteq published
        /\ \A c \in Cell : \A s \in aggs[n].signers[c] : <<c, s>> \in attested

\* The lattice over gossip implements the DAG of quorum certificates.
ImplementsDag == Dag!Spec

\* Two nodes that commit the same cycle commit the same cells.
CommitAgreement == Dag!CommitAgreement

\* Whatever is committed rests on a quorum of followers.
CommitsHaveFollowers == Dag!CommitsHaveFollowers
=============================================================================
