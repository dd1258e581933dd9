----------------------------- MODULE LatticeDag -----------------------------
(***************************************************************************)
(* What the lattice promises, without messages: a DAG of signed cells, the *)
(* attestations each cell collected, and per node the table of cells it    *)
(* holds a quorum certificate for.  Module Lattice, the runtime over       *)
(* gossip, implements this specification.                                  *)
(*                                                                         *)
(* The wall clock is one shared round counter.  A publisher's tick may     *)
(* fall anywhere in a round, also twice or not at all: tokio's interval    *)
(* with MissedTickBehavior::Skip keeps its own phase, a late tick is       *)
(* handled in the next second, where the following tick falls too.         *)
(***************************************************************************)
EXTENDS LineageCommit

CONSTANTS
    GroupSize,     \* AggregatorConfig.group_size, never changed at run time
    FirstRound,    \* the wall-clock round at which the group starts
    Schedule,      \* the <<round, node>> pairs at which a publisher may tick
    PivotViews,    \* the pivot schedules observers may compute, cycle -> node
    Cycles         \* the cycles in reach of the bounded clock

ASSUME GroupAssumption == /\ Author = Node
                          /\ GroupSize \in Nat
                          /\ FirstRound \in Round
                          /\ Cycles \subseteq Nat
                          /\ PivotViews \subseteq [Cycles -> Node]

VARIABLES
    clock,      \* current_lattice_round()
    published,  \* the cells built and signed so far
    parents,    \* the parents field of every published cell
    attested,   \* <<cell, node>>: the node signed an attestation of the cell
    certs,      \* certs[n]: the certificates in node n's table
    committed   \* committed[n][k]: the cells node n committed for cycle k, {}
                \* if it has not committed k

vars == <<clock, published, parents, attested, certs, committed>>

Certificate == [cell : Cell, signers : SUBSET Node]

CellsOf(table) == {x.cell : x \in table}

Init ==
    /\ clock = FirstRound
    /\ published = {}
    /\ parents = [c \in Cell |-> {}]
    /\ attested = {}
    /\ certs = [n \in Node |-> {}]
    /\ committed = [n \in Node |-> [k \in Cycles |-> {}]]

Tick ==
    /\ clock + 1 \in Round
    /\ clock' = clock + 1
    /\ UNCHANGED <<published, parents, attested, certs, committed>>

\* n builds a cell on its certified cells of the round before.  A cell with
\* the content of one already published has the same id; any other content
\* needs an unused tag.
PublishCell(n, ps, c) ==
    /\ <<clock, n>> \in Schedule
    /\ Slot(c) = <<clock, n>>
    /\ IF \E d \in published : Slot(d) = Slot(c) /\ parents[d] = ps
       THEN c \in published /\ parents[c] = ps
       ELSE c \notin published
    /\ published' = published \cup {c}
    /\ parents' = [parents EXCEPT ![c] = ps]

Publish(n, c) ==
    /\ PublishCell(n, CellsAtRound(CellsOf(certs[n]), clock - 1), c)
    /\ UNCHANGED <<clock, attested, certs, committed>>

Attesters(att, c) == {s \in Node : <<c, s>> \in att}

\* Mutant of AddCertificate: f attestations instead of 2f+1.
AddCertificateByF(n, c, att) ==
    /\ c \notin CellsOf(certs[n])
    /\ \E Q \in SUBSET Attesters(att, c) :
        /\ Cardinality(Q) >= (GroupSize - 1) \div 3
        /\ certs' = [certs EXCEPT ![n] = {x \in @ : Slot(x.cell) # Slot(c)}
                                            \cup {[cell |-> c, signers |-> Q]}]

\* Node n enters a certificate of c, signed by a quorum of those that attested
\* it, into its table; the slot holds one certificate.  A certificate it holds
\* keeps its signers: later attestations do not make a new one.
AddCertificate(n, c, att) ==
    /\ c \notin CellsOf(certs[n])
    /\ \E Q \in SUBSET Attesters(att, c) :
        /\ Cardinality(Q) >= LatticeQuorum(GroupSize)
        /\ certs' = [certs EXCEPT ![n] = {x \in @ : Slot(x.cell) # Slot(c)}
                                            \cup {[cell |-> c, signers |-> Q]}]

\* A node attests the cell of another node; its own attestation may be the
\* one that completes the quorum at that node.
Attest(n, c) ==
    /\ c \in published
    /\ n # c.author
    /\ <<c, n>> \notin attested
    /\ attested' = attested \cup {<<c, n>>}
    /\ UNCHANGED certs \/ AddCertificate(n, c, attested')
    /\ UNCHANGED <<clock, published, parents, committed>>

Certified(n, c) ==
    /\ c \in published
    /\ AddCertificate(n, c, attested)
    /\ UNCHANGED <<clock, published, parents, attested, committed>>

\* Garbage collection: a node forgets the certificates of its oldest rounds.
Forget(n, R) ==
    /\ \A r \in R, s \in Round : s < r => s \in R
    /\ \E x \in certs[n] : x.cell.round \in R
    /\ certs' = [certs EXCEPT ![n] = {x \in @ : x.cell.round \notin R}]
    /\ UNCHANGED <<clock, published, parents, attested, committed>>

\* The cycles up to current_cycle - 1 are closed.
MaxAttemptCycle == SaturatingSub(clock \div 2, 1)

\* try_commit decides Committed for cycle k on the table of n.
CommitCycle(n, k, cells) ==
    /\ k <= MaxAttemptCycle
    /\ committed[n][k] = {}
    /\ \E view \in PivotViews :
         \E c \in CommittableAnchors(cells, parents, LatticeQuorum(GroupSize), k, view[k]) :
            committed' = [committed EXCEPT ![n][k] = CausalHistory(cells, parents, c)]

Commit(n, k) ==
    /\ CommitCycle(n, k, CellsOf(certs[n]))
    /\ UNCHANGED <<clock, published, parents, attested, certs>>

Next ==
    \/ Tick
    \/ \E n \in Node, c \in Cell : \/ Publish(n, c)
                                   \/ Attest(n, c)
                                   \/ Certified(n, c)
    \/ \E n \in Node, R \in SUBSET Round : Forget(n, R)
    \/ \E n \in Node, k \in Cycles : Commit(n, k)

Spec == Init /\ [][Next]_vars
-----------------------------------------------------------------------------
\* The state has its type.
TypeOK ==
    /\ clock \in Round
    /\ published \subseteq Cell
    /\ parents \in [Cell -> SUBSET Cell]
    /\ attested \subseteq Cell \X Node
    /\ certs \in [Node -> SUBSET Certificate]
    /\ committed \in [Node -> [Cycles -> SUBSET Cell]]

\* Two nodes that certified different cells of one slot share a signer: the
\* quorums of lattice_quorum overlap among the nodes that may attest, so a
\* slot is contested only if some node attested both cells.
ConflictsShareASigner ==
    \A m, n \in Node :
        \A x \in certs[m], y \in certs[n] :
            Slot(x.cell) = Slot(y.cell) => x.signers \cap y.signers # {}

\* Whatever is committed rests on a quorum: among the committed cells is an
\* anchor of the cycle that cells of a quorum of distinct authors, published
\* in the next round, name as a parent.
CommitsHaveFollowers ==
    \A n \in Node, k \in Cycles :
        committed[n][k] # {} =>
            \E c \in committed[n][k] :
                /\ c.round = 2 * k
                /\ Cardinality({d.author : d \in Followers(published, parents, k, c)})
                      >= LatticeQuorum(GroupSize)

\* Whatever is committed was attested: for each cell of a committed cycle, the
\* anchor as well as the cells the causal walk adds, a quorum of nodes other than
\* its author signed an attestation.
CommitsAreAttested ==
    \A n \in Node, k \in Cycles : \A c \in committed[n][k] :
        Cardinality(Attesters(attested, c) \ {c.author}) >= LatticeQuorum(GroupSize)

\* Two nodes that commit the same cycle commit the same cells.
CommitAgreement ==
    \A m, n \in Node, k \in Cycles :
        committed[m][k] # {} /\ committed[n][k] # {} => committed[m][k] = committed[n][k]
=============================================================================
