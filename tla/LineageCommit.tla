--------------------------- MODULE LineageCommit ---------------------------
(***************************************************************************)
(* The lineage commit rule of savitri-consensus lattice/commit.rs, as      *)
(* operators on one node's certified cells.  `par` maps a cell to the      *)
(* cells its parents field names, `q` is the aggregator's quorum.          *)
(***************************************************************************)
EXTENDS CellAggregator

CellsAtRound(cells, r) == {c \in cells : c.round = r}

\* walk_causal_history: the least set that contains c and, with a cell, its
\* certified parents.  A parent that is not in the node's table is skipped
\* together with everything reachable only through it.  The visited cells are
\* delivered in (round, author) order, so the set determines the sequence.
CausalHistory(cells, par, c) ==
    {d \in cells : \A S \in SUBSET cells :
        (c \in S /\ \A e \in S : par[e] \cap cells \subseteq S) => d \in S}

\* The certified cells of the round after the anchor that name it as parent.
Followers(cells, par, k, c) == {d \in CellsAtRound(cells, 2 * k + 1) : c \in par[d]}

\* Mutant of CommittableAnchors: the certified anchor alone commits.
CommittableWithoutFollowers(cells, par, q, k, pivot) ==
    {c \in cells : Slot(c) = <<2 * k, pivot>>}

\* The cells of the pivot's anchor slot with which try_commit decides
\* Committed: none when the anchor is not certified (AnchorNotCertified) or has
\* too few followers (BelowFollowerQuorum), at most one in a consistent table.
CommittableAnchors(cells, par, q, k, pivot) ==
    {c \in cells : /\ Slot(c) = <<2 * k, pivot>>
                   /\ Cardinality(Followers(cells, par, k, c)) >= q}
=============================================================================
