------------------------- MODULE LatticeAggregator -------------------------
(***************************************************************************)
(* One observer: a single LatticeAggregator that is fed cells and          *)
(* attestations in any order, any number of times.                         *)
(***************************************************************************)
EXTENDS CellAggregator

CONSTANTS
    GroupSizes,       \* the group sizes set_group_size may be called with
    InitialGroupSize

ASSUME GroupSizesAssumption == GroupSizes \subseteq Nat /\ InitialGroupSize \in Nat

VARIABLE agg          \* the aggregator record

ObserverInit == agg = NewAggregator(InitialGroupSize)

DoObserveCell(c) == agg' = ObserveCell(agg, c)

DoObserveAttestation(c, s) == agg' = ObserveAttestation(agg, c, s)

DoSetGroupSize(n) == agg' = SetGroupSize(agg, n)

DoGcOldCells == agg' = GcOldCells(agg)

ObserverNext ==
    \/ \E c \in Cell : DoObserveCell(c)
    \/ \E c \in Cell, s \in Node : DoObserveAttestation(c, s)
    \/ \E n \in GroupSizes : DoSetGroupSize(n)
    \/ DoGcOldCells

ObserverSpec == ObserverInit /\ [][ObserverNext]_agg
-----------------------------------------------------------------------------
\* The aggregator record has its type.
ObserverTypeOK == agg \in Aggregator

\* A cell is pending or certified, never both: a certified cell that were
\* pending again could be certified a second time with other attestations.
PendingNotCertified == agg.pending \cap agg.certified = {}

\* Only the cells of the two tables hold attestations, so a cell that was
\* evicted by gc_old_cells, or whose certificate was replaced, starts from
\* zero attestations if it is observed again.
NoStraySigners ==
    \A c \in Cell : agg.signers[c] # {} => c \in agg.pending \cup agg.certified

\* The certified table has one certificate per (round, author).
OneCertificatePerSlot ==
    \A c, d \in agg.certified : Slot(c) = Slot(d) => c = d

\* While the group size is fixed no cell waits in the pending table with a
\* full quorum: the attestation that completes the quorum also certifies.
PendingBelowQuorum ==
    \A c \in agg.pending :
        agg.signers[c] # {} => Cardinality(agg.signers[c]) < AggregatorQuorum(agg)

\* A step that adds a certificate has the quorum of the group size in force.
NewCertificatesHaveQuorum ==
    [][\A c \in agg'.certified \ agg.certified :
          Cardinality(agg'.signers[c]) >= AggregatorQuorum(agg)]_agg

\* The attestations of a cell that stays in the tables are never lost
\* (aggregator.rs: "a re-observation should not lose accumulated
\* attestations").
AttestationsKept ==
    [][\A c \in (agg.pending \cup agg.certified)
                  \cap (agg'.pending \cup agg'.certified) :
          agg.signers[c] \subseteq agg'.signers[c]]_agg

\* A certified slot is emptied by garbage collection only, and only when its
\* round has left the retention window.
CertifiedSlotsRetained ==
    [][\A c \in agg.certified :
          ~(\E d \in agg'.certified : Slot(d) = Slot(c))
              => c.round + RetentionRounds < agg.highWater]_agg
=============================================================================
