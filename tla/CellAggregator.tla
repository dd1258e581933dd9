--------------------------- MODULE CellAggregator ---------------------------
(***************************************************************************)
(* The operations of one LatticeAggregator (savitri-consensus,             *)
(* lattice/aggregator.rs) as operators on an aggregator record, so that    *)
(* both the single-observer specification and the network of lightnodes    *)
(* use the same definitions.                                               *)
(*                                                                         *)
(* A cell is identified by its content (cell_id is a hash of the signable  *)
(* bytes).  Within one slot, that is one author and one round, two cells   *)
(* with different contents differ in `tag`.  Signatures are abstract: a    *)
(* message with a bad signature is rejected without a state change, so it  *)
(* has no step of its own.                                                 *)
(***************************************************************************)
EXTENDS Naturals, FiniteSets, Thresholds

CONSTANTS
    Node,             \* peer ids that sign attestations
    Author,           \* the peers among them that author cells
    Round,            \* lattice rounds
    Tag,              \* distinguishes the contents of cells in one slot
    RetentionRounds,  \* AggregatorConfig.retention_rounds
    MaxAttestations   \* AggregatorConfig.max_attestations_per_cell

ASSUME NodeAssumption == IsFiniteSet(Node) /\ Author \subseteq Node
ASSUME RoundAssumption == Round \subseteq Nat
ASSUME RetentionAssumption == RetentionRounds \in Nat
ASSUME CapAssumption == MaxAttestations \in Nat

Cell == [round : Round, author : Author, tag : Tag]

\* The key of the certified table.
Slot(c) == <<c.round, c.author>>

(***************************************************************************)
(* pending    the cells waiting for attestations                           *)
(* certified  the cells in the certified table, at most one per slot       *)
(* signers    the distinct signers collected for a cell of either table,   *)
(*            {} for every other cell                                      *)
(* highWater  the highest round of an observed cell                        *)
(* groupSize  the group size the quorum is computed from                   *)
(***************************************************************************)
Aggregator == [pending   : SUBSET Cell,
               certified : SUBSET Cell,
               signers   : [Cell -> SUBSET Node],
               highWater : Round \cup {0},
               groupSize : Nat]

NewAggregator(n) == [pending   |-> {},
                     certified |-> {},
                     signers   |-> [c \in Cell |-> {}],
                     highWater |-> 0,
                     groupSize |-> n]

AggregatorQuorum(a) == LatticeQuorum(a.groupSize)

SlotCertified(a, c) == \E d \in a.certified : Slot(d) = Slot(c)

\* Mutants of ObserveCell: the re-observation of a pending cell starts it
\* afresh; the high-water mark runs a cycle ahead; the author's signature is
\* counted as its attestation.
ObserveCellResets(a, c) ==
    [a EXCEPT !.pending = IF SlotCertified(a, c) THEN @ ELSE @ \cup {c},
              !.signers[c] = IF SlotCertified(a, c) THEN @ ELSE {}]
ObserveCellRunsAhead(a, c) ==
    [a EXCEPT !.highWater = IF @ < c.round THEN c.round + 2 ELSE @,
              !.pending = IF SlotCertified(a, c) THEN @ ELSE @ \cup {c}]
ObserveCellAuthorSigns(a, c) ==
    IF SlotCertified(a, c) THEN a
    ELSE [a EXCEPT !.pending = @ \cup {c}, !.signers[c] = @ \cup {c.author}]

\* observe_cell: a cell of a certified slot is ignored, a pending cell keeps
\* the attestations it has.
ObserveCell(a, c) ==
    [a EXCEPT !.highWater = IF @ < c.round THEN c.round ELSE @,
              !.pending = IF SlotCertified(a, c) THEN @ ELSE @ \cup {c}]

\* Mutants of Certify: the promoted cell stays pending; the table is keyed by
\* cell id, so it keeps a certificate for each cell of a slot.
CertifyKeepsPending(a, c, att) ==
    LET replaced == {d \in a.certified : Slot(d) = Slot(c)}
    IN  [a EXCEPT !.certified = (@ \ replaced) \cup {c},
                  !.signers = [d \in Cell |-> IF d = c THEN att
                                              ELSE IF d \in replaced THEN {}
                                              ELSE @[d]]]
CertifyByCellId(a, c, att) ==
    [a EXCEPT !.pending = @ \ {c}, !.certified = @ \cup {c}, !.signers[c] = att]

\* The promotion in observe_attestation: certified.insert overwrites the
\* certificate another cell of the slot may have.
Certify(a, c, att) ==
    LET replaced == {d \in a.certified : Slot(d) = Slot(c)}
    IN  [a EXCEPT !.pending = @ \ {c},
                  !.certified = (@ \ replaced) \cup {c},
                  !.signers = [d \in Cell |-> IF d = c THEN att
                                              ELSE IF d \in replaced THEN {}
                                              ELSE @[d]]]

\* An attestation of an unknown or already certified cell, and a new signer
\* beyond the cap, change nothing.
AttestationCounts(a, c, s) ==
    /\ c \in a.pending
    /\ Cardinality(a.signers[c]) < MaxAttestations \/ s \in a.signers[c]

\* Mutants of ObserveAttestation: a repeated attestation counts again; the
\* quorum must be exceeded.
ObserveAttestationRecounts(a, c, s) ==
    LET att == a.signers[c] \cup {s}
    IN  IF ~AttestationCounts(a, c, s) THEN a
        ELSE IF Cardinality(a.signers[c]) + 1 >= AggregatorQuorum(a) THEN Certify(a, c, att)
        ELSE [a EXCEPT !.signers[c] = att]
ObserveAttestationExceeds(a, c, s) ==
    LET att == a.signers[c] \cup {s}
    IN  IF ~AttestationCounts(a, c, s) THEN a
        ELSE IF Cardinality(att) > AggregatorQuorum(a) THEN Certify(a, c, att)
        ELSE [a EXCEPT !.signers[c] = att]

\* observe_attestation
ObserveAttestation(a, c, s) ==
    LET att == a.signers[c] \cup {s}
    IN  IF ~AttestationCounts(a, c, s) THEN a
        ELSE IF Cardinality(att) >= AggregatorQuorum(a) THEN Certify(a, c, att)
        ELSE [a EXCEPT !.signers[c] = att]

\* u64::saturating_sub
SaturatingSub(m, n) == IF m >= n THEN m - n ELSE 0

\* Mutant of GcOldCells: the oldest round of the window is evicted too.
GcOneRoundMore(a) ==
    LET cutoff == SaturatingSub(a.highWater, RetentionRounds)
        Old(c) == c.round <= cutoff
    IN  [a EXCEPT !.pending = {c \in @ : ~Old(c)},
                  !.certified = {c \in @ : ~Old(c)},
                  !.signers = [c \in Cell |-> IF Old(c) THEN {} ELSE @[c]]]

\* gc_old_cells
GcOldCells(a) ==
    LET cutoff == SaturatingSub(a.highWater, RetentionRounds)
        Old(c) == c.round < cutoff
    IN  [a EXCEPT !.pending = {c \in @ : ~Old(c)},
                  !.certified = {c \in @ : ~Old(c)},
                  !.signers = [c \in Cell |-> IF Old(c) THEN {} ELSE @[c]]]

\* set_group_size: only the threshold changes, nothing is re-evaluated.
SetGroupSize(a, n) == [a EXCEPT !.groupSize = n]

\* certified_at_round
CertifiedAtRound(a, r) == {c \in a.certified : c.round = r}
-----------------------------------------------------------------------------
\* What the operations keep about one aggregator record: a cell is in at most
\* one table, only cells of the tables hold attestations, and a slot has one
\* certificate.
TablesConsistent(a) ==
    /\ a.pending \cap a.certified = {}
    /\ \A c \in Cell : a.signers[c] # {} => c \in a.pending \cup a.certified
    /\ \A c, d \in a.certified : Slot(c) = Slot(d) => c = d
=============================================================================
