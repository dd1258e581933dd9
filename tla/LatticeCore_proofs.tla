------------------------- MODULE LatticeCore_proofs -------------------------
(***************************************************************************)
(* Proofs about the lattice without gossip: one LatticeAggregator, for     *)
(* every set of nodes, rounds and group sizes, and the DAG of quorum       *)
(* certificates that the runtime implements, for every group, clock,       *)
(* publishing schedule and pivot schedule.                                 *)
(***************************************************************************)
EXTENDS LatticeAggregator, LatticeDag, FiniteSetTheorems, TLAPS
-----------------------------------------------------------------------------
(* One aggregator *)

\* The quorum of a group is a natural number, and at least 1 for a non-empty
\* group.
LEMMA LatticeQuorumType ==
    ASSUME NEW n \in Nat
    PROVE  LatticeQuorum(n) \in Nat /\ (n # 0 => LatticeQuorum(n) >= 1)
  BY DEF LatticeQuorum

\* observe_cell keeps the aggregator's type.
LEMMA ObserveCellType ==
    ASSUME NEW a \in Aggregator, NEW c \in Cell
    PROVE  ObserveCell(a, c) \in Aggregator
  BY RoundAssumption, Zenon DEF ObserveCell, Aggregator, Cell

\* Promoting a cell keeps the aggregator's type.
LEMMA CertifyType ==
    ASSUME NEW a \in Aggregator, NEW c \in Cell, NEW att \in SUBSET Node
    PROVE  Certify(a, c, att) \in Aggregator
  BY Zenon DEF Certify, Aggregator

\* observe_attestation keeps the aggregator's type.
LEMMA ObserveAttestationType ==
    ASSUME NEW a \in Aggregator, NEW c \in Cell, NEW s \in Node
    PROVE  ObserveAttestation(a, c, s) \in Aggregator
<1> DEFINE att == a.signers[c] \cup {s}
<1>1. att \in SUBSET Node
  BY DEF Aggregator
<1>2. Certify(a, c, att) \in Aggregator
  BY <1>1, CertifyType
<1>3. [a EXCEPT !.signers[c] = att] \in Aggregator
  BY <1>1 DEF Aggregator
<1> QED
  BY <1>2, <1>3 DEF ObserveAttestation

\* gc_old_cells keeps the aggregator's type.
LEMMA GcOldCellsType ==
    ASSUME NEW a \in Aggregator
    PROVE  GcOldCells(a) \in Aggregator
  BY Zenon DEF GcOldCells, Aggregator
-----------------------------------------------------------------------------
\* observe_cell keeps the tables consistent: a cell of a certified slot does
\* not enter the pending table.
LEMMA ObserveCellConsistent ==
    ASSUME NEW a \in Aggregator, NEW c \in Cell, TablesConsistent(a)
    PROVE  TablesConsistent(ObserveCell(a, c))
<1> DEFINE b == ObserveCell(a, c)
<1>1. /\ b.certified = a.certified
      /\ b.signers = a.signers
      /\ b.pending = IF SlotCertified(a, c) THEN a.pending ELSE a.pending \cup {c}
  BY DEF ObserveCell, Aggregator
<1>2. c \in a.certified => SlotCertified(a, c)
  BY DEF SlotCertified
<1> QED
  BY <1>1, <1>2 DEF TablesConsistent

\* Promotion keeps the tables consistent: the cell leaves the pending table and
\* displaces whatever certificate its slot had.
LEMMA CertifyConsistent ==
    ASSUME NEW a \in Aggregator, NEW c \in Cell, NEW att \in SUBSET Node,
           TablesConsistent(a)
    PROVE  TablesConsistent(Certify(a, c, att))
<1> DEFINE b == Certify(a, c, att)
           replaced == {d \in a.certified : Slot(d) = Slot(c)}
<1>1. /\ b.pending = a.pending \ {c}
      /\ b.certified = (a.certified \ replaced) \cup {c}
      /\ b.signers = [d \in Cell |-> IF d = c THEN att
                                     ELSE IF d \in replaced THEN {}
                                     ELSE a.signers[d]]
  BY DEF Certify, Aggregator
<1>2. b.pending \cap b.certified = {}
  BY <1>1 DEF TablesConsistent
<1>3. ASSUME NEW d \in Cell, b.signers[d] # {}
      PROVE  d \in b.pending \cup b.certified
  BY <1>1, <1>3 DEF TablesConsistent
<1>4. ASSUME NEW d \in b.certified, NEW e \in b.certified, Slot(d) = Slot(e)
      PROVE  d = e
  BY <1>1, <1>4 DEF TablesConsistent
<1> QED
  BY <1>2, <1>3, <1>4 DEF TablesConsistent

\* observe_attestation keeps the tables consistent.
LEMMA ObserveAttestationConsistent ==
    ASSUME NEW a \in Aggregator, NEW c \in Cell, NEW s \in Node,
           TablesConsistent(a)
    PROVE  TablesConsistent(ObserveAttestation(a, c, s))
<1> DEFINE att == a.signers[c] \cup {s}
           b == [a EXCEPT !.signers[c] = att]
<1>1. att \in SUBSET Node
  BY DEF Aggregator
<1>2. TablesConsistent(Certify(a, c, att))
  BY <1>1, CertifyConsistent
<1>3. ASSUME c \in a.pending PROVE TablesConsistent(b)
  <2>1. /\ b.pending = a.pending
        /\ b.certified = a.certified
        /\ \A d \in Cell : b.signers[d] = IF d = c THEN att ELSE a.signers[d]
    BY DEF Aggregator
  <2> QED
    BY <1>3, <2>1 DEF TablesConsistent
<1> QED
  BY <1>2, <1>3 DEF ObserveAttestation, AttestationCounts

\* gc_old_cells keeps the tables consistent: an evicted cell loses its
\* attestations together with its table entry.
LEMMA GcOldCellsConsistent ==
    ASSUME NEW a \in Aggregator, TablesConsistent(a)
    PROVE  TablesConsistent(GcOldCells(a))
<1> DEFINE cutoff == SaturatingSub(a.highWater, RetentionRounds)
           b == GcOldCells(a)
<1>1. /\ b.pending = {c \in a.pending : ~(c.round < cutoff)}
      /\ b.certified = {c \in a.certified : ~(c.round < cutoff)}
      /\ b.signers = [c \in Cell |-> IF c.round < cutoff THEN {} ELSE a.signers[c]]
  BY DEF GcOldCells, Aggregator
<1> QED
  BY <1>1 DEF TablesConsistent
-----------------------------------------------------------------------------
\* The type invariant: every operation of the aggregator, in any order, keeps
\* its record well-formed.
THEOREM ObserverTypeCorrect == ObserverSpec => []ObserverTypeOK
<1>1. ObserverInit => ObserverTypeOK
  BY GroupSizesAssumption DEF ObserverInit, ObserverTypeOK, NewAggregator, Aggregator
<1>2. ObserverTypeOK /\ [ObserverNext]_agg => ObserverTypeOK'
  <2> SUFFICES ASSUME ObserverTypeOK, [ObserverNext]_agg PROVE ObserverTypeOK'
    OBVIOUS
  <2>1. ASSUME NEW c \in Cell, DoObserveCell(c) PROVE ObserverTypeOK'
    BY <2>1, ObserveCellType DEF DoObserveCell, ObserverTypeOK
  <2>2. ASSUME NEW c \in Cell, NEW s \in Node, DoObserveAttestation(c, s)
        PROVE  ObserverTypeOK'
    BY <2>2, ObserveAttestationType DEF DoObserveAttestation, ObserverTypeOK
  <2>3. ASSUME NEW n \in GroupSizes, DoSetGroupSize(n) PROVE ObserverTypeOK'
    BY <2>3, GroupSizesAssumption
       DEF DoSetGroupSize, SetGroupSize, ObserverTypeOK, Aggregator
  <2>4. CASE DoGcOldCells
    BY <2>4, GcOldCellsType DEF DoGcOldCells, ObserverTypeOK
  <2>5. CASE UNCHANGED agg
    BY <2>5 DEF ObserverTypeOK
  <2> QED
    BY <2>1, <2>2, <2>3, <2>4, <2>5 DEF ObserverNext
<1> QED
  BY <1>1, <1>2, PTL DEF ObserverSpec

\* In every reachable state of the aggregator no cell is both pending and
\* certified, evicted or displaced cells hold no attestations, and a slot of
\* the certified table has one certificate.
THEOREM TablesStayConsistent ==
    ObserverSpec => [](PendingNotCertified /\ NoStraySigners /\ OneCertificatePerSlot)
<1>1. ObserverInit => TablesConsistent(agg)
  BY DEF ObserverInit, NewAggregator, TablesConsistent
<1>2. ObserverTypeOK /\ TablesConsistent(agg) /\ [ObserverNext]_agg => TablesConsistent(agg)'
  <2> SUFFICES ASSUME ObserverTypeOK, TablesConsistent(agg), [ObserverNext]_agg
               PROVE  TablesConsistent(agg')
    BY DEF TablesConsistent
  <2>1. ASSUME NEW c \in Cell, DoObserveCell(c) PROVE TablesConsistent(agg')
    BY <2>1, ObserveCellConsistent DEF DoObserveCell, ObserverTypeOK
  <2>2. ASSUME NEW c \in Cell, NEW s \in Node, DoObserveAttestation(c, s)
        PROVE  TablesConsistent(agg')
    BY <2>2, ObserveAttestationConsistent DEF DoObserveAttestation, ObserverTypeOK
  <2>3. ASSUME NEW n \in GroupSizes, DoSetGroupSize(n)
        PROVE  TablesConsistent(agg')
    <3>1. /\ agg'.pending = agg.pending
          /\ agg'.certified = agg.certified
          /\ agg'.signers = agg.signers
      BY <2>3 DEF DoSetGroupSize, SetGroupSize, ObserverTypeOK, Aggregator
    <3> QED
      BY <3>1 DEF TablesConsistent
  <2>4. CASE DoGcOldCells
    BY <2>4, GcOldCellsConsistent DEF DoGcOldCells, ObserverTypeOK
  <2>5. CASE UNCHANGED agg
    BY <2>5
  <2> QED
    BY <2>1, <2>2, <2>3, <2>4, <2>5 DEF ObserverNext
<1>3. TablesConsistent(agg) =>
          PendingNotCertified /\ NoStraySigners /\ OneCertificatePerSlot
  BY DEF TablesConsistent, PendingNotCertified, NoStraySigners, OneCertificatePerSlot
<1> QED
  BY <1>1, <1>2, <1>3, ObserverTypeCorrect, PTL DEF ObserverSpec

\* observe_attestation is the only way into the certified table, and it adds a
\* certificate only with the quorum of the group size in force at that moment.
THEOREM CertificatesHaveQuorum == ObserverSpec => NewCertificatesHaveQuorum
<1> DEFINE Good == \A c \in agg'.certified \ agg.certified :
                       Cardinality(agg'.signers[c]) >= AggregatorQuorum(agg)
<1>1. ObserverTypeOK /\ [ObserverNext]_agg => [Good]_agg
  <2> SUFFICES ASSUME ObserverTypeOK, ObserverNext PROVE Good
    BY DEF ObserverTypeOK
  <2>1. ASSUME NEW c \in Cell, DoObserveCell(c) PROVE Good
    BY <2>1 DEF DoObserveCell, ObserveCell, ObserverTypeOK, Aggregator
  <2>2. ASSUME NEW c \in Cell, NEW s \in Node, DoObserveAttestation(c, s)
        PROVE  Good
    <3> DEFINE att == agg.signers[c] \cup {s}
    <3>1. CASE agg' = agg
      BY <3>1
    <3>2. CASE agg' = Certify(agg, c, att) /\ Cardinality(att) >= AggregatorQuorum(agg)
      <4>1. /\ agg'.certified \subseteq agg.certified \cup {c}
            /\ agg'.signers[c] = att
        BY <3>2 DEF Certify, ObserverTypeOK, Aggregator
      <4> QED
        BY <3>2, <4>1, Zenon
    <3>3. CASE agg' = [agg EXCEPT !.signers[c] = att]
      BY <3>3 DEF ObserverTypeOK, Aggregator
    <3> QED
      BY <2>2, <3>1, <3>2, <3>3 DEF DoObserveAttestation, ObserveAttestation
  <2>3. ASSUME NEW n \in GroupSizes, DoSetGroupSize(n) PROVE Good
    BY <2>3 DEF DoSetGroupSize, SetGroupSize, ObserverTypeOK, Aggregator
  <2>4. CASE DoGcOldCells
    <3>1. agg'.certified \subseteq agg.certified
      BY <2>4 DEF DoGcOldCells, GcOldCells, ObserverTypeOK, Aggregator
    <3> QED
      BY <3>1
  <2> QED
    BY <2>1, <2>2, <2>3, <2>4 DEF ObserverNext
<1> QED
  BY <1>1, ObserverTypeCorrect, PTL DEF ObserverSpec, NewCertificatesHaveQuorum

\* While the group size does not change, no cell with attestations waits in the
\* pending table although it has its quorum: the deciding attestation certifies
\* it in the same step.
THEOREM NoQuorumLeftPending ==
    ASSUME GroupSizes \subseteq {InitialGroupSize}
    PROVE  ObserverSpec => []PendingBelowQuorum
<1> DEFINE Inv == PendingBelowQuorum /\ agg.groupSize = InitialGroupSize
<1>1. ObserverInit => Inv
  BY DEF ObserverInit, NewAggregator, PendingBelowQuorum
<1>2. ObserverTypeOK /\ NoStraySigners /\ Inv /\ [ObserverNext]_agg => Inv'
  <2> SUFFICES ASSUME ObserverTypeOK, NoStraySigners, Inv, [ObserverNext]_agg PROVE Inv'
    OBVIOUS
  <2>1. ASSUME NEW c \in Cell, DoObserveCell(c) PROVE Inv'
    <3>1. /\ agg'.pending = IF SlotCertified(agg, c) THEN agg.pending
                            ELSE agg.pending \cup {c}
          /\ agg'.signers = agg.signers
          /\ agg'.groupSize = agg.groupSize
      BY <2>1 DEF DoObserveCell, ObserveCell, ObserverTypeOK, Aggregator
    <3>2. c \in agg'.pending \ agg.pending => agg.signers[c] = {}
      BY <3>1 DEF NoStraySigners, SlotCertified
    <3> QED
      BY <3>1, <3>2 DEF PendingBelowQuorum, AggregatorQuorum
  <2>2. ASSUME NEW c \in Cell, NEW s \in Node, DoObserveAttestation(c, s)
        PROVE  Inv'
    <3> DEFINE att == agg.signers[c] \cup {s}
    <3>1. CASE agg' = agg
      BY <3>1 DEF PendingBelowQuorum, AggregatorQuorum
    <3>2. CASE agg' = Certify(agg, c, att)
      <4>1. /\ agg'.pending = agg.pending \ {c}
            /\ \A d \in Cell : d # c => agg'.signers[d] \in {{}, agg.signers[d]}
            /\ agg'.groupSize = agg.groupSize
        BY <3>2 DEF Certify, ObserverTypeOK, Aggregator
      <4> QED
        BY <4>1 DEF PendingBelowQuorum, AggregatorQuorum, ObserverTypeOK, Aggregator
    <3>3. CASE /\ agg' = [agg EXCEPT !.signers[c] = att]
               /\ ~(Cardinality(att) >= AggregatorQuorum(agg))
      <4>1. /\ agg'.pending = agg.pending
            /\ \A d \in Cell : agg'.signers[d] = IF d = c THEN att ELSE agg.signers[d]
            /\ agg'.groupSize = agg.groupSize
        BY <3>3 DEF ObserverTypeOK, Aggregator
      <4>2. Cardinality(att) \in Nat /\ AggregatorQuorum(agg) \in Nat
        <5>1. IsFiniteSet(att)
          BY NodeAssumption, FS_Subset DEF ObserverTypeOK, Aggregator
        <5> QED
          BY <5>1, FS_CardinalityType, LatticeQuorumType
             DEF AggregatorQuorum, ObserverTypeOK, Aggregator
      <4> QED
        BY <3>3, <4>1, <4>2 DEF PendingBelowQuorum, AggregatorQuorum, ObserverTypeOK, Aggregator
    <3> QED
      BY <2>2, <3>1, <3>2, <3>3 DEF DoObserveAttestation, ObserveAttestation
  <2>3. ASSUME NEW n \in GroupSizes, DoSetGroupSize(n) PROVE Inv'
    BY <2>3 DEF DoSetGroupSize, SetGroupSize, ObserverTypeOK, Aggregator,
                PendingBelowQuorum, AggregatorQuorum
  <2>4. CASE DoGcOldCells
    <3>1. /\ agg'.pending \subseteq agg.pending
          /\ \A d \in Cell : agg'.signers[d] \in {{}, agg.signers[d]}
          /\ agg'.groupSize = agg.groupSize
      BY <2>4 DEF DoGcOldCells, GcOldCells, ObserverTypeOK, Aggregator
    <3> QED
      BY <3>1 DEF PendingBelowQuorum, AggregatorQuorum, ObserverTypeOK, Aggregator
  <2>5. CASE UNCHANGED agg
    BY <2>5 DEF PendingBelowQuorum, AggregatorQuorum
  <2> QED
    BY <2>1, <2>2, <2>3, <2>4, <2>5 DEF ObserverNext
<1> QED
  BY <1>1, <1>2, ObserverTypeCorrect, TablesStayConsistent, PTL DEF ObserverSpec
\* No cell is both pending and certified.
THEOREM PendingStaysUncertified == ObserverSpec => []PendingNotCertified
BY TablesStayConsistent, PTL

\* A cell that is in the tables before and after a step keeps the attestations it
\* had.  A promotion takes the attestations of the certificate it displaces, but
\* that cell is in no table afterwards: it was certified, hence not pending.
THEOREM AttestationsAreKept == ObserverSpec => AttestationsKept
<1> DEFINE Kept == \A c \in (agg.pending \cup agg.certified)
                              \cap (agg'.pending \cup agg'.certified) :
                       agg.signers[c] \subseteq agg'.signers[c]
<1>1. ObserverTypeOK /\ PendingNotCertified /\ [ObserverNext]_agg => [Kept]_agg
  <2> SUFFICES ASSUME ObserverTypeOK, PendingNotCertified, ObserverNext PROVE Kept
    BY DEF ObserverTypeOK
  <2>0. agg.pending \subseteq Cell /\ agg.certified \subseteq Cell
    BY DEF ObserverTypeOK, Aggregator
  <2>1. ASSUME NEW c \in Cell, DoObserveCell(c) PROVE Kept
    BY <2>1 DEF DoObserveCell, ObserveCell, ObserverTypeOK, Aggregator
  <2>2. ASSUME NEW c \in Cell, NEW s \in Node, DoObserveAttestation(c, s)
        PROVE  Kept
    <3> DEFINE att == agg.signers[c] \cup {s}
               replaced == {d \in agg.certified : Slot(d) = Slot(c)}
    <3>1. CASE agg' = agg
      BY <3>1
    <3>2. CASE agg' = Certify(agg, c, att)
      <4>1. /\ agg'.pending = agg.pending \ {c}
            /\ agg'.certified = (agg.certified \ replaced) \cup {c}
            /\ agg'.signers = [d \in Cell |-> IF d = c THEN att
                                              ELSE IF d \in replaced THEN {}
                                              ELSE agg.signers[d]]
        BY <3>2 DEF Certify, ObserverTypeOK, Aggregator
      <4>2. ASSUME NEW d \in replaced, d # c
            PROVE  d \notin agg'.pending \cup agg'.certified
        BY <4>1, <4>2 DEF PendingNotCertified
      <4>3. ASSUME NEW d \in Cell, d \notin replaced \/ d = c
            PROVE  agg.signers[d] \subseteq agg'.signers[d]
        BY <4>1, <4>3, Zenon
      <4> QED
        BY <2>0, <4>2, <4>3, Zenon
    <3>3. CASE agg' = [agg EXCEPT !.signers[c] = att]
      BY <2>0, <3>3 DEF ObserverTypeOK, Aggregator
    <3> QED
      BY <2>2, <3>1, <3>2, <3>3 DEF DoObserveAttestation, ObserveAttestation
  <2>3. ASSUME NEW n \in GroupSizes, DoSetGroupSize(n) PROVE Kept
    BY <2>3 DEF DoSetGroupSize, SetGroupSize, ObserverTypeOK, Aggregator
  <2>4. CASE DoGcOldCells
    <3> DEFINE cutoff == SaturatingSub(agg.highWater, RetentionRounds)
    <3>1. /\ agg'.pending = {c \in agg.pending : ~(c.round < cutoff)}
          /\ agg'.certified = {c \in agg.certified : ~(c.round < cutoff)}
          /\ agg'.signers = [c \in Cell |-> IF c.round < cutoff THEN {} ELSE agg.signers[c]]
      BY <2>4 DEF DoGcOldCells, GcOldCells, ObserverTypeOK, Aggregator
    <3>2. ASSUME NEW c \in agg'.pending \cup agg'.certified
          PROVE  agg'.signers[c] = agg.signers[c]
      <4>1. c \in Cell /\ ~(c.round < cutoff)
        BY <2>0, <3>1, Zenon
      <4> QED
        BY <3>1, <4>1, Zenon
    <3> QED
      BY <3>2, Zenon
  <2> QED
    BY <2>1, <2>2, <2>3, <2>4 DEF ObserverNext
<1> QED
  BY <1>1, ObserverTypeCorrect, TablesStayConsistent, PTL DEF ObserverSpec, AttestationsKept

\* A certified slot is only emptied by gc_old_cells, and only once its round is
\* more than the retention window behind the highest round observed.
THEOREM CertifiedSlotsAreRetained == ObserverSpec => CertifiedSlotsRetained
<1> DEFINE Left(c) == ~(\E d \in agg'.certified : Slot(d) = Slot(c))
           Retained == \A c \in agg.certified :
                          Left(c) => c.round + RetentionRounds < agg.highWater
<1>1. ObserverTypeOK /\ [ObserverNext]_agg => [Retained]_agg
  <2> SUFFICES ASSUME ObserverTypeOK, ObserverNext, NEW e \in agg.certified, Left(e)
               PROVE  e.round + RetentionRounds < agg.highWater
    BY DEF ObserverTypeOK
  <2>0. e \notin agg'.certified
    BY Zenon
  <2>1. ASSUME NEW c \in Cell, DoObserveCell(c) PROVE FALSE
    BY <2>0, <2>1 DEF DoObserveCell, ObserveCell, ObserverTypeOK, Aggregator
  <2>2. ASSUME NEW c \in Cell, NEW s \in Node, DoObserveAttestation(c, s)
        PROVE  FALSE
    <3> DEFINE att == agg.signers[c] \cup {s}
    <3>1. CASE agg'.certified = agg.certified
      BY <2>0, <3>1
    <3>2. CASE agg' = Certify(agg, c, att)
      <4>1. agg'.certified
              = (agg.certified \ {d \in agg.certified : Slot(d) = Slot(c)}) \cup {c}
        BY <3>2 DEF Certify, ObserverTypeOK, Aggregator
      <4>2. Slot(e) = Slot(c) /\ c \in agg'.certified
        BY <2>0, <4>1, Zenon
      <4> QED
        BY <4>2, Zenon
    <3> QED
      BY <2>2, <3>1, <3>2 DEF DoObserveAttestation, ObserveAttestation, ObserverTypeOK, Aggregator
  <2>3. ASSUME NEW n \in GroupSizes, DoSetGroupSize(n) PROVE FALSE
    BY <2>0, <2>3 DEF DoSetGroupSize, SetGroupSize, ObserverTypeOK, Aggregator
  <2>4. CASE DoGcOldCells
    <3> DEFINE cutoff == SaturatingSub(agg.highWater, RetentionRounds)
    <3>1. agg'.certified = {c \in agg.certified : ~(c.round < cutoff)}
      BY <2>4 DEF DoGcOldCells, GcOldCells, ObserverTypeOK, Aggregator
    <3>2. e.round < cutoff
      BY <2>0, <3>1, Zenon
    <3>3. e.round \in Nat /\ agg.highWater \in Nat /\ RetentionRounds \in Nat
      <4>1. e \in Cell /\ agg.highWater \in Round \cup {0}
        BY DEF ObserverTypeOK, Aggregator
      <4>2. e.round \in Round
        BY <4>1 DEF Cell
      <4>3. 0 \in Nat
        OBVIOUS
      <4> QED
        BY <4>1, <4>2, <4>3, RoundAssumption, RetentionAssumption, Zenon
    <3> QED
      BY <3>2, <3>3 DEF SaturatingSub
  <2> QED
    BY <2>1, <2>2, <2>3, <2>4 DEF ObserverNext
<1> QED
  BY <1>1, ObserverTypeCorrect, PTL DEF ObserverSpec, CertifiedSlotsRetained
-----------------------------------------------------------------------------
(* The DAG of certificates *)

\* The committed set of a cycle consists of certified cells and contains the
\* anchor it was walked from.
LEMMA CausalHistoryOfAnchor ==
    ASSUME NEW cells, NEW par, NEW c \in cells
    PROVE  /\ CausalHistory(cells, par, c) \subseteq cells
           /\ c \in CausalHistory(cells, par, c)
  BY DEF CausalHistory

\* Certificates are records of a cell and a set of signers.
LEMMA CellsOfType ==
    ASSUME NEW table \in SUBSET Certificate
    PROVE  CellsOf(table) \subseteq Cell
  BY DEF CellsOf, Certificate

\* Every step keeps the state well-typed; in particular what is committed is
\* always a set of cells.
THEOREM TypeCorrect == Spec => []TypeOK
<1>1. Init => TypeOK
  BY GroupAssumption, ZenonT(60) DEF Init, TypeOK
<1>2. TypeOK /\ [Next]_vars => TypeOK'
  <2> SUFFICES ASSUME TypeOK, [Next]_vars PROVE TypeOK'
    OBVIOUS
  <2> USE DEF TypeOK
  <2>1. CASE Tick
    BY <2>1 DEF Tick
  <2>2. ASSUME NEW n \in Node, NEW c \in Cell, Publish(n, c) PROVE TypeOK'
    <3>1. CellsAtRound(CellsOf(certs[n]), clock - 1) \in SUBSET Cell
      BY CellsOfType DEF CellsAtRound
    <3> QED
      BY <2>2, <3>1 DEF Publish, PublishCell
  <2>3. ASSUME NEW n \in Node, NEW c \in Cell, NEW att, AddCertificate(n, c, att)
        PROVE  certs' \in [Node -> SUBSET Certificate]
    <3>1. PICK Q \in SUBSET Attesters(att, c) :
            certs' = [certs EXCEPT ![n] = {x \in @ : Slot(x.cell) # Slot(c)}
                                             \cup {[cell |-> c, signers |-> Q]}]
      BY <2>3, Zenon DEF AddCertificate
    <3>2. [cell |-> c, signers |-> Q] \in Certificate
      BY Zenon DEF Attesters, Certificate
    <3> QED
      BY <3>1, <3>2
  <2>4. ASSUME NEW n \in Node, NEW c \in Cell, Attest(n, c) PROVE TypeOK'
    BY <2>3, <2>4 DEF Attest
  <2>5. ASSUME NEW n \in Node, NEW c \in Cell, Certified(n, c) PROVE TypeOK'
    BY <2>3, <2>5 DEF Certified
  <2>6. ASSUME NEW n \in Node, NEW R \in SUBSET Round, Forget(n, R) PROVE TypeOK'
    BY <2>6 DEF Forget
  <2>7. ASSUME NEW n \in Node, NEW k \in Cycles, Commit(n, k) PROVE TypeOK'
    <3> DEFINE cells == CellsOf(certs[n])
    <3>1. cells \subseteq Cell
      BY CellsOfType
    <3>2. PICK c \in cells :
            committed' = [committed EXCEPT ![n][k] = CausalHistory(cells, parents, c)]
      BY <2>7, Zenon DEF Commit, CommitCycle, CommittableAnchors
    <3>3. CausalHistory(cells, parents, c) \in SUBSET Cell
      BY <3>1, CausalHistoryOfAnchor
    <3> HIDE DEF cells
    <3> QED
      BY <2>7, <3>2, <3>3 DEF Commit
  <2>8. CASE UNCHANGED vars
    BY <2>8 DEF vars
  <2> QED
    BY <2>1, <2>2, <2>4, <2>5, <2>6, <2>7, <2>8 DEF Next
<1> QED
  BY <1>1, <1>2, PTL DEF Spec
-----------------------------------------------------------------------------
\* What every certificate rests on.  Only other nodes attest a cell; a
\* certificate is of a published cell and carries a quorum of attesters.
CertificatesSound ==
    /\ \A c \in Cell, s \in Node : <<c, s>> \in attested => s # c.author
    /\ \A n \in Node : \A x \in certs[n] :
          /\ x.cell \in published
          /\ x.signers \subseteq Attesters(attested, x.cell)
          /\ Cardinality(x.signers) >= LatticeQuorum(GroupSize)

\* Certificates are sound in every reachable state: published cells and
\* attestations are never withdrawn.
LEMMA CertificatesStaySound == Spec => []CertificatesSound
<1>1. Init => CertificatesSound
  BY Zenon DEF Init, CertificatesSound
<1>2. TypeOK /\ CertificatesSound /\ [Next]_vars => CertificatesSound'
  <2> SUFFICES ASSUME TypeOK, CertificatesSound, [Next]_vars
               PROVE  CertificatesSound'
    OBVIOUS
  <2> USE DEF TypeOK, CertificatesSound, Attesters
  <2>1. CASE Tick
    BY <2>1 DEF Tick
  <2>2. ASSUME NEW n \in Node, NEW c \in Cell, Publish(n, c)
        PROVE  CertificatesSound'
    BY <2>2 DEF Publish, PublishCell
  <2>3. ASSUME NEW n \in Node, NEW c \in published, NEW att,
               attested \subseteq att, AddCertificate(n, c, att)
        PROVE  \A m \in Node : \A x \in certs'[m] :
                  /\ x.cell \in published
                  /\ x.signers \subseteq Attesters(att, x.cell)
                  /\ Cardinality(x.signers) >= LatticeQuorum(GroupSize)
    <3>1. PICK Q \in SUBSET Attesters(att, c) :
            /\ Cardinality(Q) >= LatticeQuorum(GroupSize)
            /\ certs' = [certs EXCEPT ![n] = {x \in @ : Slot(x.cell) # Slot(c)}
                                                \cup {[cell |-> c, signers |-> Q]}]
      BY <2>3, Zenon DEF AddCertificate
    <3> SUFFICES ASSUME NEW m \in Node, NEW x \in certs'[m]
                 PROVE  /\ x.cell \in published
                        /\ x.signers \subseteq Attesters(att, x.cell)
                        /\ Cardinality(x.signers) >= LatticeQuorum(GroupSize)
      OBVIOUS
    <3>2. x \in certs[m] \/ x = [cell |-> c, signers |-> Q]
      BY <3>1
    <3>3. CASE x \in certs[m]
      BY <2>3, <3>3
    <3>4. CASE x = [cell |-> c, signers |-> Q]
      BY <3>1, <3>4
    <3> QED
      BY <3>2, <3>3, <3>4
  <2>4. ASSUME NEW n \in Node, NEW c \in Cell, Attest(n, c)
        PROVE  CertificatesSound'
    <3>1. /\ published' = published
          /\ c \in published
          /\ n # c.author
          /\ attested' = attested \cup {<<c, n>>}
          /\ UNCHANGED certs \/ AddCertificate(n, c, attested')
      BY <2>4 DEF Attest
    <3>2. \A d \in Cell, s \in Node : <<d, s>> \in attested' => s # d.author
      BY <3>1, Zenon
    <3>3. \A m \in Node : \A x \in certs'[m] :
             /\ x.cell \in published
             /\ x.signers \subseteq Attesters(attested', x.cell)
             /\ Cardinality(x.signers) >= LatticeQuorum(GroupSize)
      <4>1. attested \subseteq attested'
        BY <3>1
      <4>2. CASE UNCHANGED certs
        BY <4>1, <4>2, SMTT(60)
      <4>3. CASE AddCertificate(n, c, attested')
        BY <2>3, <3>1, <4>1, <4>3, SMTT(60)
      <4> QED
        BY <3>1, <4>2, <4>3, SMTT(60)
    <3> QED
      BY <3>1, <3>2, <3>3
  <2>5. ASSUME NEW n \in Node, NEW c \in Cell, Certified(n, c)
        PROVE  CertificatesSound'
    <3>1. /\ UNCHANGED <<published, attested>>
          /\ c \in published
          /\ AddCertificate(n, c, attested)
      BY <2>5 DEF Certified
    <3> QED
      BY <2>3, <3>1
  <2>6. ASSUME NEW n \in Node, NEW R \in SUBSET Round, Forget(n, R)
        PROVE  CertificatesSound'
    BY <2>6 DEF Forget
  <2>7. ASSUME NEW n \in Node, NEW k \in Cycles, Commit(n, k)
        PROVE  CertificatesSound'
    BY <2>7 DEF Commit
  <2>8. CASE UNCHANGED vars
    BY <2>8 DEF vars
  <2> QED
    BY <2>1, <2>2, <2>4, <2>5, <2>6, <2>7, <2>8, SMTT(60) DEF Next
<1> QED
  BY <1>1, <1>2, TypeCorrect, PTL DEF Spec
-----------------------------------------------------------------------------
\* In a group of n nodes two sets of lattice_quorum(n) nodes other than the
\* author overlap, except for n = 3, where the quorum is 1.
LEMMA QuorumsOverlap ==
    ASSUME NEW n \in Nat, n # 3
    PROVE  2 * LatticeQuorum(n) >= n
<1>1. CASE n = 0
  BY <1>1 DEF LatticeQuorum
<1>2. CASE n # 0
  <2> DEFINE f == (n - 1) \div 3
  <2>1. f \in Nat /\ 3 * f <= n - 1 /\ n - 1 < 3 * f + 3
    BY <1>2
  <2>2. LatticeQuorum(n) = 2 * f + 1
    BY <1>2 DEF LatticeQuorum
  <2> HIDE DEF f
  <2> QED
    BY <2>1, <2>2
<1> QED
  BY <1>1, <1>2

\* If the aggregators' group size is the real one, certificates of different
\* cells of a slot have a common signer, whatever order cells and attestations
\* arrive in: an author that signs two cells for one round can split the group
\* only if some node attests both.
THEOREM ConflictingCertificatesShareASigner ==
    ASSUME GroupSize = Cardinality(Node), GroupSize # 3
    PROVE  Spec => []ConflictsShareASigner
<1>1. TypeOK /\ CertificatesSound => ConflictsShareASigner
  <2> SUFFICES ASSUME TypeOK, CertificatesSound,
                      NEW m \in Node, NEW n \in Node,
                      NEW x \in certs[m], NEW y \in certs[n],
                      Slot(x.cell) = Slot(y.cell),
                      x.signers \cap y.signers = {}
               PROVE  FALSE
    BY DEF ConflictsShareASigner
  <2> DEFINE Others == Node \ {x.cell.author}
             q == LatticeQuorum(GroupSize)
  <2>1. x.cell \in Cell /\ y.cell \in Cell /\ x.cell.author = y.cell.author
    BY DEF TypeOK, Certificate, Slot
  <2>2. x.signers \subseteq Others /\ y.signers \subseteq Others
    BY <2>1, Zenon DEF CertificatesSound, Attesters
  <2>3. IsFiniteSet(Others) /\ Cardinality(Others) = Cardinality(Node) - 1
    <3>1. x.cell.author \in Node
      BY <2>1, GroupAssumption DEF Cell
    <3>2. IsFiniteSet(Node)
      BY NodeAssumption
    <3> QED
      BY <3>1, <3>2, FS_RemoveElement, Zenon
  <2>4. /\ IsFiniteSet(x.signers) /\ IsFiniteSet(y.signers)
        /\ IsFiniteSet(x.signers \cup y.signers)
        /\ Cardinality(x.signers \cup y.signers) <= Cardinality(Others)
    <3>1. x.signers \cup y.signers \in SUBSET Others
      BY <2>2
    <3> HIDE DEF Others
    <3> QED
      BY <2>2, <2>3, <3>1, FS_Subset, SMTT(60)
  <2>5. Cardinality(x.signers \cup y.signers)
           = Cardinality(x.signers) + Cardinality(y.signers)
    <3>1. Cardinality(x.signers \cap y.signers) = 0
      BY FS_EmptySet, SMTT(60)
    <3>2. Cardinality(x.signers) \in Nat /\ Cardinality(y.signers) \in Nat
      BY <2>4, FS_CardinalityType
    <3> QED
      BY <2>4, <3>1, <3>2, FS_Union, SMTT(60)
  <2>6. Cardinality(x.signers) >= q /\ Cardinality(y.signers) >= q
    BY DEF CertificatesSound
  <2>7. q \in Nat /\ GroupSize \in Nat /\ 2 * q >= GroupSize
    BY GroupAssumption, QuorumsOverlap, SMTT(60) DEF LatticeQuorum
  <2>8. /\ Cardinality(x.signers) \in Nat
        /\ Cardinality(y.signers) \in Nat
        /\ Cardinality(Others) \in Nat
    BY <2>3, <2>4, FS_CardinalityType, SMTT(60)
  <2> HIDE DEF q, Others
  <2> QED
    BY <2>3, <2>4, <2>5, <2>6, <2>7, <2>8
<1> QED
  BY <1>1, TypeCorrect, CertificatesStaySound, PTL
-----------------------------------------------------------------------------
\* A table has one certificate per slot.
TablesHaveOnePerSlot ==
    \A n \in Node : \A x, y \in certs[n] : Slot(x.cell) = Slot(y.cell) => x = y

\* A new certificate displaces the one its slot had.
LEMMA SlotsStayUnique == Spec => []TablesHaveOnePerSlot
<1>1. Init => TablesHaveOnePerSlot
  BY SMTT(60) DEF Init, TablesHaveOnePerSlot
<1>2. TypeOK /\ TablesHaveOnePerSlot /\ [Next]_vars => TablesHaveOnePerSlot'
  <2> SUFFICES ASSUME TypeOK, TablesHaveOnePerSlot, [Next]_vars
               PROVE  TablesHaveOnePerSlot'
    OBVIOUS
  <2> USE DEF TypeOK, TablesHaveOnePerSlot
  <2>1. CASE UNCHANGED certs
    BY <2>1
  <2>2. ASSUME NEW n \in Node, NEW c \in Cell, NEW att, AddCertificate(n, c, att)
        PROVE  TablesHaveOnePerSlot'
    <3>1. PICK Q :
            certs' = [certs EXCEPT ![n] = {x \in @ : Slot(x.cell) # Slot(c)}
                                             \cup {[cell |-> c, signers |-> Q]}]
      BY <2>2, Zenon DEF AddCertificate
    <3> SUFFICES ASSUME NEW m \in Node, NEW x \in certs'[m], NEW y \in certs'[m],
                        Slot(x.cell) = Slot(y.cell)
                 PROVE  x = y
      BY SMTT(60)
    <3> QED
      BY <3>1
  <2>3. ASSUME NEW n \in Node, NEW R \in SUBSET Round, Forget(n, R)
        PROVE  TablesHaveOnePerSlot'
    BY <2>3 DEF Forget
  <2> QED
    BY <2>1, <2>2, <2>3, Zenon
       DEF Next, vars, Tick, Publish, Attest, Certified, Commit
<1> QED
  BY <1>1, <1>2, TypeCorrect, PTL DEF Spec

\* Cells of one round with at most one cell per author are as many as their
\* authors.
LEMMA AuthorsOfDistinctSlots ==
    ASSUME NEW S \in SUBSET Cell, \A c, d \in S : c.author = d.author => c = d
    PROVE  /\ IsFiniteSet({c.author : c \in S})
           /\ Cardinality({c.author : c \in S}) = Cardinality(S)
<1> DEFINE A == {c.author : c \in S}
           f == [c \in S |-> c.author]
<1>1. A \in SUBSET Node
  BY NodeAssumption DEF Cell
<1>2. IsFiniteSet(A)
  BY <1>1, NodeAssumption, FS_Subset
<1>3. f \in Injection(S, A) /\ f \in Surjection(S, A)
  BY DEF Injection, IsInjective, Surjection
<1>4. Cardinality(S) = Cardinality(A)
  BY <1>2, <1>3, FS_Injection
<1> QED
  BY <1>2, <1>4

\* A committed cycle keeps its quorum of follower authors: at the commit they
\* are certified in the committing node's table, one cell per author, and
\* neither a published cell nor its parents ever change.
THEOREM CommitsRestOnFollowers == Spec => []CommitsHaveFollowers
<1>1. Init => CommitsHaveFollowers
  BY SMTT(60) DEF Init, CommitsHaveFollowers
<1>2. /\ TypeOK /\ CertificatesSound /\ TablesHaveOnePerSlot
      /\ CommitsHaveFollowers /\ [Next]_vars
      => CommitsHaveFollowers'
  <2> SUFFICES ASSUME TypeOK, CertificatesSound, TablesHaveOnePerSlot,
                      CommitsHaveFollowers, [Next]_vars
               PROVE  CommitsHaveFollowers'
    OBVIOUS
  <2> DEFINE authors(k, c) == {d.author : d \in Followers(published, parents, k, c)}
             q == LatticeQuorum(GroupSize)
  <2>0. q \in Nat
    BY GroupAssumption DEF LatticeQuorum
  <2>1. /\ published \subseteq published'
        /\ \A d \in published : parents'[d] = parents[d]
    BY Zenon DEF Next, vars, Tick, Publish, PublishCell, Attest, Certified, Forget,
           Commit, TypeOK
  <2>2. ASSUME NEW k \in Cycles, NEW c \in Cell
        PROVE  /\ authors(k, c) \subseteq authors(k, c)'
               /\ IsFiniteSet(authors(k, c)')
               /\ Cardinality(authors(k, c)) >= q => Cardinality(authors(k, c)') >= q
    <3>1. authors(k, c) \subseteq authors(k, c)'
      BY <2>1 DEF Followers, CellsAtRound
    <3>2. published' \subseteq Cell
      BY Zenon DEF Next, vars, Tick, Publish, PublishCell, Attest, Certified, Forget,
             Commit, TypeOK
    <3>3. authors(k, c)' \in SUBSET Node
      BY <3>2, NodeAssumption DEF Followers, CellsAtRound, Cell
    <3>4. IsFiniteSet(authors(k, c)')
      BY <3>3, NodeAssumption, FS_Subset, ZenonT(60)
    <3>5. /\ Cardinality(authors(k, c)) \in Nat
          /\ Cardinality(authors(k, c)') \in Nat
          /\ Cardinality(authors(k, c)) <= Cardinality(authors(k, c)')
      BY <3>1, <3>4, FS_Subset, FS_CardinalityType, SMTT(60)
    <3> HIDE DEF authors, q
    <3> QED
      BY <2>0, <3>1, <3>4, <3>5, SMTT(60)
  <2> SUFFICES ASSUME NEW m \in Node, NEW j \in Cycles, committed'[m][j] # {}
               PROVE  \E c \in committed'[m][j] :
                         c.round = 2 * j /\ Cardinality(authors(j, c)') >= q
    BY Zenon DEF CommitsHaveFollowers
  <2>3. CASE committed'[m][j] = committed[m][j]
    <3>1. PICK c \in committed[m][j] : c.round = 2 * j /\ Cardinality(authors(j, c)) >= q
      BY <2>3, Zenon DEF CommitsHaveFollowers
    <3>2. c \in Cell
      BY <3>1 DEF TypeOK
    <3>3. Cardinality(authors(j, c)') >= q
      BY <2>2, <3>1, <3>2, Zenon
    <3> QED
      BY <2>3, <3>1, <3>3, Zenon
  <2>4. ASSUME NEW n \in Node, NEW k \in Cycles, Commit(n, k), m = n, j = k
        PROVE  \E c \in committed'[m][j] :
                  c.round = 2 * j /\ Cardinality(authors(j, c)') >= q
    <3> DEFINE cells == CellsOf(certs[n])
               F(c) == Followers(cells, parents, k, c)
    <3>1. cells \subseteq Cell /\ cells \subseteq published
      BY DEF CellsOf, TypeOK, Certificate, CertificatesSound
    <3>2. PICK c \in cells :
            /\ c.round = 2 * k
            /\ Cardinality(F(c)) >= q
            /\ committed' = [committed EXCEPT ![n][k] = CausalHistory(cells, parents, c)]
      BY <2>4, Zenon DEF Commit, CommitCycle, CommittableAnchors, Slot
    <3>3. \A d, e \in F(c) : d.author = e.author => d = e
      BY <3>1 DEF Followers, CellsAtRound, CellsOf, TablesHaveOnePerSlot, Slot
    <3>4. Cardinality({d.author : d \in F(c)}) >= q
      <4>1. F(c) \in SUBSET Cell
        BY <3>1 DEF Followers, CellsAtRound
      <4> HIDE DEF F, q
      <4> QED
        BY <3>2, <3>3, <4>1, AuthorsOfDistinctSlots, Zenon
    <3>5. Cardinality(authors(k, c)) >= q
      <4>1. {d.author : d \in F(c)} \subseteq authors(k, c)
        BY <3>1 DEF Followers, CellsAtRound
      <4>2. authors(k, c) \in SUBSET Node
        BY NodeAssumption, Zenon DEF Followers, CellsAtRound, Cell, TypeOK
      <4>3. IsFiniteSet(authors(k, c))
        BY <4>2, NodeAssumption, FS_Subset, Zenon
      <4>4. /\ Cardinality(authors(k, c)) \in Nat
            /\ Cardinality({d.author : d \in F(c)}) \in Nat
            /\ Cardinality({d.author : d \in F(c)}) <= Cardinality(authors(k, c))
        BY <4>1, <4>3, FS_Subset, FS_CardinalityType, Zenon
      <4> HIDE DEF authors, F, q
      <4> QED
        BY <2>0, <3>4, <4>4, SMTT(60)
    <3>6. c \in CausalHistory(cells, parents, c)
      BY CausalHistoryOfAnchor, Zenon
    <3>7. Cardinality(authors(k, c)') >= q
      <4>1. c \in Cell
        BY <3>1
      <4> QED
        BY <2>2, <3>5, <4>1
    <3>8. committed'[n][k] = CausalHistory(cells, parents, c)
      BY <3>2, SMTT(60) DEF TypeOK
    <3> HIDE DEF cells, authors, q
    <3> QED
      BY <2>4, <3>2, <3>6, <3>7, <3>8, SMTT(60)
  <2>5. \/ committed'[m][j] = committed[m][j]
        \/ \E n \in Node, k \in Cycles : Commit(n, k) /\ m = n /\ j = k
    <3>1. ASSUME NEW n \in Node, NEW k \in Cycles, Commit(n, k)
          PROVE  committed'[m][j] = committed[m][j] \/ (m = n /\ j = k)
      BY <3>1 DEF Commit, CommitCycle, TypeOK
    <3> QED
      BY <3>1, Zenon DEF Next, vars, Tick, Publish, Attest, Certified, Forget
  <2> QED
    BY <2>3, <2>4, <2>5, Zenon
<1> QED
  BY <1>1, <1>2, TypeCorrect, CertificatesStaySound, SlotsStayUnique, PTL DEF Spec

\* Every committed cell was attested by a quorum of others: the walk of a commit
\* visits certified cells only, and an attestation once signed stays signed.
THEOREM CommitsRestOnAttestations == Spec => []CommitsAreAttested
<1> DEFINE others(c) == Attesters(attested, c) \ {c.author}
           q == LatticeQuorum(GroupSize)
<1>1. Init => CommitsAreAttested
  BY SMTT(60) DEF Init, CommitsAreAttested
<1>2. TypeOK /\ CertificatesSound /\ CommitsAreAttested /\ [Next]_vars => CommitsAreAttested'
  <2> SUFFICES ASSUME TypeOK, CertificatesSound, CommitsAreAttested, [Next]_vars,
                      NEW m \in Node, NEW j \in Cycles, NEW c \in committed'[m][j]
               PROVE  Cardinality(others(c)') >= q
    BY Zenon DEF CommitsAreAttested
  <2>1. q \in Nat
    BY GroupAssumption DEF LatticeQuorum
  <2>2. attested \subseteq attested'
    BY Zenon DEF Next, vars, Tick, Publish, Attest, Certified, Forget, Commit
  <2>3. /\ IsFiniteSet(others(c)')
        /\ \A S \in SUBSET (others(c)') : Cardinality(S) \in Nat /\ Cardinality(S) <= Cardinality(others(c)')
    <3>1. others(c)' \in SUBSET Node
      BY DEF Attesters
    <3>2. IsFiniteSet(others(c)')
      BY <3>1, NodeAssumption, FS_Subset, Zenon
    <3> HIDE DEF others
    <3> QED
      BY <3>2, FS_Subset, FS_CardinalityType, Zenon
  <2>4. ASSUME NEW S, S \subseteq others(c), Cardinality(S) >= q
        PROVE  Cardinality(others(c)') >= q
    <3>1. S \in SUBSET (others(c)')
      BY <2>2, <2>4 DEF Attesters
    <3>2. Cardinality(S) \in Nat /\ Cardinality(S) <= Cardinality(others(c)')
      BY <2>3, <3>1, Zenon
    <3>3. Cardinality(others(c)') \in Nat
      BY <2>3, FS_CardinalityType, Zenon
    <3> HIDE DEF others, q
    <3> QED
      BY <2>1, <2>4, <3>2, <3>3
  <2>5. CASE committed'[m][j] = committed[m][j]
    BY <2>4, <2>5, Zenon DEF CommitsAreAttested
  <2>6. ASSUME NEW n \in Node, NEW k \in Cycles, Commit(n, k), m = n, j = k
        PROVE  Cardinality(others(c)') >= q
    <3>1. PICK d \in CellsOf(certs[n]) :
             committed' = [committed EXCEPT ![n][k] = CausalHistory(CellsOf(certs[n]), parents, d)]
      BY <2>6, Zenon DEF Commit, CommitCycle, CommittableAnchors
    <3>2. c \in CausalHistory(CellsOf(certs[n]), parents, d)
      BY <2>6, <3>1, SMTT(60) DEF TypeOK
    <3>3. PICK x \in certs[n] : x.cell = c
      BY <3>2, Zenon DEF CausalHistory, CellsOf
    <3>4. x.signers \subseteq others(c) /\ Cardinality(x.signers) >= q
      <4>1. c \in Cell
        BY <3>3 DEF TypeOK, Certificate
      <4> QED
        BY <3>3, <4>1, Zenon DEF CertificatesSound, Attesters
    <3> QED
      BY <2>4, <3>4, Zenon
  <2>7. \/ committed'[m][j] = committed[m][j]
        \/ \E n \in Node, k \in Cycles : Commit(n, k) /\ m = n /\ j = k
    <3>1. ASSUME NEW n \in Node, NEW k \in Cycles, Commit(n, k)
          PROVE  committed'[m][j] = committed[m][j] \/ (m = n /\ j = k)
      BY <3>1 DEF Commit, CommitCycle, TypeOK
    <3> QED
      BY <3>1, Zenon DEF Next, vars, Tick, Publish, Attest, Certified, Forget
  <2> QED
    BY <2>5, <2>6, <2>7, Zenon
<1> QED
  BY <1>1, <1>2, TypeCorrect, CertificatesStaySound, PTL DEF Spec
=============================================================================
