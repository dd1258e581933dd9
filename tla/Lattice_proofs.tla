--------------------------- MODULE Lattice_proofs ---------------------------
(***************************************************************************)
(* The lattice over gossip implements the DAG of quorum certificates, for  *)
(* every group and every order of deliveries.                              *)
(***************************************************************************)
EXTENDS Lattice, FiniteSetTheorems, TLAPS

\* The instance counts as the specification does.
LEMMA SameCardinality ==
    ASSUME NEW S
    PROVE  Dag!Cardinality(S) = Cardinality(S)
  BY DEF Dag!Cardinality, Cardinality

\* The cells of an aggregator's certificates are its certified cells.
LEMMA CertifiedCells ==
    ASSUME NEW a \in Aggregator
    PROVE  Dag!CellsOf(CertificatesOf(a)) = a.certified
<1>1. ASSUME NEW c \in a.certified PROVE c \in Dag!CellsOf(CertificatesOf(a))
  <2> DEFINE x == [cell |-> c, signers |-> a.signers[c]]
  <2>1. x \in CertificatesOf(a) /\ x.cell = c
    BY DEF CertificatesOf
  <2> QED
    BY <2>1 DEF Dag!CellsOf
<1>2. ASSUME NEW c \in Dag!CellsOf(CertificatesOf(a)) PROVE c \in a.certified
  BY DEF Dag!CellsOf, CertificatesOf
<1> QED
  BY <1>1, <1>2

\* observe_cell changes no certificate.
LEMMA ObserveCellCertificates ==
    ASSUME NEW a \in Aggregator, NEW c \in Cell
    PROVE  CertificatesOf(ObserveCell(a, c)) = CertificatesOf(a)
<1>1. /\ ObserveCell(a, c).certified = a.certified
      /\ ObserveCell(a, c).signers = a.signers
  BY DEF ObserveCell, Aggregator
<1> QED
  BY <1>1 DEF CertificatesOf

\* observe_attestation changes no certificate, or the quorum is complete and
\* the cell's certificate takes its slot.
LEMMA ObserveAttestationCertificates ==
    ASSUME NEW a \in Aggregator, NEW c \in Cell, NEW s \in Node, TablesConsistent(a)
    PROVE  LET b == ObserveAttestation(a, c, s)
               att == a.signers[c] \cup {s}
           IN  \/ CertificatesOf(b) = CertificatesOf(a)
               \/ /\ c \in a.pending
                  /\ Cardinality(att) >= LatticeQuorum(a.groupSize)
                  /\ CertificatesOf(b) =
                        {x \in CertificatesOf(a) : Slot(x.cell) # Slot(c)}
                           \cup {[cell |-> c, signers |-> att]}
<1> DEFINE b == ObserveAttestation(a, c, s)
           att == a.signers[c] \cup {s}
           e == [a EXCEPT !.signers[c] = att]
           p == Certify(a, c, att)
<1>1. CASE ~AttestationCounts(a, c, s)
  BY <1>1 DEF ObserveAttestation
<1>2. ASSUME c \in a.pending PROVE CertificatesOf(e) = CertificatesOf(a)
  <2>1. e.certified = a.certified /\ c \notin a.certified
    BY <1>2 DEF Aggregator, TablesConsistent
  <2>2. \A d \in a.certified : e.signers[d] = a.signers[d]
    BY <2>1 DEF Aggregator
  <2> HIDE DEF e
  <2> QED
    BY <2>1, <2>2 DEF CertificatesOf
<1>3. CertificatesOf(p) = {x \in CertificatesOf(a) : Slot(x.cell) # Slot(c)}
                              \cup {[cell |-> c, signers |-> att]}
  <2> DEFINE replaced == {d \in a.certified : Slot(d) = Slot(c)}
  <2>1. /\ p.certified = (a.certified \ replaced) \cup {c}
        /\ p.signers = [d \in Cell |-> IF d = c THEN att
                                       ELSE IF d \in replaced THEN {}
                                       ELSE a.signers[d]]
    BY DEF Certify, Aggregator
  <2>2. p.signers[c] = att
    BY <2>1
  <2>3. \A d \in a.certified \ replaced : d # c /\ p.signers[d] = a.signers[d]
    BY <2>1 DEF Aggregator
  <2> DEFINE kept == {[cell |-> d, signers |-> a.signers[d]] : d \in a.certified \ replaced}
  <2>4. CertificatesOf(p) = kept \cup {[cell |-> c, signers |-> att]}
    <3> HIDE DEF p, att, replaced
    <3>1. ASSUME NEW x \in CertificatesOf(p)
          PROVE  x \in kept \cup {[cell |-> c, signers |-> att]}
      <4>1. PICK d \in p.certified : x = [cell |-> d, signers |-> p.signers[d]]
        BY DEF CertificatesOf
      <4>2. CASE d = c
        BY <2>2, <4>1, <4>2
      <4>3. CASE d \in a.certified \ replaced
        BY <2>3, <4>1, <4>3
      <4> QED
        BY <2>1, <4>2, <4>3
    <3>2. ASSUME NEW x \in kept PROVE x \in CertificatesOf(p)
      <4>1. PICK d \in a.certified \ replaced : x = [cell |-> d, signers |-> a.signers[d]]
        OBVIOUS
      <4>2. d \in p.certified /\ x = [cell |-> d, signers |-> p.signers[d]]
        BY <2>1, <2>3, <4>1
      <4> QED
        BY <4>2 DEF CertificatesOf
    <3>3. [cell |-> c, signers |-> att] \in CertificatesOf(p)
      BY <2>1, <2>2 DEF CertificatesOf
    <3> HIDE DEF kept
    <3> QED
      BY <3>1, <3>2, <3>3
  <2>5. {x \in CertificatesOf(a) : Slot(x.cell) # Slot(c)} = kept
    BY DEF CertificatesOf
  <2> QED
    BY <2>4, <2>5
<1> QED
  BY <1>1, <1>2, <1>3, Zenon DEF ObserveAttestation, AttestationCounts, AggregatorQuorum

\* gc_old_cells drops the certificates of the rounds below its cutoff.
LEMMA GcOldCellsCertificates ==
    ASSUME NEW a \in Aggregator
    PROVE  \E R \in SUBSET Round :
              /\ \A r \in R, s \in Round : s < r => s \in R
              /\ CertificatesOf(GcOldCells(a)) = {x \in CertificatesOf(a) : x.cell.round \notin R}
<1> DEFINE cutoff == SaturatingSub(a.highWater, RetentionRounds)
           b == GcOldCells(a)
           R == {r \in Round : r < cutoff}
<1>1. /\ b.certified = {c \in a.certified : ~(c.round < cutoff)}
      /\ b.signers = [c \in Cell |-> IF c.round < cutoff THEN {} ELSE a.signers[c]]
      /\ a.certified \subseteq Cell
  BY DEF GcOldCells, Aggregator
<1>2. \A c \in Cell : c.round < cutoff <=> c.round \in R
  BY DEF Cell
<1>3. \A c \in b.certified : b.signers[c] = a.signers[c]
  BY <1>1
<1>4. CertificatesOf(b) = {x \in CertificatesOf(a) : x.cell.round \notin R}
  <2> HIDE DEF b, R, cutoff
  <2> QED
    BY <1>1, <1>2, <1>3 DEF CertificatesOf
<1>5. \A r \in R, s \in Round : s < r => s \in R
  <2>1. cutoff \in Nat /\ Round \subseteq Nat
    <3>0. a.highWater \in Round \cup {0}
      BY Zenon DEF Aggregator
    <3> DEFINE h == a.highWater
    <3>1. h \in Nat
      <4> HIDE DEF h
      <4>1. h \in Round \cup {0}
        BY <3>0 DEF h
      <4> QED
        BY <4>1, RoundAssumption
    <3>2. cutoff \in Nat
      BY <3>1, RetentionAssumption DEF SaturatingSub
    <3> QED
      BY <3>2, RoundAssumption
  <2> HIDE DEF cutoff
  <2> QED
    BY <2>1
<1>6. R \in SUBSET Round
  OBVIOUS
<1> HIDE DEF R, b
<1> QED
  BY <1>4, <1>5, <1>6 DEF b

-----------------------------------------------------------------------------
\* observe_attestation adds at most the one signer, moves at most the one cell.
LEMMA ObserveAttestationEffect ==
    ASSUME NEW a \in Aggregator, NEW c \in Cell, NEW s \in Node
    PROVE  LET b == ObserveAttestation(a, c, s)
           IN  /\ b.pending \cup b.certified \subseteq a.pending \cup a.certified
               /\ \A d \in Cell : \A t \in b.signers[d] :
                      t \in a.signers[d] \/ (d = c /\ t = s)
               /\ b.groupSize = a.groupSize
<1> DEFINE att == a.signers[c] \cup {s}
           e == [a EXCEPT !.signers[c] = att]
           p == Certify(a, c, att)
           Effect(b) == /\ b.pending \cup b.certified \subseteq a.pending \cup a.certified
                        /\ \A d \in Cell : \A t \in b.signers[d] :
                               t \in a.signers[d] \/ (d = c /\ t = s)
                        /\ b.groupSize = a.groupSize
<1>1. Effect(a)
  OBVIOUS
<1>2. Effect(e)
  BY DEF Aggregator
<1>3. ASSUME c \in a.pending PROVE Effect(p)
  BY <1>3 DEF Certify, Aggregator
<1> HIDE DEF Effect
<1>4. Effect(ObserveAttestation(a, c, s))
  BY <1>1, <1>2, <1>3 DEF ObserveAttestation, AttestationCounts
<1> QED
  BY <1>4 DEF Effect

\* The inductive invariant of the refinement.  Beyond the two properties of the
\* specification it says that every aggregator is consistent and uses the
\* group size, and that a node handles cells of others only.
RefinementInv ==
    /\ TypeOK
    /\ TablesHoldOnlySentMessages
    /\ \A n \in Node : TablesConsistent(aggs[n]) /\ aggs[n].groupSize = GroupSize
    /\ \A n \in Node, c \in Cell : <<c, n>> \in cellSeen => c \in published /\ c.author # n
    /\ \A n \in Node, c \in Cell : <<c, n>> \in attested => c \in published

\* What one node's aggregator keeps: its type, and tables that agree.
GoodAggregator(a) == a \in Aggregator /\ TablesConsistent(a)

\* observe_cell keeps it: a cell of a certified slot does not enter the pending
\* table.
LEMMA ObserveCellGood ==
    ASSUME NEW a, GoodAggregator(a), NEW c \in Cell
    PROVE  GoodAggregator(ObserveCell(a, c))
<1> DEFINE b == ObserveCell(a, c)
<1>1. /\ b.certified = a.certified
      /\ b.signers = a.signers
      /\ b.pending = IF SlotCertified(a, c) THEN a.pending ELSE a.pending \cup {c}
  BY DEF ObserveCell, Aggregator, GoodAggregator
<1>2. c \in a.certified => SlotCertified(a, c)
  BY DEF SlotCertified
<1>3. b \in Aggregator
  BY RoundAssumption, Zenon DEF ObserveCell, Aggregator, Cell, GoodAggregator
<1> QED
  BY <1>1, <1>2, <1>3 DEF TablesConsistent, GoodAggregator

\* observe_attestation keeps it: a promoted cell leaves the pending table and
\* displaces whatever certificate its slot had.
LEMMA ObserveAttestationGood ==
    ASSUME NEW a, GoodAggregator(a), NEW c \in Cell, NEW s \in Node
    PROVE  GoodAggregator(ObserveAttestation(a, c, s))
<1> DEFINE att == a.signers[c] \cup {s}
           b == Certify(a, c, att)
           d == [a EXCEPT !.signers[c] = att]
           replaced == {e \in a.certified : Slot(e) = Slot(c)}
<1>1. att \in SUBSET Node
  BY DEF Aggregator, GoodAggregator
<1>2. b \in Aggregator
  BY <1>1, Zenon DEF Certify, Aggregator, GoodAggregator
<1>3. /\ b.pending = a.pending \ {c}
      /\ b.certified = (a.certified \ replaced) \cup {c}
      /\ b.signers = [e \in Cell |-> IF e = c THEN att
                                     ELSE IF e \in replaced THEN {}
                                     ELSE a.signers[e]]
  BY Zenon DEF Certify, Aggregator, GoodAggregator
<1>4. TablesConsistent(b)
  <2>1. ASSUME NEW e \in Cell, b.signers[e] # {} PROVE e \in b.pending \cup b.certified
    BY <1>3, <2>1, Zenon DEF TablesConsistent, GoodAggregator
  <2>2. ASSUME NEW e \in b.certified, NEW f \in b.certified, Slot(e) = Slot(f) PROVE e = f
    BY <1>3, <2>2 DEF TablesConsistent, GoodAggregator
  <2>3. b.pending \cap b.certified = {}
    BY <1>3, Zenon DEF TablesConsistent, GoodAggregator
  <2> QED
    BY <2>1, <2>2, <2>3, Zenon DEF TablesConsistent
<1>5. ASSUME c \in a.pending PROVE d \in Aggregator /\ TablesConsistent(d)
  <2>1. /\ d \in Aggregator
        /\ d.pending = a.pending
        /\ d.certified = a.certified
        /\ \A e \in Cell : d.signers[e] = IF e = c THEN att ELSE a.signers[e]
    BY <1>1 DEF Aggregator, GoodAggregator
  <2> QED
    BY <1>5, <2>1 DEF TablesConsistent, GoodAggregator
<1> QED
  BY <1>2, <1>4, <1>5 DEF ObserveAttestation, AttestationCounts, GoodAggregator

\* gc_old_cells keeps it: an evicted cell loses its attestations together with
\* its table entry.
LEMMA GcOldCellsGood ==
    ASSUME NEW a, GoodAggregator(a)
    PROVE  GoodAggregator(GcOldCells(a))
<1> DEFINE cutoff == SaturatingSub(a.highWater, RetentionRounds)
           b == GcOldCells(a)
<1>1. /\ b.pending = {c \in a.pending : ~(c.round < cutoff)}
      /\ b.certified = {c \in a.certified : ~(c.round < cutoff)}
      /\ b.signers = [c \in Cell |-> IF c.round < cutoff THEN {} ELSE a.signers[c]]
  BY DEF GcOldCells, Aggregator, GoodAggregator
<1>2. b \in Aggregator
  BY Zenon DEF GcOldCells, Aggregator, GoodAggregator
<1> QED
  BY <1>1, <1>2, Zenon DEF TablesConsistent, GoodAggregator

\* What a step that only replaces node n's aggregator by b has to show.
LEMMA OneAggregator ==
    ASSUME RefinementInv, NEW n \in Node, NEW b \in Aggregator,
           aggs' = [aggs EXCEPT ![n] = b],
           TablesConsistent(b), b.groupSize = GroupSize,
           published \subseteq published', attested \subseteq attested',
           b.pending \cup b.certified \subseteq published',
           \A c \in Cell : \A s \in b.signers[c] : <<c, s>> \in attested'
    PROVE  /\ aggs' \in [Node -> Aggregator]
           /\ TablesHoldOnlySentMessages'
           /\ \A m \in Node : TablesConsistent(aggs'[m]) /\ aggs'[m].groupSize = GroupSize
<1>1. aggs \in [Node -> Aggregator]
  BY DEF RefinementInv, TypeOK
<1>2. aggs'[n] = b /\ \A m \in Node \ {n} : aggs'[m] = aggs[m]
  BY <1>1
<1>3. aggs' \in [Node -> Aggregator]
  BY <1>1, SMTT(60)
<1>4. ASSUME NEW m \in Node
      PROVE  /\ aggs'[m].pending \cup aggs'[m].certified \subseteq published'
             /\ \A c \in Cell : \A s \in aggs'[m].signers[c] : <<c, s>> \in attested'
             /\ TablesConsistent(aggs'[m]) /\ aggs'[m].groupSize = GroupSize
  <2>1. CASE m = n
    BY <1>2, <2>1
  <2>2. CASE m # n
    BY <1>2, <2>2 DEF RefinementInv, TablesHoldOnlySentMessages
  <2> QED
    BY <2>1, <2>2
<1> QED
  BY <1>3, <1>4 DEF TablesHoldOnlySentMessages

\* The invariant holds initially and every step keeps it.
LEMMA RefinementInvHolds == Spec => []RefinementInv
<1>1. Init => RefinementInv
  BY GroupAssumption
     DEF Init, RefinementInv, TypeOK, TablesHoldOnlySentMessages, TablesConsistent,
         NewAggregator, Aggregator
<1>2. RefinementInv /\ [Next]_vars => RefinementInv'
  <2> SUFFICES ASSUME RefinementInv, [Next]_vars PROVE RefinementInv'
    OBVIOUS
  <2>0. /\ TypeOK
        /\ \A n \in Node : /\ aggs[n] \in Aggregator
                           /\ TablesConsistent(aggs[n])
                           /\ aggs[n].groupSize = GroupSize
                           /\ aggs[n].pending \cup aggs[n].certified \subseteq published
                           /\ \A c \in Cell : \A s \in aggs[n].signers[c] : <<c, s>> \in attested
    BY SMTT(60) DEF RefinementInv, TypeOK, TablesHoldOnlySentMessages
  <2>1. CASE Tick
    BY <2>1, SMTT(60) DEF Tick, RefinementInv, TypeOK, TablesHoldOnlySentMessages
  <2>2. ASSUME NEW n \in Node, NEW c \in Cell, Publish(n, c) PROVE RefinementInv'
    <3> DEFINE b == ObserveCell(aggs[n], c)
               ps == CertifiedAtRound(aggs[n], clock - 1)
    <3>1. /\ b \in Aggregator
          /\ TablesConsistent(b)
      BY <2>0, ObserveCellGood DEF GoodAggregator
    <3>2. /\ b.groupSize = GroupSize
          /\ b.pending \cup b.certified \subseteq published \cup {c}
          /\ b.signers = aggs[n].signers
      BY <2>0 DEF ObserveCell, Aggregator
    <3>3. /\ UNCHANGED <<clock, cellSeen, attested, attSeen, committed>>
          /\ published' = published \cup {c}
          /\ parents' = [parents EXCEPT ![c] = ps]
          /\ aggs' = [aggs EXCEPT ![n] = b]
      BY <2>2 DEF Publish, Dag!PublishCell
    <3>4. ps \in SUBSET Cell
      BY <2>0, SMTT(60) DEF CertifiedAtRound, Aggregator
    <3> HIDE DEF b, ps
    <3>5. /\ aggs' \in [Node -> Aggregator]
          /\ TablesHoldOnlySentMessages'
          /\ \A m \in Node : TablesConsistent(aggs'[m]) /\ aggs'[m].groupSize = GroupSize
      BY <2>0, <3>1, <3>2, <3>3, OneAggregator, Zenon
    <3> QED
      BY <2>0, <3>3, <3>4, <3>5 DEF RefinementInv, TypeOK
  <2>3. ASSUME NEW n \in Node, NEW c \in Cell, ReceiveCell(n, c) PROVE RefinementInv'
    <3> DEFINE b == ObserveCell(aggs[n], c)
    <3>1. /\ b \in Aggregator
          /\ TablesConsistent(b)
      BY <2>0, ObserveCellGood DEF GoodAggregator
    <3>2. /\ b.groupSize = GroupSize
          /\ b.pending \cup b.certified \subseteq published \cup {c}
          /\ b.signers = aggs[n].signers
      BY <2>0 DEF ObserveCell, Aggregator
    <3>3. /\ UNCHANGED <<clock, published, parents, attested, attSeen, committed>>
          /\ c \in published
          /\ c.author # n
          /\ cellSeen' = cellSeen \cup {<<c, n>>}
          /\ aggs' = [aggs EXCEPT ![n] = b]
      BY <2>3 DEF ReceiveCell
    <3> HIDE DEF b
    <3>4. /\ aggs' \in [Node -> Aggregator]
          /\ TablesHoldOnlySentMessages'
          /\ \A m \in Node : TablesConsistent(aggs'[m]) /\ aggs'[m].groupSize = GroupSize
      BY <2>0, <3>1, <3>2, <3>3, OneAggregator, Zenon
    <3> QED
      BY <2>0, <3>3, <3>4, SMTT(60) DEF RefinementInv, TypeOK
  <2>4. ASSUME NEW n \in Node, NEW c \in Cell, NEW s \in Node,
               aggs' = [aggs EXCEPT ![n] = ObserveAttestation(@, c, s)],
               UNCHANGED <<clock, published, parents, cellSeen, committed>>,
               attested' = attested \cup {<<c, s>>}, c \in published,
               attSeen' \subseteq Cell \X Node \X Node
        PROVE  RefinementInv'
    <3> DEFINE b == ObserveAttestation(aggs[n], c, s)
    <3>1. /\ b \in Aggregator
          /\ TablesConsistent(b)
      BY <2>0, ObserveAttestationGood, Zenon DEF GoodAggregator
    <3>2. /\ b.groupSize = GroupSize
          /\ b.pending \cup b.certified \subseteq published
          /\ \A d \in Cell : \A t \in b.signers[d] : <<d, t>> \in attested'
      BY <2>0, <2>4, ObserveAttestationEffect
    <3>3. aggs' = [aggs EXCEPT ![n] = b]
      BY <2>4, SMTT(60)
    <3> HIDE DEF b
    <3>4. /\ aggs' \in [Node -> Aggregator]
          /\ TablesHoldOnlySentMessages'
          /\ \A m \in Node : TablesConsistent(aggs'[m]) /\ aggs'[m].groupSize = GroupSize
      BY <2>0, <2>4, <3>1, <3>2, <3>3, OneAggregator, Zenon
    <3> QED
      BY <2>0, <2>4, <3>4, SMTT(60) DEF RefinementInv, TypeOK
  <2>5. ASSUME NEW n \in Node, NEW c \in Cell, PublishAttestation(n, c)
        PROVE  RefinementInv'
    BY <2>0, <2>4, <2>5, Zenon DEF PublishAttestation, RefinementInv, TypeOK
  <2>6. ASSUME NEW n \in Node, NEW c \in Cell, NEW s \in Node, ReceiveAttestation(n, c, s)
        PROVE  RefinementInv'
    <3>1. attested' = attested \cup {<<c, s>>} /\ c \in published
      BY <2>6 DEF ReceiveAttestation, RefinementInv
    <3>2. attSeen' \subseteq Cell \X Node \X Node
      BY <2>0, <2>6, SMTT(60) DEF ReceiveAttestation, TypeOK
    <3> QED
      BY <2>4, <2>6, <3>1, <3>2, Zenon DEF ReceiveAttestation
  <2>7. ASSUME NEW n \in Node, Gc(n) PROVE RefinementInv'
    <3> DEFINE b == GcOldCells(aggs[n])
    <3>1. /\ b \in Aggregator
          /\ TablesConsistent(b)
      BY <2>0, GcOldCellsGood DEF GoodAggregator
    <3>2. /\ b.groupSize = GroupSize
          /\ b.pending \cup b.certified \subseteq published
          /\ \A c \in Cell : b.signers[c] \subseteq aggs[n].signers[c]
      BY <2>0 DEF GcOldCells, Aggregator
    <3>3. /\ UNCHANGED <<clock, published, parents, cellSeen, attested, attSeen, committed>>
          /\ aggs' = [aggs EXCEPT ![n] = b]
      BY <2>7 DEF Gc
    <3> HIDE DEF b
    <3>4. /\ aggs' \in [Node -> Aggregator]
          /\ TablesHoldOnlySentMessages'
          /\ \A m \in Node : TablesConsistent(aggs'[m]) /\ aggs'[m].groupSize = GroupSize
      BY <2>0, <3>1, <3>2, <3>3, OneAggregator, Zenon
    <3> QED
      BY <2>0, <3>3, <3>4, Zenon DEF RefinementInv, TypeOK
  <2>8. ASSUME NEW n \in Node, NEW k \in Cycles, Commit(n, k) PROVE RefinementInv'
    <3> DEFINE cells == aggs[n].certified
    <3>1. PICK c \in cells :
            committed' = [committed EXCEPT ![n][k] = Dag!CausalHistory(cells, parents, c)]
      BY <2>8, Zenon DEF Commit, Dag!CommitCycle, Dag!CommittableAnchors
    <3>2. Dag!CausalHistory(cells, parents, c) \in SUBSET Cell
      BY <2>0, Zenon DEF Dag!CausalHistory, Aggregator
    <3> HIDE DEF cells
    <3> QED
      BY <2>8, <3>1, <3>2, SMTT(60) DEF Commit, RefinementInv, TypeOK, TablesHoldOnlySentMessages
  <2>9. CASE UNCHANGED vars
    BY <2>9, SMTT(60) DEF vars, RefinementInv, TypeOK, TablesHoldOnlySentMessages
  <2> QED
    BY <2>1, <2>2, <2>3, <2>5, <2>6, <2>7, <2>8, <2>9 DEF Next
<1> QED
  BY <1>1, <1>2, PTL DEF Spec

\* Every node's tables hold published cells and real attestations only, and
\* the state is well-typed, in every interleaving of the runtime's tasks.
THEOREM OnlySentMessages == Spec => [](TypeOK /\ TablesHoldOnlySentMessages)
<1>1. RefinementInv => TypeOK /\ TablesHoldOnlySentMessages
  BY DEF RefinementInv
<1> QED
  BY <1>1, RefinementInvHolds, PTL
-----------------------------------------------------------------------------
\* The runtime over gossip implements the DAG of quorum certificates: handling
\* a cell is invisible, an attestation is an Attest or a Certified step or
\* invisible, garbage collection forgets the oldest rounds, and the walker commits
\* what the DAG's certified cells allow.
THEOREM LatticeImplementsDag == Spec => ImplementsDag
<1> DEFINE certs == [n \in Node |-> CertificatesOf(aggs[n])]
<1>1. Init => Dag!Init
  BY DEF Init, Dag!Init, CertificatesOf, NewAggregator, Dag!Cell, Cell
<1>2. RefinementInv /\ RefinementInv' /\ [Next]_vars => [Dag!Next]_(Dag!vars)
  <2> SUFFICES ASSUME RefinementInv, RefinementInv', [Next]_vars
               PROVE  Dag!Next \/ UNCHANGED Dag!vars
    BY Zenon
  <2>0. ASSUME NEW n \in Node
        PROVE  /\ aggs[n] \in Aggregator
               /\ TablesConsistent(aggs[n])
               /\ aggs[n].groupSize = GroupSize
               /\ Dag!CellsOf(certs[n]) = aggs[n].certified
    BY CertifiedCells, SMTT(60) DEF RefinementInv, TypeOK
  <2>00. ASSUME NEW n \in Node, NEW b, aggs' = [aggs EXCEPT ![n] = b]
         PROVE  certs' = [certs EXCEPT ![n] = CertificatesOf(b)]
    BY <2>00, Zenon DEF RefinementInv, TypeOK
  <2>1. CASE Tick
    <3>1. certs' = certs
      BY <2>1 DEF Tick
    <3> QED
      BY <2>1, <3>1 DEF Tick, Dag!Tick, Dag!Next
  <2>2. ASSUME NEW n \in Node, NEW c \in Cell, Publish(n, c) PROVE Dag!Next
    <3>1. certs' = certs
      BY <2>0, <2>00, <2>2, ObserveCellCertificates DEF Publish
    <3>2. CertifiedAtRound(aggs[n], clock - 1)
             = Dag!CellsAtRound(Dag!CellsOf(certs[n]), clock - 1)
      BY <2>0 DEF CertifiedAtRound, Dag!CellsAtRound
    <3>3. Dag!Publish(n, c)
      BY <2>2, <3>1, <3>2 DEF Publish, Dag!Publish
    <3> QED
      BY <3>3, Zenon DEF Dag!Next, Dag!Cell, Cell
  <2>3. ASSUME NEW n \in Node, NEW c \in Cell, ReceiveCell(n, c)
        PROVE  UNCHANGED Dag!vars
    <3>1. certs' = certs
      BY <2>0, <2>00, <2>3, ObserveCellCertificates, SMTT(60) DEF ReceiveCell
    <3> QED
      BY <2>3, <3>1, Zenon DEF ReceiveCell, Dag!vars
  <2>4. ASSUME NEW n \in Node, NEW c \in Cell, NEW s \in Node,
               aggs' = [aggs EXCEPT ![n] = ObserveAttestation(@, c, s)],
               attested \subseteq attested', <<c, s>> \in attested'
        PROVE  certs' = certs \/ Dag!AddCertificate(n, c, attested')
    <3> DEFINE b == ObserveAttestation(aggs[n], c, s)
               att == aggs[n].signers[c] \cup {s}
    <3>1. certs' = [certs EXCEPT ![n] = CertificatesOf(b)]
      BY <2>00, <2>4, Zenon
    <3>2. CASE CertificatesOf(b) = CertificatesOf(aggs[n])
      BY <3>1, <3>2, Zenon
    <3>3. CASE /\ c \in aggs[n].pending
               /\ Cardinality(att) >= LatticeQuorum(GroupSize)
               /\ CertificatesOf(b) =
                     {x \in CertificatesOf(aggs[n]) : Slot(x.cell) # Slot(c)}
                        \cup {[cell |-> c, signers |-> att]}
      <4>1. att \in SUBSET Dag!Attesters(attested', c)
        BY <2>0, <2>4, Zenon DEF Dag!Attesters, RefinementInv, TablesHoldOnlySentMessages,
                          Aggregator
      <4>2. Cardinality(att) >= Dag!LatticeQuorum(GroupSize)
        BY <3>3, SMTT(60) DEF Dag!LatticeQuorum, LatticeQuorum
      <4>3. certs' = [certs EXCEPT ![n] = {x \in @ : Dag!Slot(x.cell) # Dag!Slot(c)}
                                             \cup {[cell |-> c, signers |-> att]}]
        <5>1. certs[n] = CertificatesOf(aggs[n])
          OBVIOUS
        <5>2. \A d : Dag!Slot(d) = Slot(d)
          BY DEF Dag!Slot, Slot
        <5> HIDE DEF certs, att, b
        <5> QED
          BY <3>1, <3>3, <5>1, <5>2, Zenon
      <4>4. \E Q \in SUBSET Dag!Attesters(attested', c) :
               /\ Cardinality(Q) >= Dag!LatticeQuorum(GroupSize)
               /\ certs' = [certs EXCEPT ![n] = {x \in @ : Dag!Slot(x.cell) # Dag!Slot(c)}
                                                  \cup {[cell |-> c, signers |-> Q]}]
        <5> HIDE DEF att, certs
        <5> QED
          BY <4>1, <4>2, <4>3, Zenon
      <4>5. c \notin Dag!CellsOf(certs[n])
        BY <2>0, <3>3 DEF TablesConsistent
      <4>6. Dag!AddCertificate(n, c, attested')
        BY <4>4, <4>5, SameCardinality, Zenon DEF Dag!AddCertificate
      <4> QED
        BY <4>6, Zenon
    <3>4. \/ CertificatesOf(b) = CertificatesOf(aggs[n])
          \/ /\ c \in aggs[n].pending
             /\ Cardinality(att) >= LatticeQuorum(GroupSize)
             /\ CertificatesOf(b) =
                     {x \in CertificatesOf(aggs[n]) : Slot(x.cell) # Slot(c)}
                        \cup {[cell |-> c, signers |-> att]}
      BY <2>0, ObserveAttestationCertificates, SMTT(60)
    <3> QED
      BY <3>2, <3>3, <3>4
  <2>5. ASSUME NEW n \in Node, NEW c \in Cell, PublishAttestation(n, c)
        PROVE  Dag!Next
    <3>1. c \in published /\ n # c.author /\ <<c, n>> \notin attested
      BY <2>5 DEF PublishAttestation, RefinementInv
    <3>2. certs' = certs \/ Dag!AddCertificate(n, c, attested')
      BY <2>4, <2>5, Zenon DEF PublishAttestation
    <3>3. Dag!Attest(n, c)
      BY <2>5, <3>1, <3>2 DEF PublishAttestation, Dag!Attest
    <3> QED
      BY <3>3 DEF Dag!Next, Dag!Cell, Cell
  <2>6. ASSUME NEW n \in Node, NEW c \in Cell, NEW s \in Node, ReceiveAttestation(n, c, s)
        PROVE  Dag!Next \/ UNCHANGED Dag!vars
    <3>1. c \in published
      BY <2>6, SMTT(60) DEF ReceiveAttestation, RefinementInv
    <3>2. certs' = certs \/ Dag!AddCertificate(n, c, attested')
      BY <2>4, <2>6, Zenon DEF ReceiveAttestation
    <3>3. attested' = attested
      BY <2>6 DEF ReceiveAttestation
    <3>4. CASE certs' = certs
      BY <2>6, <3>4, SMTT(60) DEF ReceiveAttestation, Dag!vars
    <3>5. CASE Dag!AddCertificate(n, c, attested')
      <4>1. Dag!Certified(n, c)
        BY <2>6, <3>1, <3>3, <3>5 DEF ReceiveAttestation, Dag!Certified
      <4> QED
        BY <4>1 DEF Dag!Next, Dag!Cell, Cell
    <3> QED
      BY <3>2, <3>4, <3>5
  <2>7. ASSUME NEW n \in Node, Gc(n) PROVE Dag!Next \/ UNCHANGED Dag!vars
    <3>1. PICK R \in SUBSET Round :
            /\ \A r \in R, s \in Round : s < r => s \in R
            /\ CertificatesOf(GcOldCells(aggs[n]))
               = {x \in CertificatesOf(aggs[n]) : x.cell.round \notin R}
      BY <2>0, GcOldCellsCertificates, Zenon
    <3>2. certs' = [certs EXCEPT ![n] = CertificatesOf(GcOldCells(aggs[n]))]
      BY <2>00, <2>7, Zenon DEF Gc
    <3>3. CASE \E x \in certs[n] : x.cell.round \in R
      <4>1. Dag!Forget(n, R)
        BY <2>7, <3>1, <3>2, <3>3, Zenon DEF Gc, Dag!Forget
      <4> QED
        BY <4>1, Zenon DEF Dag!Next
    <3>4. CASE \A x \in certs[n] : x.cell.round \notin R
      <4>1. CertificatesOf(GcOldCells(aggs[n])) = CertificatesOf(aggs[n])
        BY <3>1, <3>4
      <4>2. certs' = certs
        BY <3>2, <4>1, Zenon
      <4> QED
        BY <2>7, <4>2, SMTT(60) DEF Gc, Dag!vars
    <3> QED
      BY <3>3, <3>4
  <2>8. ASSUME NEW n \in Node, NEW k \in Cycles, Commit(n, k) PROVE Dag!Next
    <3>1. certs' = certs
      BY <2>8 DEF Commit
    <3>2. Dag!Commit(n, k)
      BY <2>0, <2>8, <3>1 DEF Commit, Dag!Commit
    <3> QED
      BY <3>2 DEF Dag!Next
  <2>9. CASE UNCHANGED vars
    BY <2>9 DEF vars, Dag!vars
  <2> QED
    BY <2>1, <2>2, <2>3, <2>5, <2>6, <2>7, <2>8, <2>9, SMTT(60) DEF Next
<1> QED
  BY <1>1, <1>2, RefinementInvHolds, PTL DEF Spec, ImplementsDag, Dag!Spec

\* The state of every node is well-typed in every interleaving of its tasks.
THEOREM TypeCorrect == Spec => []TypeOK
BY OnlySentMessages, PTL
-----------------------------------------------------------------------------
\* A quorum of cells with one cell per author is a quorum of authors, and stays
\* one in any larger set of cells.
LEMMA QuorumOfAuthors ==
    ASSUME NEW S \in SUBSET Cell, NEW T \in SUBSET Cell, S \subseteq T,
           NEW q \in Nat
    PROVE  /\ (\A c, d \in S : c.author = d.author => c = d) /\ Cardinality(S) >= q
              => Cardinality({c.author : c \in T}) >= q
           /\ Cardinality({c.author : c \in S}) >= q
              => Cardinality({c.author : c \in T}) >= q
<1> DEFINE A == {c.author : c \in S}
           B == {c.author : c \in T}
           f == [c \in S |-> c.author]
<1>1. A \subseteq B /\ B \subseteq Node
  BY NodeAssumption DEF Cell
<1>2. IsFiniteSet(B)
  BY <1>1, NodeAssumption, FS_Subset, Zenon
<1>3. /\ IsFiniteSet(A)
      /\ Cardinality(A) \in Nat
      /\ Cardinality(B) \in Nat
      /\ Cardinality(A) <= Cardinality(B)
  BY <1>1, <1>2, FS_Subset, FS_CardinalityType, Zenon
<1>4. ASSUME \A c, d \in S : c.author = d.author => c = d
      PROVE  Cardinality(S) = Cardinality(A)
  <2>1. f \in Injection(S, A) /\ f \in Surjection(S, A)
    BY <1>4 DEF Injection, IsInjective, Surjection
  <2> HIDE DEF A, f
  <2> QED
    BY <1>3, <2>1, FS_Injection
<1>5. /\ (\A c, d \in S : c.author = d.author => c = d) /\ Cardinality(S) >= q
         => Cardinality(B) >= q
      /\ Cardinality(A) >= q => Cardinality(B) >= q
  <2> HIDE DEF A, B
  <2> QED
    BY <1>3, <1>4
<1> QED
  BY <1>5, Zenon

\* The cells that follow an anchor in one set of cells follow it in every larger
\* one in which they have the same parents.
LEMMA FollowersGrow ==
    ASSUME NEW S, NEW T, S \subseteq T, NEW p, NEW r, \A d \in S : r[d] = p[d],
           NEW k, NEW c
    PROVE  /\ Dag!Followers(S, p, k, c) \subseteq Dag!Followers(T, r, k, c)
           /\ Dag!Followers(S, p, k, c) \subseteq S
  BY Zenon DEF Dag!Followers, Dag!CellsAtRound

\* No step unpublishes a cell or changes the parents of a published one.
LEMMA PublishedCellsStand ==
    RefinementInv /\ [Next]_vars =>
        /\ published \subseteq published'
        /\ \A d \in published : parents'[d] = parents[d]
<1> SUFFICES ASSUME RefinementInv, [Next]_vars
             PROVE  /\ published \subseteq published'
                    /\ \A d \in published : parents'[d] = parents[d]
  OBVIOUS
<1>1. ASSUME NEW n \in Node, NEW c \in Cell, Publish(n, c)
      PROVE  /\ published \subseteq published'
             /\ \A d \in published : parents'[d] = parents[d]
  BY <1>1, Zenon DEF Publish, Dag!PublishCell, RefinementInv, TypeOK
<1> QED
  BY <1>1, Zenon DEF Next, vars, Tick, ReceiveCell, PublishAttestation,
                     ReceiveAttestation, Gc, Commit

\* A cycle committed by a node running the lattice over gossip keeps its quorum of
\* follower authors: they are certified in the committing node's aggregator when
\* try_commit decides, one cell per author, and no message received, no garbage
\* collection and no later cell takes a follower away.
THEOREM CommitsRestOnFollowers == Spec => []CommitsHaveFollowers
<1> DEFINE q == Dag!LatticeQuorum(GroupSize)
           authors(k, c) == {d.author : d \in Dag!Followers(published, parents, k, c)}
           Rests(m, j) == \E c \in committed[m][j] :
                             c.round = 2 * j /\ Cardinality(authors(j, c)) >= q
<1>0. q \in Nat
  BY GroupAssumption DEF Dag!LatticeQuorum
<1>1. Init => CommitsHaveFollowers
  BY Zenon DEF Init, CommitsHaveFollowers, Dag!CommitsHaveFollowers
<1>2. CommitsHaveFollowers <=>
        \A m \in Node, j \in Cycles : committed[m][j] # {} => Rests(m, j)
  BY SameCardinality, Zenon DEF CommitsHaveFollowers, Dag!CommitsHaveFollowers
<1>3. RefinementInv /\ RefinementInv' /\ CommitsHaveFollowers /\ [Next]_vars
      => CommitsHaveFollowers'
  <2> SUFFICES ASSUME RefinementInv, RefinementInv', CommitsHaveFollowers, [Next]_vars,
                      NEW m \in Node, NEW j \in Cycles, committed'[m][j] # {}
               PROVE  Rests(m, j)'
    <3>1. CommitsHaveFollowers' <=>
            \A m \in Node, j \in Cycles : committed'[m][j] # {} => Rests(m, j)'
      BY SameCardinality, Zenon DEF CommitsHaveFollowers, Dag!CommitsHaveFollowers
    <3> QED
      BY <3>1, Zenon
  <2>1. /\ published \subseteq published'
        /\ \A d \in published : parents'[d] = parents[d]
        /\ published' \subseteq Cell
    BY PublishedCellsStand, Zenon DEF RefinementInv, TypeOK
  <2>2. CASE committed'[m][j] = committed[m][j]
    <3>1. PICK c \in committed[m][j] : c.round = 2 * j /\ Cardinality(authors(j, c)) >= q
      BY <1>2, <2>2, SMTT(60)
    <3> DEFINE F == Dag!Followers(published, parents, j, c)
               G == Dag!Followers(published', parents', j, c)
    <3>2. F \subseteq G /\ G \subseteq published'
      BY <2>1, FollowersGrow, Zenon
    <3>3. Cardinality({d.author : d \in F}) >= q
      BY <3>1
    <3>4. Cardinality({d.author : d \in G}) >= q
      <4> HIDE DEF F, G, q
      <4>1. F \in SUBSET Cell /\ G \in SUBSET Cell
        BY <2>1, <3>2, Zenon
      <4> QED
        BY <1>0, <3>2, <3>3, <4>1, QuorumOfAuthors, Zenon
    <3> QED
      BY <2>2, <3>1, <3>4, ZenonT(60)
  <2>3. ASSUME Commit(m, j) PROVE Rests(m, j)'
    <3> DEFINE cells == aggs[m].certified
    <3>1. /\ cells \subseteq published
          /\ cells \subseteq Cell
          /\ \A d, e \in cells : Slot(d) = Slot(e) => d = e
      BY Zenon DEF RefinementInv, TypeOK, TablesHoldOnlySentMessages, TablesConsistent, Aggregator
    <3>2. PICK c \in cells :
            /\ c.round = 2 * j
            /\ Cardinality(Dag!Followers(cells, parents, j, c)) >= q
            /\ committed' = [committed EXCEPT ![m][j] = Dag!CausalHistory(cells, parents, c)]
      BY <2>3, SameCardinality, Zenon
         DEF Commit, Dag!CommitCycle, Dag!CommittableAnchors, Dag!Slot
    <3> DEFINE F == Dag!Followers(cells, parents, j, c)
               G == Dag!Followers(published', parents', j, c)
    <3>3. F \subseteq G /\ F \subseteq cells /\ G \subseteq published'
      <4>1. cells \subseteq published' /\ \A d \in cells : parents'[d] = parents[d]
        BY <2>1, <3>1, Zenon
      <4> QED
        BY <4>1, FollowersGrow, ZenonT(60)
    <3>4. \A d, e \in F : d.author = e.author => d = e
      BY <3>1, <3>3 DEF Dag!Followers, Dag!CellsAtRound, Slot
    <3>5. Cardinality({d.author : d \in G}) >= q
      <4>1. Cardinality(F) >= q
        BY <3>2
      <4> HIDE DEF F, G, q, cells
      <4>2. F \in SUBSET Cell /\ G \in SUBSET Cell
        BY <2>1, <3>1, <3>3, Zenon
      <4> QED
        BY <1>0, <3>3, <3>4, <4>1, <4>2, QuorumOfAuthors, Zenon
    <3>6. c \in committed'[m][j]
      <4>1. committed'[m][j] = Dag!CausalHistory(cells, parents, c)
        BY <3>2, SMTT(60) DEF RefinementInv, TypeOK
      <4>2. c \in Dag!CausalHistory(cells, parents, c)
        BY <3>2, Zenon DEF Dag!CausalHistory
      <4> QED
        BY <4>1, <4>2, Zenon
    <3> QED
      BY <3>2, <3>5, <3>6, Zenon
  <2>4. committed'[m][j] = committed[m][j] \/ Commit(m, j)
    <3>1. ASSUME NEW n \in Node, NEW k \in Cycles, Commit(n, k)
          PROVE  committed'[m][j] = committed[m][j] \/ Commit(m, j)
      <4>1. CASE m = n /\ j = k
        BY <3>1, <4>1, ZenonT(60)
      <4>2. CASE ~(m = n /\ j = k)
        <5>1. PICK X : committed' = [committed EXCEPT ![n][k] = X]
          BY <3>1, Zenon DEF Commit, Dag!CommitCycle
        <5>2. committed = [x \in Node |-> committed[x]]
          BY Zenon DEF RefinementInv, TypeOK
        <5>3. committed[n] = [y \in Cycles |-> committed[n][y]]
          BY Zenon DEF RefinementInv, TypeOK
        <5> QED
          BY <4>2, <5>1, <5>2, <5>3, SMTT(60)
      <4> QED
        BY <4>1, <4>2
    <3> QED
      BY <3>1, ZenonT(60) DEF Next, vars, Tick, Publish, ReceiveCell, PublishAttestation,
                         ReceiveAttestation, Gc
  <2> QED
    BY <2>2, <2>3, <2>4, Zenon
<1> QED
  BY <1>1, <1>3, RefinementInvHolds, PTL DEF Spec
=============================================================================
