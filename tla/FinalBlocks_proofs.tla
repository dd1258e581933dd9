------------------------- MODULE FinalBlocks_proofs -------------------------
(***************************************************************************)
(* Proofs about finality at a masternode: what its two paths to a final   *)
(* block and the persisting steps of its main task guarantee.              *)
(***************************************************************************)
EXTENDS BlockFinality_proofs
-----------------------------------------------------------------------------
(* One final block per height, and no certificate waiting beside its payload. *)

\* The pending entry p misses its payload, or its height is final already.
Waits(f, p) == p.hash \notin f.blocks \/ p.height \in f.heights

\* What the finality state keeps, for the entries outside `open`: a final block
\* has its height in finalized_heights, and a hash waits once.
Consistent(f, open) ==
    /\ \A x, y \in f.finalized : x.height = y.height => x = y
    /\ \A x \in f.finalized : x.height \in f.heights
    /\ \A p, q \in f.pending : p.hash = q.hash => p = q
    /\ \A p \in f.pending : p.hash \in open \/ Waits(f, p)

FinalityInv == \A m \in Masternode : Consistent(fin[m], {})

\* The fields finalize_with_cached_payload leaves, by the case it is in.
LEMMA FinalizeFields ==
    ASSUME NEW f \in Finality, NEW e \in Entry
    PROVE  LET g == FinalizeWithCachedPayload(f, e)
           IN  /\ g.blocks = f.blocks
               /\ FinalizedHash(f, e.hash) =>
                    /\ g.pending = Without(f.pending, e.hash)
                    /\ g.finalized = f.finalized /\ g.heights = f.heights
               /\ Finalizes(f, e) =>
                    /\ g.pending = Without(f.pending, e.hash)
                    /\ g.finalized = f.finalized \cup {e}
                    /\ g.heights = f.heights \cup {e.height}
               /\ ~FinalizedHash(f, e.hash) /\ ~Finalizes(f, e) => g = f
<1>1. CASE FinalizedHash(f, e.hash)
  <2>1. FinalizeWithCachedPayload(f, e) = [f EXCEPT !.pending = Without(@, e.hash)]
    BY <1>1 DEF FinalizeWithCachedPayload
  <2>2. ~Finalizes(f, e)
    BY <1>1 DEF Finalizes
  <2> QED
    BY <1>1, <2>1, <2>2 DEF Finality
<1>2. CASE Finalizes(f, e)
  <2>1. ~FinalizedHash(f, e.hash)
    BY <1>2 DEF Finalizes
  <2>2. FinalizeWithCachedPayload(f, e) =
          [f EXCEPT !.pending = Without(@, e.hash),
                    !.finalized = @ \cup {e},
                    !.heights = @ \cup {e.height}]
    BY <1>2, <2>1 DEF FinalizeWithCachedPayload
  <2> QED
    BY <1>2, <2>1, <2>2 DEF Finality
<1>3. CASE ~FinalizedHash(f, e.hash) /\ ~Finalizes(f, e)
  BY <1>3 DEF FinalizeWithCachedPayload
<1> QED
  BY <1>1, <1>2, <1>3

\* finalize_with_cached_payload settles the one entry that was open.
LEMMA FinalizeConsistent ==
    ASSUME NEW f \in Finality, NEW e \in Entry, Consistent(f, {e.hash}),
           \A p \in f.pending :
               p.hash = e.hash => Waits(f, p) \/ (p.height = e.height /\ e.hash \in f.blocks)
    PROVE  Consistent(FinalizeWithCachedPayload(f, e), {})
<1> DEFINE g == FinalizeWithCachedPayload(f, e)
<1>1. CASE FinalizedHash(f, e.hash)
  <2>1. /\ g.blocks = f.blocks /\ g.pending = Without(f.pending, e.hash)
        /\ g.finalized = f.finalized /\ g.heights = f.heights
    BY <1>1, FinalizeFields
  <2> HIDE DEF g
  <2> QED
    BY <2>1 DEF Consistent, Waits, Without, g
<1>2. CASE Finalizes(f, e)
  <2>1. /\ g.blocks = f.blocks /\ g.pending = Without(f.pending, e.hash)
        /\ g.finalized = f.finalized \cup {e} /\ g.heights = f.heights \cup {e.height}
    BY <1>2, FinalizeFields
  <2>2. e.height \notin f.heights
    BY <1>2 DEF Finalizes
  <2> HIDE DEF g
  <2> QED
    BY <2>1, <2>2 DEF Consistent, Waits, Without, g
<1>3. CASE ~FinalizedHash(f, e.hash) /\ ~Finalizes(f, e)
  <2>1. g = f
    BY <1>3, FinalizeFields
  <2>2. e.height \in f.heights \/ e.hash \notin f.blocks
    BY <1>3 DEF Finalizes
  <2> HIDE DEF g
  <2> QED
    BY <2>1, <2>2 DEF Consistent, Waits, g
<1> QED
  BY <1>1, <1>2, <1>3, Zenon

\* enqueue_pending_certificate_finality of an entry that does not settle.
LEMMA EnqueueConsistent ==
    ASSUME NEW f \in Finality, NEW e \in Entry, NEW t \in Time, Consistent(f, {}),
           NEW p \in SUBSET f.pending, ~Settles(f, e)
    PROVE  Consistent(Enqueue([f EXCEPT !.pending = p], e, t), {})
<1> DEFINE n == [hash |-> e.hash, height |-> e.height, group |-> e.group, at |-> t]
           g == Enqueue([f EXCEPT !.pending = p], e, t)
<1>1. /\ g.blocks = f.blocks /\ g.finalized = f.finalized /\ g.heights = f.heights
      /\ g.pending = Without(p, e.hash) \cup {n}
  BY DEF Enqueue, Finality
<1>2. n.hash = e.hash /\ n.height = e.height
  OBVIOUS
<1>3. e.hash \notin f.blocks
  BY DEF Settles
<1> HIDE DEF g, n
<1> QED
  BY <1>1, <1>2, <1>3 DEF Consistent, Waits, Without, g

\* cache_block_payload drains the certificate that waited for the payload.
LEMMA CachePayloadConsistent ==
    ASSUME TypeOK, FinalityInv, NEW m \in Masternode, NEW h \in Hash, CachePayload(m, h)
    PROVE  FinalityInv'
<1>1. PICK p \in Prunes(fin[m].pending, now) :
        LET f == [InsertBlock(fin[m], h) EXCEPT !.pending = p]
        IN  IF WaitingFor(f, h) = {}
            THEN fin' = [fin EXCEPT ![m] = f] /\ UNCHANGED db
            ELSE \E e \in WaitingFor(f, h) : FinalizeAt(m, f, e)
  BY DEF CachePayload
<1> DEFINE f == [InsertBlock(fin[m], h) EXCEPT !.pending = p]
<1>2. fin[m] \in Finality
  BY Zenon DEF TypeOK
<1>3. p \in SUBSET fin[m].pending /\ p \in SUBSET Pending
  BY <1>2, PruneShrinks DEF Finality
<1>4. /\ f \in Finality /\ f.pending = p
      /\ f.blocks \subseteq fin[m].blocks \cup {h}
      /\ f.finalized = fin[m].finalized /\ f.heights = fin[m].heights
  BY <1>2, <1>3, InsertBlockType, ZenonT(30) DEF Finality
<1>5. Consistent(f, {h})
  <2> HIDE DEF f
  <2>1. Consistent(fin[m], {})
    BY DEF FinalityInv
  <2> QED
    BY <1>3, <1>4, <2>1, Zenon DEF Consistent, Waits
<1>6. CASE WaitingFor(f, h) = {}
  <2>1. fin' = [fin EXCEPT ![m] = f]
    BY <1>1, <1>6
  <2> HIDE DEF f
  <2>2. \A q \in f.pending : q.hash # h
    BY <1>6, ZenonT(30) DEF WaitingFor
  <2>3. Consistent(f, {})
    BY <1>5, <2>2, Zenon DEF Consistent
  <2> QED
    BY <2>1, <2>3 DEF FinalityInv, TypeOK
<1>7. CASE WaitingFor(f, h) # {}
  <2>1. PICK e \in WaitingFor(f, h) : FinalizeAt(m, f, e)
    BY <1>1, <1>7
  <2> HIDE DEF f
  <2>2. PICK q \in f.pending : /\ q.hash = h
                               /\ e = [hash |-> q.hash, height |-> q.height, group |-> q.group]
    BY Zenon DEF WaitingFor
  <2>3. e \in Entry /\ e.hash = h /\ e.height = q.height
    BY <1>3, <1>4, <2>2 DEF Pending, Entry
  <2>4. \A r \in f.pending :
          r.hash = e.hash => Waits(f, r) \/ (r.height = e.height /\ e.hash \in f.blocks)
    BY <2>2, <2>3, <1>5, Zenon DEF Consistent, Waits
  <2>5. Consistent(FinalizeWithCachedPayload(f, e), {})
    BY <2>3, <2>4, <1>4, <1>5, FinalizeConsistent
  <2>6. fin' = [fin EXCEPT ![m] = FinalizeWithCachedPayload(f, e)]
    BY <2>1 DEF FinalizeAt
  <2> QED
    BY <2>5, <2>6 DEF FinalityInv, TypeOK
<1> QED
  BY <1>6, <1>7

\* FinalityInv holds of every reachable state.
LEMMA FinalityInvHolds == Spec => []FinalityInv
<1>1. Init => FinalityInv
  BY DEF Init, FinalityInv, Consistent, NewFinality
<1>2. TypeOK /\ FinalityInv /\ [Next]_vars => FinalityInv'
  <2> SUFFICES ASSUME TypeOK, FinalityInv, [Next]_vars PROVE FinalityInv'
    BY Zenon
  <2>0. UNCHANGED fin => FinalityInv'
    BY DEF FinalityInv, Consistent, Waits
  <2>1. ASSUME NEW m \in Masternode, NEW k \in proposed, CachePayload(m, k.hash) PROVE FinalityInv'
    <3>1. k.hash \in Hash
      BY FinalityAssumption DEF TypeOK, ProposalKey
    <3> QED
      BY <2>1, <3>1, CachePayloadConsistent
  <2>2. ASSUME NEW m \in Masternode, NEW k \in proposed, HandleBlock(m, k) PROVE FinalityInv'
    BY <2>1, <2>2 DEF HandleBlock
  <2>3. ASSUME NEW m \in Masternode, NEW k \in proposed, NEW b \in BOOLEAN,
               HandleLightnodeProposal(m, k, b)
        PROVE  FinalityInv'
    <3>1. CachePayload(m, k.hash) \/ UNCHANGED fin
      BY <2>3 DEF HandleLightnodeProposal
    <3> QED
      BY <3>1, <2>0, <2>1
  <2>4. ASSUME NEW m \in Masternode, NEW c \in certs, HandleConsensusCertificate(m, c)
        PROVE  FinalityInv'
    <3> DEFINE e == EntryOf(c.key)
    <3>1. e \in Entry /\ fin[m] \in Finality /\ Consistent(fin[m], {}) /\ now \in Time
      BY EntryOfType DEF TypeOK, Certificate, FinalityInv
    <3>2. CASE Settles(fin[m], e)
      <4>1. fin' = [fin EXCEPT ![m] = FinalizeWithCachedPayload(fin[m], e)]
        BY <2>4, <3>2 DEF HandleConsensusCertificate, FinalizeAt
      <4> HIDE DEF e
      <4>2. Consistent(fin[m], {e.hash}) /\ \A p \in fin[m].pending : Waits(fin[m], p)
        BY <3>1 DEF Consistent
      <4>3. Consistent(FinalizeWithCachedPayload(fin[m], e), {})
        BY <3>1, <4>2, FinalizeConsistent
      <4> QED
        BY <4>1, <4>3 DEF FinalityInv, TypeOK
    <3>3. CASE ~Settles(fin[m], e)
      <4>1. PICK p \in Prunes(fin[m].pending, now) :
              fin' = [fin EXCEPT ![m] = Enqueue([@ EXCEPT !.pending = p], e, now)]
        BY <2>4, <3>3, ZenonT(30) DEF HandleConsensusCertificate
      <4>2. p \in SUBSET fin[m].pending
        BY PruneShrinks
      <4> HIDE DEF e
      <4>3. Consistent(Enqueue([fin[m] EXCEPT !.pending = p], e, now), {})
        BY <3>1, <3>3, <4>2, EnqueueConsistent
      <4> QED
        BY <4>1, <4>3 DEF FinalityInv, TypeOK
    <3> QED
      BY <3>2, <3>3
  <2>5. ASSUME NEW m \in Masternode, Restart(m) PROVE FinalityInv'
    <3>1. fin' = [fin EXCEPT ![m] = NewFinality]
      BY <2>5 DEF Restart
    <3>2. Consistent(NewFinality, {})
      BY DEF Consistent, NewFinality
    <3> QED
      BY <3>1, <3>2 DEF FinalityInv, TypeOK
  <2>6. ASSUME Tick \/ (\E k \in Proposable : Propose(k)) \/ UNCHANGED vars PROVE FinalityInv'
    BY <2>0, <2>6, Zenon DEF vars, Tick, Propose
  <2>7. ASSUME NEW m \in Masternode, NEW k \in proposed, NEW b \in BOOLEAN, VoteOnProposal(m, k, b)
         PROVE  FinalityInv'
    BY <2>0, <2>7 DEF VoteOnProposal
  <2>8. ASSUME NEW m \in Masternode, SaveBacklog(m) PROVE FinalityInv'
    BY <2>0, <2>8 DEF SaveBacklog
  <2>9. ASSUME NEW m \in Masternode, NEW groups \in ActiveGroups, SyncGroupSizes(m, groups) PROVE FinalityInv'
    BY <2>0, <2>9, Zenon DEF SyncGroupSizes
  <2>10. ASSUME NEW m \in Masternode, NEW v \in votes, HandleVote(m, v) PROVE FinalityInv'
    BY <2>0, <2>10 DEF HandleVote
  <2>11. ASSUME NEW m \in Masternode, PersistHead(m) PROVE FinalityInv'
    BY <2>0, <2>11 DEF PersistHead
  <2>12. ASSUME NEW m \in Masternode, PersistBody(m) PROVE FinalityInv'
    BY <2>0, <2>12 DEF PersistBody
  <2>13. ASSUME NEW m \in Masternode, PersistLatest(m) PROVE FinalityInv'
    BY <2>0, <2>13 DEF PersistLatest
  <2> QED
    BY <2>2, <2>3, <2>4, <2>5, <2>6, <2>7, <2>8, <2>9, <2>10, <2>11, <2>12, <2>13, ZenonT(30)
       DEF Next
<1> QED
  BY <1>1, <1>2, TypeCorrect, PTL DEF Spec

\* A masternode takes one block per height to be final on both paths of
\* finalize_with_cached_payload, whatever the order of payload and certificate.
THEOREM FinalBlocksAreUnique == Spec => []OneFinalBlockPerHeight
<1>1. FinalityInv => OneFinalBlockPerHeight
  BY DEF FinalityInv, Consistent, OneFinalBlockPerHeight
<1> QED
  BY <1>1, FinalityInvHolds, PTL

\* No certificate of an open height waits beside its cached payload: the insertion
\* of the payload and the arrival of the certificate both look for the other.
THEOREM NoPayloadIsMissed == Spec => []PendingLacksPayload
<1>1. FinalityInv => PendingLacksPayload
  BY Zenon DEF FinalityInv, Consistent, Waits, PendingLacksPayload
<1> QED
  BY <1>1, FinalityInvHolds, PTL
-----------------------------------------------------------------------------
(* What is final, and what is persisted as the head, is certified. *)

\* A published certificate is for the block of e.
CertifiedEntry(e) == \E c \in certs : EntryOf(c.key) = [hash |-> e.hash, height |-> e.height, group |-> e.group]

\* The strengthening of FinalityIsCertified: the certificates that wait and the
\* one being persisted were published.
CertifiedInv ==
    /\ \A m \in Masternode :
        /\ \A p \in fin[m].pending : CertifiedEntry(p)
        /\ \A e \in fin[m].finalized : CertifiedEntry(e)
        /\ db[m].head.height # 0 =>
             \E c \in certs : c.key.hash = db[m].head.hash /\ c.key.height = db[m].head.height
        /\ job[m] # Idle => \E c \in certs : c.key = job[m].key

\* finalize_with_cached_payload of a certified entry.
LEMMA FinalizeAtCertified ==
    ASSUME TypeOK, CertifiedInv, NEW m \in Masternode, NEW f \in Finality, NEW e \in Entry,
           FinalizeAt(m, f, e), UNCHANGED <<certs, job>>, CertifiedEntry(e),
           \A p \in f.pending : CertifiedEntry(p),
           f.finalized = fin[m].finalized
    PROVE  CertifiedInv'
<1> DEFINE g == FinalizeWithCachedPayload(f, e)
<1>1. fin' = [fin EXCEPT ![m] = g]
  BY Zenon DEF FinalizeAt
<1>2. g.pending \subseteq f.pending /\ g.finalized \subseteq f.finalized \cup {e}
  BY FinalizeFields, ZenonT(60) DEF Without
<1> HIDE DEF g
<1>3. \A i \in Masternode : /\ \A p \in fin'[i].pending : CertifiedEntry(p)
                            /\ \A x \in fin'[i].finalized : CertifiedEntry(x)
  BY <1>1, <1>2, Zenon DEF CertifiedInv, TypeOK
<1>4. \A i \in Masternode : db'[i].head.height # 0 =>
        \E c \in certs : c.key.hash = db'[i].head.hash /\ c.key.height = db'[i].head.height
  <2>1. CASE Finalizes(f, e)
    <3>1. db' = [db EXCEPT ![m] = PersistFinalizedBlock(@, e)]
      BY <2>1, Zenon DEF FinalizeAt
    <3>2. PersistFinalizedBlock(db[m], e).head = [hash |-> e.hash, height |-> e.height]
      BY Zenon DEF PersistFinalizedBlock, TypeOK, Database
    <3>3. db'[m].head.hash = e.hash /\ db'[m].head.height = e.height
      BY <3>1, <3>2, SMTT(60) DEF TypeOK
    <3>4. PICK c \in certs : EntryOf(c.key) = [hash |-> e.hash, height |-> e.height, group |-> e.group]
      BY SMTT(60) DEF CertifiedEntry
    <3>5. c.key.hash = e.hash /\ c.key.height = e.height
      BY <3>4, Zenon DEF EntryOf
    <3>6. \A i \in Masternode : i # m => db'[i] = db[i]
      BY <3>1, Zenon DEF TypeOK
    <3> QED
      BY <3>3, <3>5, <3>6, ZenonT(60) DEF CertifiedInv
  <2>2. CASE ~Finalizes(f, e)
    BY <2>2 DEF FinalizeAt, CertifiedInv
  <2> QED
    BY <2>1, <2>2, Zenon
<1> QED
  BY <1>3, <1>4 DEF CertifiedInv, CertifiedEntry

\* cache_block_payload finalises only a certificate that waited.
LEMMA CachePayloadCertified ==
    ASSUME TypeOK, CertifiedInv, NEW m \in Masternode, NEW h \in Hash, CachePayload(m, h),
           UNCHANGED <<certs, job>>
    PROVE  CertifiedInv'
<1>1. PICK p \in Prunes(fin[m].pending, now) :
        LET f == [InsertBlock(fin[m], h) EXCEPT !.pending = p]
        IN  IF WaitingFor(f, h) = {}
            THEN fin' = [fin EXCEPT ![m] = f] /\ UNCHANGED db
            ELSE \E e \in WaitingFor(f, h) : FinalizeAt(m, f, e)
  BY Zenon DEF CachePayload
<1> DEFINE f == [InsertBlock(fin[m], h) EXCEPT !.pending = p]
<1>2. fin[m] \in Finality
  BY Zenon DEF TypeOK
<1>3. p \in SUBSET fin[m].pending /\ p \in SUBSET Pending
  BY <1>2, PruneShrinks DEF Finality
<1>4. f \in Finality /\ f.pending = p /\ f.finalized = fin[m].finalized
  BY <1>2, <1>3, InsertBlockType, ZenonT(30) DEF Finality
<1>5. \A q \in f.pending : CertifiedEntry(q)
  BY <1>3, <1>4, ZenonT(60) DEF CertifiedInv
<1>6. CASE WaitingFor(f, h) = {}
  <2>1. fin' = [fin EXCEPT ![m] = f] /\ UNCHANGED db
    BY <1>1, <1>6, SMTT(60)
  <2> HIDE DEF f
  <2> QED
    BY <2>1, <1>4, <1>5 DEF CertifiedInv, CertifiedEntry, TypeOK
<1>7. CASE WaitingFor(f, h) # {}
  <2>1. PICK e \in WaitingFor(f, h) : FinalizeAt(m, f, e)
    BY <1>1, <1>7, Zenon
  <2> HIDE DEF f
  <2>2. PICK q \in f.pending : e = [hash |-> q.hash, height |-> q.height, group |-> q.group]
    BY Zenon DEF WaitingFor
  <2>3. e \in Entry
    BY <1>3, <1>4, <2>2, Zenon DEF Pending, Entry
  <2>4. CertifiedEntry(e)
    <3>1. e.hash = q.hash /\ e.height = q.height /\ e.group = q.group
      BY <2>2, ZenonT(60)
    <3> QED
      BY <3>1, <1>5, Zenon DEF CertifiedEntry
  <2> QED
    BY <2>1, <2>3, <2>4, <1>4, <1>5, FinalizeAtCertified, Zenon
<1> QED
  BY <1>6, <1>7

\* CertifiedInv holds of every reachable state.
LEMMA CertifiedInvHolds == Spec => []CertifiedInv
<1>1. Init => CertifiedInv
  BY DEF Init, CertifiedInv, NewFinality
<1>2. TypeOK /\ CertifiedInv /\ [Next]_vars => CertifiedInv'
  <2> SUFFICES ASSUME TypeOK, CertifiedInv, [Next]_vars PROVE CertifiedInv'
    BY Zenon
  <2>0. UNCHANGED <<fin, db, certs, job>> => CertifiedInv'
    BY SMTT(60) DEF CertifiedInv, CertifiedEntry
  <2>1. ASSUME NEW m \in Masternode, NEW k \in proposed, CachePayload(m, k.hash), UNCHANGED <<certs, job>>
        PROVE  CertifiedInv'
    <3>1. k.hash \in Hash
      BY FinalityAssumption DEF TypeOK, ProposalKey
    <3> QED
      BY <2>1, <3>1, CachePayloadCertified, SMTT(60)
  <2>2. ASSUME NEW m \in Masternode, NEW k \in proposed, HandleBlock(m, k) PROVE CertifiedInv'
    BY <2>1, <2>2 DEF HandleBlock
  <2>3. ASSUME NEW m \in Masternode, NEW k \in proposed, NEW b \in BOOLEAN,
               HandleLightnodeProposal(m, k, b)
        PROVE  CertifiedInv'
    <3>1. UNCHANGED <<certs, job>> /\ (CachePayload(m, k.hash) \/ UNCHANGED <<fin, db>>)
      BY <2>3 DEF HandleLightnodeProposal
    <3> QED
      BY <3>1, <2>0, <2>1, Zenon
  <2>4. ASSUME NEW m \in Masternode, NEW c \in certs, HandleConsensusCertificate(m, c)
        PROVE  CertifiedInv'
    <3> DEFINE e == EntryOf(c.key)
    <3>1. e \in Entry /\ fin[m] \in Finality /\ now \in Time /\ UNCHANGED <<certs, job>>
      BY <2>4, EntryOfType, SMTT(60) DEF TypeOK, Certificate, HandleConsensusCertificate
    <3>2. CertifiedEntry(e)
      BY Zenon DEF CertifiedEntry, EntryOf
    <3>3. CASE Settles(fin[m], e)
      <4>1. FinalizeAt(m, fin[m], e)
        BY <2>4, <3>3, Zenon DEF HandleConsensusCertificate
      <4>2. \A p \in fin[m].pending : CertifiedEntry(p)
        BY Zenon DEF CertifiedInv
      <4> HIDE DEF e
      <4> QED
        BY <3>1, <3>2, <4>1, <4>2, FinalizeAtCertified
    <3>4. CASE ~Settles(fin[m], e)
      <4>1. PICK p \in Prunes(fin[m].pending, now) :
              /\ fin' = [fin EXCEPT ![m] = Enqueue([@ EXCEPT !.pending = p], e, now)]
              /\ UNCHANGED db
        BY <2>4, <3>4, ZenonT(30) DEF HandleConsensusCertificate
      <4>2. p \in SUBSET fin[m].pending
        BY PruneShrinks
      <4> HIDE DEF e
      <4> DEFINE n == [hash |-> e.hash, height |-> e.height, group |-> e.group, at |-> now]
                 g == Enqueue([fin[m] EXCEPT !.pending = p], e, now)
      <4>3. g.pending = Without(p, e.hash) \cup {n} /\ g.finalized = fin[m].finalized
        BY <3>1, Zenon DEF Enqueue, Finality
      <4>4. CertifiedEntry(n)
        BY <3>2 DEF CertifiedEntry
      <4> HIDE DEF n
      <4>5. \A q \in g.pending : CertifiedEntry(q)
        BY <4>2, <4>3, <4>4 DEF Without, CertifiedInv
      <4>6. fin' = [fin EXCEPT ![m] = g] /\ UNCHANGED db
        BY <4>1, Zenon
      <4> HIDE DEF g
      <4>7. \A i \in Masternode : /\ \A q \in fin'[i].pending : CertifiedEntry(q)
                                  /\ \A x \in fin'[i].finalized : CertifiedEntry(x)
        BY <4>3, <4>5, <4>6 DEF CertifiedInv, TypeOK
      <4> QED
        BY <3>1, <4>6, <4>7 DEF CertifiedInv, CertifiedEntry
    <3> QED
      BY <3>3, <3>4
  <2>5. ASSUME NEW m \in Masternode, NEW v \in votes, HandleVote(m, v) PROVE CertifiedInv'
    <3>1. UNCHANGED <<fin, db>>
      BY <2>5, ZenonT(60) DEF HandleVote
    <3>2. CASE Completes(agg[m], v, Cardinality(Masternode))
      <4> DEFINE c == [key |-> v.key, issuer |-> m, voters |-> Approvals(agg[m].votes \cup {v}, v.key)]
                 j == [key |-> v.key, step |-> "head"]
      <4>1. certs' = certs \cup {c} /\ job' = [job EXCEPT ![m] = j]
        BY <2>5, <3>2, ZenonT(30) DEF HandleVote
      <4>2. c.key = v.key /\ j.key = v.key
        BY Zenon
      <4> HIDE DEF c, j
      <4> QED
        BY <3>1, <4>1, <4>2 DEF CertifiedInv, CertifiedEntry, TypeOK
    <3>3. CASE ~Completes(agg[m], v, Cardinality(Masternode))
      BY <2>0, <2>5, <3>1, <3>3, Zenon DEF HandleVote
    <3> QED
      BY <3>2, <3>3, Zenon
  <2>6. ASSUME NEW m \in Masternode, PersistHead(m) PROVE CertifiedInv'
    <3>1. /\ db' = [db EXCEPT ![m] = PersistChainHead(@, job[m].key)]
          /\ job' = [job EXCEPT ![m] = [key |-> @.key, step |-> "body"]]
          /\ UNCHANGED <<fin, certs>> /\ job[m] # Idle
      BY <2>6 DEF PersistHead
    <3>2. PersistChainHead(db[m], job[m].key).head = [hash |-> job[m].key.hash, height |-> job[m].key.height]
      BY Zenon DEF PersistChainHead, TypeOK, Database
    <3>3. db'[m].head.hash = job[m].key.hash /\ db'[m].head.height = job[m].key.height
      BY <3>1, <3>2, SMTT(60) DEF TypeOK
    <3>4. job'[m].key = job[m].key
      BY <3>1, Zenon DEF TypeOK
    <3>5. \A i \in Masternode : i # m => db'[i] = db[i] /\ job'[i] = job[i]
      BY <3>1, SMTT(60) DEF TypeOK
    <3>6. UNCHANGED <<fin, certs>> /\ job[m] # Idle
      BY <3>1, Zenon
    <3>7. PICK c \in certs : c.key = job[m].key
      BY <3>6, Zenon DEF CertifiedInv
    <3>8. ASSUME NEW i \in Masternode
          PROVE  /\ db'[i].head.height # 0 =>
                      \E d \in certs' : d.key.hash = db'[i].head.hash /\ d.key.height = db'[i].head.height
                 /\ job'[i] # Idle => \E d \in certs' : d.key = job'[i].key
      BY <3>3, <3>4, <3>5, <3>6, <3>7, ZenonT(60) DEF CertifiedInv
    <3>9. ASSUME NEW i \in Masternode
          PROVE  /\ \A p \in fin'[i].pending : CertifiedEntry(p)'
                 /\ \A e \in fin'[i].finalized : CertifiedEntry(e)'
      BY <3>6, Zenon DEF CertifiedInv, CertifiedEntry
    <3> QED
      BY <3>8, <3>9, Zenon DEF CertifiedInv
  <2>7. ASSUME NEW m \in Masternode, PersistBody(m) PROVE CertifiedInv'
    <3>1. /\ job' = [job EXCEPT ![m] = [key |-> @.key, step |-> "latest"]]
          /\ UNCHANGED <<fin, certs>> /\ job[m] # Idle
          /\ \/ UNCHANGED db
             \/ \E j \in BodiesFor(m, job[m].key) : db' = [db EXCEPT ![m] = PersistCertifiedBlock(@, j)]
      BY <2>7, Zenon DEF PersistBody
    <3>2. \A j : PersistCertifiedBlock(db[m], j).head = db[m].head
      BY Zenon DEF PersistCertifiedBlock, TypeOK, Database
    <3>3. \A i \in Masternode : db'[i].head = db[i].head
      BY <3>1, <3>2, ZenonT(60) DEF TypeOK
    <3>4. job'[m].key = job[m].key /\ \A i \in Masternode : i # m => job'[i] = job[i]
      BY <3>1, Zenon DEF TypeOK
    <3>5. UNCHANGED <<fin, certs>> /\ job[m] # Idle
      BY <3>1, Zenon
    <3> QED
      BY <3>3, <3>4, <3>5, ZenonT(60) DEF CertifiedInv, CertifiedEntry
  <2>8. ASSUME NEW m \in Masternode, PersistLatest(m) PROVE CertifiedInv'
    <3>1. /\ db' = [db EXCEPT ![m] = PersistLatestHeight(@, job[m].key)]
          /\ job' = [job EXCEPT ![m] = Idle]
          /\ UNCHANGED <<fin, certs>>
      BY <2>8 DEF PersistLatest
    <3>2. PersistLatestHeight(db[m], job[m].key).head = db[m].head
      BY ZenonT(60) DEF PersistLatestHeight, TypeOK, Database
    <3>3. \A i \in Masternode : db'[i].head = db[i].head
      BY <3>1, <3>2, Zenon DEF TypeOK
    <3>4. job'[m] = Idle /\ \A i \in Masternode : i # m => job'[i] = job[i]
      BY <3>1 DEF TypeOK
    <3>5. UNCHANGED <<fin, certs>>
      BY <3>1, ZenonT(60)
    <3> QED
      BY <3>3, <3>4, <3>5, ZenonT(60) DEF CertifiedInv, CertifiedEntry
  <2>9. ASSUME NEW m \in Masternode, Restart(m) PROVE CertifiedInv'
    <3>1. /\ fin' = [fin EXCEPT ![m] = NewFinality] /\ job' = [job EXCEPT ![m] = Idle]
          /\ UNCHANGED <<db, certs>>
      BY <2>9, Zenon DEF Restart
    <3>2. NewFinality.pending = {} /\ NewFinality.finalized = {}
      BY Zenon DEF NewFinality
    <3> QED
      BY <3>1, <3>2, SMTT(60) DEF CertifiedInv, CertifiedEntry, TypeOK
  <2>10. ASSUME Tick \/ (\E k \in Proposable : Propose(k)) \/ UNCHANGED vars PROVE CertifiedInv'
    BY <2>0, <2>10, Zenon DEF vars, Tick, Propose
  <2>11. ASSUME NEW m \in Masternode, NEW k \in proposed, NEW b \in BOOLEAN, VoteOnProposal(m, k, b)
         PROVE  CertifiedInv'
    BY <2>0, <2>11, Zenon DEF VoteOnProposal
  <2>12. ASSUME NEW m \in Masternode, SaveBacklog(m) PROVE CertifiedInv'
    BY <2>0, <2>12 DEF SaveBacklog
  <2>13. ASSUME NEW m \in Masternode, NEW groups \in ActiveGroups, SyncGroupSizes(m, groups) PROVE CertifiedInv'
    BY <2>0, <2>13 DEF SyncGroupSizes
  <2> QED
    BY <2>2, <2>3, <2>4, <2>5, <2>6, <2>7, <2>8, <2>9, <2>10, <2>11, <2>12, <2>13, ZenonT(30)
       DEF Next
<1> QED
  BY <1>1, <1>2, TypeCorrect, PTL DEF Spec

\* Only certified blocks become final, and only they become the chain head, by
\* persist_finalized_block_to_db or by persist_chain_head, across crashes.
THEOREM FinalityNeedsCertificate == Spec => []FinalityIsCertified
<1>1. TypeOK /\ CertifiedInv => FinalityIsCertified
  <2> SUFFICES ASSUME TypeOK, CertifiedInv, NEW m \in Masternode, NEW e \in fin[m].finalized
               PROVE  \E c \in certs : EntryOf(c.key) = e
    BY SMTT(60) DEF CertifiedInv, FinalityIsCertified
  <2>1. e \in Entry
    BY Zenon DEF TypeOK, Finality
  <2>2. e = [hash |-> e.hash, height |-> e.height, group |-> e.group]
    BY <2>1 DEF Entry
  <2> QED
    BY <2>2, Zenon DEF CertifiedInv, CertifiedEntry
<1> QED
  BY <1>1, TypeCorrect, CertifiedInvHolds, PTL
-----------------------------------------------------------------------------
(* The payload cache and the pending certificates stay within their limits. *)

\* No value occurs twice in s.
Distinct(s) == \A i, j \in 1 .. Len(s) : s[i] = s[j] => i = j

\* A sequence without repetitions is as long as its set of values is large.
LEMMA DistinctLength ==
    ASSUME NEW S, NEW s \in Seq(S), Distinct(s)
    PROVE  /\ IsFiniteSet(Range(s))
           /\ Cardinality(Range(s)) = Len(s)
<1>1. Len(s) \in Nat /\ DOMAIN s = 1 .. Len(s)
  OBVIOUS
<1>2. s \in Surjection(1 .. Len(s), Range(s))
  BY <1>1 DEF Surjection, Range
<1>3. s \in Injection(1 .. Len(s), Range(s))
  BY <1>1, <1>2, Zenon DEF Surjection, Injection, IsInjective, Distinct
<1>4. IsFiniteSet(1 .. Len(s)) /\ Cardinality(1 .. Len(s)) = Len(s)
  BY <1>1, FS_Interval, SMTT(60)
<1> QED
  BY <1>2, <1>3, <1>4, FS_Surjection, Zenon

\* The rest of such a sequence after its first n values holds the other values.
LEMMA DistinctSuffix ==
    ASSUME NEW S, NEW s \in Seq(S), Distinct(s), NEW n \in 0 .. Len(s)
    PROVE  LET t == SubSeq(s, n + 1, Len(s))
           IN  /\ t \in Seq(S)
               /\ Distinct(t)
               /\ Len(t) = Len(s) - n
               /\ Range(t) = Range(s) \ Range(SubSeq(s, 1, n))
<1> DEFINE t == SubSeq(s, n + 1, Len(s))
           u == SubSeq(s, 1, n)
<1>1. /\ t \in Seq(S)
      /\ Len(t) = Len(s) - n
      /\ \A i \in 1 .. Len(t) : t[i] = s[n + i]
  <2>1. n + 1 \in Int /\ Len(s) \in Int /\ \A i \in n + 1 .. Len(s) : s[i] \in S
    OBVIOUS
  <2> QED
    BY <2>1, SubSeqProperties
<1>2. /\ u \in Seq(S)
      /\ Len(u) = n
      /\ \A i \in 1 .. n : u[i] = s[i]
  <2>1. 1 \in Int /\ n \in Int /\ \A i \in 1 .. n : s[i] \in S
    OBVIOUS
  <2> QED
    BY <2>1, SubSeqProperties
<1>3. DOMAIN s = 1 .. Len(s) /\ DOMAIN t = 1 .. Len(t) /\ DOMAIN u = 1 .. n /\ Len(s) \in Nat
  BY <1>1, <1>2
<1> HIDE DEF t, u
<1>4. Distinct(t)
  BY <1>1, SMTT(60) DEF Distinct
<1>5. ASSUME NEW i \in 1 .. Len(t) PROVE t[i] \in Range(s) /\ t[i] \notin Range(u)
  <2>1. n + i \in 1 .. Len(s) /\ t[i] = s[n + i]
    BY <1>1, <1>3
  <2>2. ASSUME NEW j \in 1 .. n PROVE u[j] # t[i]
    <3>1. j \in 1 .. Len(s) /\ j # n + i
      BY <1>3
    <3> QED
      BY <1>2, <2>1, <3>1 DEF Distinct
  <2> QED
    BY <1>3, <2>1, <2>2, Zenon DEF Range
<1>6. ASSUME NEW i \in 1 .. Len(s) PROVE s[i] \in Range(u) \/ s[i] \in Range(t)
  <2>1. CASE i <= n
    <3>1. i \in 1 .. n
      BY <1>3, <2>1
    <3> QED
      BY <1>2, <1>3, <3>1, Zenon DEF Range
  <2>2. CASE ~(i <= n)
    <3>1. i - n \in 1 .. Len(t) /\ t[i - n] = s[i]
      BY <1>1, <1>3, <2>2
    <3> QED
      BY <1>3, <3>1, Zenon DEF Range
  <2> QED
    BY <2>1, <2>2
<1>7. Range(t) = Range(s) \ Range(u)
  <2>1. ASSUME NEW x \in Range(t) PROVE x \in Range(s) \ Range(u)
    BY <1>3, <1>5, Zenon DEF Range
  <2>2. ASSUME NEW x \in Range(s) \ Range(u) PROVE x \in Range(t)
    BY <1>3, <1>6, Zenon DEF Range
  <2> QED
    BY <2>1, <2>2, Zenon
<1> QED
  BY <1>1, <1>4, <1>7 DEF t, u

\* Taking one value out of such a sequence.
LEMMA DistinctRetain ==
    ASSUME NEW s \in Seq(Hash), Distinct(s), NEW h \in Hash
    PROVE  LET t == Retain(s, h)
           IN  /\ t \in Seq(Hash)
               /\ Distinct(t)
               /\ Len(t) <= Len(s)
               /\ Range(t) = Range(s) \ {h}
<1>1. CASE h \notin Range(s)
  <2>1. Retain(s, h) = s
    BY <1>1, Zenon DEF Retain
  <2>2. Len(s) <= Len(s)
    OBVIOUS
  <2>3. Range(s) = Range(s) \ {h}
    BY <1>1, Zenon
  <2> QED
    BY <2>1, <2>2, <2>3, Zenon
<1>2. CASE h \in Range(s)
  <2> DEFINE i == CHOOSE i \in DOMAIN s : s[i] = h
             a == SubSeq(s, 1, i - 1)
             b == SubSeq(s, i + 1, Len(s))
             t == a \o b
  <2>1. i \in 1 .. Len(s) /\ s[i] = h
    BY <1>2 DEF Range
  <2>2. Retain(s, h) = t
    BY <1>2, Zenon DEF Retain
  <2> HIDE DEF i
  <2>3. /\ a \in Seq(Hash)
        /\ Len(a) = i - 1
        /\ \A j \in 1 .. i - 1 : a[j] = s[j]
    <3>1. 1 \in Int /\ i - 1 \in Int /\ \A j \in 1 .. i - 1 : s[j] \in Hash
      BY <2>1
    <3> QED
      BY <2>1, <3>1, SubSeqProperties
  <2>4. /\ b \in Seq(Hash)
        /\ Len(b) = Len(s) - i
        /\ \A j \in 1 .. Len(s) - i : b[j] = s[i + j]
    <3>1. i + 1 \in Int /\ Len(s) \in Int /\ \A j \in i + 1 .. Len(s) : s[j] \in Hash
      BY <2>1
    <3> QED
      BY <2>1, <3>1, SubSeqProperties
  <2> HIDE DEF a, b
  <2>5. /\ t \in Seq(Hash)
        /\ Len(t) = Len(s) - 1
        /\ \A j \in 1 .. Len(t) : t[j] = IF j < i THEN s[j] ELSE s[j + 1]
    <3>1. /\ t \in Seq(Hash)
          /\ Len(t) = Len(a) + Len(b)
          /\ \A j \in 1 .. Len(a) + Len(b) : t[j] = IF j <= Len(a) THEN a[j] ELSE b[j - Len(a)]
      BY <2>3, <2>4, ConcatProperties, Zenon
    <3>2. Len(t) = Len(s) - 1
      BY <2>1, <2>3, <2>4, <3>1, SMTT(60)
    <3>3. ASSUME NEW j \in 1 .. Len(t) PROVE t[j] = IF j < i THEN s[j] ELSE s[j + 1]
      <4>1. CASE j < i
        BY <2>1, <2>3, <2>4, <3>1, <4>1, SMTT(60)
      <4>2. CASE ~(j < i)
        <5>1. j - Len(a) \in 1 .. Len(s) - i /\ i + (j - Len(a)) = j + 1 /\ ~(j <= Len(a))
          BY <2>1, <2>3, <2>4, <3>2, <4>2
        <5> QED
          BY <2>4, <3>1, <4>2, <5>1, SMTT(60)
      <4> QED
        BY <4>1, <4>2
    <3> QED
      BY <3>1, <3>2, <3>3
  <2> HIDE DEF t
  <2>6. Distinct(t)
    BY <2>1, <2>5, SMTT(60) DEF Distinct
  <2>7. DOMAIN s = 1 .. Len(s) /\ DOMAIN t = 1 .. Len(t) /\ Len(s) \in Nat
    BY <2>5
  <2>8. ASSUME NEW j \in 1 .. Len(t) PROVE t[j] \in Range(s) \ {h}
    <3>1. PICK l \in 1 .. Len(s) : t[j] = s[l] /\ l # i
      BY <2>1, <2>5, <2>7, SMTT(60)
    <3> QED
      BY <2>1, <2>7, <3>1, Zenon DEF Range, Distinct
  <2>9. ASSUME NEW l \in 1 .. Len(s), s[l] # h PROVE s[l] \in Range(t)
    <3>1. \E j \in 1 .. Len(t) : t[j] = s[l]
      <4>1. CASE l < i
        <5>1. l \in 1 .. Len(t)
          BY <2>1, <2>5, <2>7, <4>1, SMTT(60)
        <5> QED
          BY <2>5, <4>1, <5>1, SMTT(60)
      <4>2. CASE ~(l < i)
        <5>1. l - 1 \in 1 .. Len(t) /\ ~(l - 1 < i) /\ (l - 1) + 1 = l
          BY <2>1, <2>5, <2>7, <2>9, <4>2, SMTT(60)
        <5> QED
          BY <2>5, <5>1, SMTT(60)
      <4> QED
        BY <4>1, <4>2, SMTT(60)
    <3> QED
      BY <2>7, <3>1, Zenon DEF Range
  <2>10. Range(t) = Range(s) \ {h}
    <3>1. ASSUME NEW x \in Range(t) PROVE x \in Range(s) \ {h}
      BY <2>7, <2>8, Zenon DEF Range
    <3>2. ASSUME NEW x \in Range(s) \ {h} PROVE x \in Range(t)
      BY <2>7, <2>9, Zenon DEF Range
    <3> QED
      BY <3>1, <3>2, Zenon
  <2>11. Len(t) <= Len(s)
    BY <2>5, <2>7
  <2> QED
    BY <2>2, <2>5, <2>6, <2>10, <2>11, Zenon
<1> QED
  BY <1>1, <1>2

\* Appending a new value to such a sequence.
LEMMA DistinctAppend ==
    ASSUME NEW S, NEW s \in Seq(S), Distinct(s), NEW h \in S, h \notin Range(s)
    PROVE  /\ Distinct(Append(s, h))
           /\ Len(Append(s, h)) = Len(s) + 1
           /\ Range(Append(s, h)) = Range(s) \cup {h}
<1> DEFINE t == Append(s, h)
<1>1. /\ Len(t) = Len(s) + 1
      /\ \A i \in 1 .. Len(s) : t[i] = s[i]
      /\ t[Len(s) + 1] = h
      /\ DOMAIN s = 1 .. Len(s) /\ DOMAIN t = 1 .. Len(s) + 1 /\ Len(s) \in Nat
  BY AppendProperties
<1> HIDE DEF t
<1>2. 1 .. Len(s) + 1 = 1 .. Len(s) \cup {Len(s) + 1}
  BY <1>1
<1>3. \A i \in 1 .. Len(s) : s[i] # h
  BY <1>1, Zenon DEF Range
<1>4. Distinct(t)
  BY <1>1, <1>3 DEF Distinct
<1>5. Range(t) = Range(s) \cup {h}
  <2>1. ASSUME NEW x \in Range(t) PROVE x \in Range(s) \cup {h}
    <3>1. PICK i \in 1 .. Len(s) \cup {Len(s) + 1} : x = t[i]
      BY <1>1, <1>2, Zenon DEF Range
    <3> QED
      BY <1>1, <3>1, Zenon DEF Range
  <2>2. ASSUME NEW i \in 1 .. Len(s) PROVE s[i] \in Range(t)
    BY <1>1, <1>2, Zenon DEF Range
  <2>3. ASSUME NEW x \in Range(s) PROVE x \in Range(t)
    BY <1>1, <2>2, Zenon DEF Range
  <2>4. h \in Range(t)
    BY <1>1, <1>2, ZenonT(60) DEF Range
  <2> QED
    BY <2>1, <2>3, <2>4, Zenon
<1> QED
  BY <1>1, <1>4, <1>5, Zenon DEF t

\* What keeps the caches of one finality state within their limits: the order
\* holds every cached hash once.
CacheOK(f) ==
    /\ Distinct(f.order)
    /\ Range(f.order) = f.blocks
    /\ Len(f.order) <= CacheMax
    /\ IsFiniteSet(f.pending)
    /\ Cardinality(f.pending) <= PendingMax + 1

CacheInv == \A m \in Masternode : CacheOK(fin[m])

\* A subset of the pending certificates is within the limit too.
LEMMA FewerPending ==
    ASSUME NEW P, NEW Q, IsFiniteSet(P), Q \subseteq P, NEW n \in Int, Cardinality(P) <= n
    PROVE  IsFiniteSet(Q) /\ Cardinality(Q) <= n
<1>1. /\ IsFiniteSet(Q)
      /\ Cardinality(Q) <= Cardinality(P)
      /\ Cardinality(P) \in Nat
      /\ Cardinality(Q) \in Nat
  BY FS_Subset, FS_CardinalityType, SMTT(60)
<1> QED
  BY <1>1, SMTT(60)

\* The prune leaves at most PENDING_CERT_MAX certificates.
LEMMA PruneBound ==
    ASSUME NEW P, IsFiniteSet(P), NEW t, NEW p \in Prunes(P, t)
    PROVE  IsFiniteSet(p) /\ Cardinality(p) <= PendingMax
<1> DEFINE live == {q \in P : t - q.at <= PendingTtl}
           excess == IF Cardinality(live) > PendingMax THEN Cardinality(live) - PendingMax ELSE 0
<1>1. PICK R \in SUBSET live : Cardinality(R) = excess /\ p = live \ R
  BY ZenonT(30) DEF Prunes
<1> HIDE DEF live
<1>2. IsFiniteSet(live) /\ Cardinality(live) \in Nat
  <2>1. live \subseteq P
    BY Zenon DEF live
  <2> QED
    BY <2>1, FS_Subset, FS_CardinalityType, Zenon
<1>3. /\ IsFiniteSet(live \ R)
      /\ Cardinality(live \ R) = Cardinality(live) - Cardinality(R)
  <2>1. live \cap R = R
    BY <1>1, Zenon
  <2> QED
    BY <1>2, <2>1, FS_Difference, ZenonT(60)
<1>4. PendingMax \in Nat
  BY FinalityAssumption
<1> QED
  BY <1>1, <1>2, <1>3, <1>4

\* cache_block_payload makes room before it inserts, so the cache with its order
\* stays within BLOCK_CACHE_MAX; a refreshed hash is moved, not doubled.
LEMMA InsertBlockCache ==
    ASSUME NEW f \in Finality, CacheOK(f), NEW h \in Hash
    PROVE  /\ Distinct(InsertBlock(f, h).order)
           /\ Range(InsertBlock(f, h).order) = InsertBlock(f, h).blocks
           /\ Len(InsertBlock(f, h).order) <= CacheMax
<1> DEFINE n == IF Cardinality(f.blocks) >= CacheMax THEN Cardinality(f.blocks) - CacheMax + 1 ELSE 0
           out == SubSeq(f.order, 1, n)
           kept == SubSeq(f.order, Len(out) + 1, Len(f.order))
           rest == Retain(kept, h)
<1>1. f.order \in Seq(Hash) /\ Distinct(f.order) /\ Len(f.order) <= CacheMax
  BY Zenon DEF Finality, CacheOK
<1>2. Cardinality(f.blocks) = Len(f.order)
  BY <1>1, DistinctLength, ZenonT(60) DEF CacheOK
<1>3. /\ n \in 0 .. Len(f.order)
      /\ Len(f.order) - n <= CacheMax - 1
      /\ Len(f.order) \in Nat
      /\ CacheMax \in Nat
  BY <1>1, <1>2, FinalityAssumption, SMTT(60)
<1>4. /\ InsertBlock(f, h).order = Append(rest, h)
      /\ InsertBlock(f, h).blocks = (f.blocks \ Range(out)) \cup {h}
  BY ZenonT(30) DEF InsertBlock, Evicted, Finality
<1> HIDE DEF n
<1>5. Len(out) = n
  <2>1. 1 \in Int /\ n \in Int /\ \A i \in 1 .. n : f.order[i] \in Hash
    BY <1>1, <1>3, SMTT(60)
  <2>2. Len(out) = IF 1 <= n THEN n - 1 + 1 ELSE 0
    BY <2>1, SubSeqProperties
  <2> QED
    BY <1>3, <2>2, SMTT(60)
<1>6. /\ kept \in Seq(Hash)
      /\ Distinct(kept)
      /\ Len(kept) = Len(f.order) - n
      /\ Range(kept) = f.blocks \ Range(out)
  <2> DEFINE u == SubSeq(f.order, n + 1, Len(f.order))
  <2>1. kept = u
    BY <1>5, Zenon
  <2>2. /\ u \in Seq(Hash)
        /\ Distinct(u)
        /\ Len(u) = Len(f.order) - n
        /\ Range(u) = Range(f.order) \ Range(out)
    BY <1>1, <1>3, DistinctSuffix, SMTT(60)
  <2> HIDE DEF u
  <2> QED
    BY <2>1, <2>2, Zenon DEF CacheOK
<1> HIDE DEF out, kept
<1>7. /\ rest \in Seq(Hash)
      /\ Distinct(rest)
      /\ Len(rest) <= Len(kept)
      /\ Range(rest) = Range(kept) \ {h}
  BY <1>6, DistinctRetain, ZenonT(60)
<1> HIDE DEF rest
<1>8. /\ Distinct(Append(rest, h))
      /\ Len(Append(rest, h)) = Len(rest) + 1
      /\ Range(Append(rest, h)) = Range(rest) \cup {h}
  <2>1. h \notin Range(rest)
    BY <1>7, ZenonT(60)
  <2> QED
    BY <1>7, <2>1, DistinctAppend, SMTT(60)
<1>9. Len(rest) \in Nat /\ Len(kept) \in Nat
  BY <1>6, <1>7, SMTT(60)
<1>10. Len(Append(rest, h)) <= CacheMax
  BY <1>3, <1>6, <1>7, <1>8, <1>9, SMTT(60)
<1> QED
  BY <1>4, <1>6, <1>7, <1>8, <1>10, Zenon

\* finalize_with_cached_payload leaves the payload cache and adds no pending
\* certificate.
LEMMA FinalizeCache ==
    ASSUME NEW f \in Finality, CacheOK(f), NEW e
    PROVE  CacheOK(FinalizeWithCachedPayload(f, e))
<1> DEFINE g == FinalizeWithCachedPayload(f, e)
<1>1. g.order = f.order /\ g.blocks = f.blocks /\ g.pending \subseteq f.pending
  BY ZenonT(30) DEF FinalizeWithCachedPayload, Finality, Without
<1> HIDE DEF g
<1>2. PendingMax + 1 \in Int
  BY FinalityAssumption
<1>3. IsFiniteSet(g.pending) /\ Cardinality(g.pending) <= PendingMax + 1
  BY <1>1, <1>2, FewerPending, Zenon DEF CacheOK
<1>4. CacheOK(g)
  BY <1>1, <1>3, Zenon DEF CacheOK
<1> QED
  BY <1>4, Zenon DEF g

\* enqueue_pending_certificate_finality enters one certificate after its prune.
LEMMA EnqueueCache ==
    ASSUME NEW f \in Finality, CacheOK(f), NEW e, NEW t, NEW p \in Prunes(f.pending, t)
    PROVE  CacheOK(Enqueue([f EXCEPT !.pending = p], e, t))
<1> DEFINE g == Enqueue([f EXCEPT !.pending = p], e, t)
           x == [hash |-> e.hash, height |-> e.height, group |-> e.group, at |-> t]
           q == Without(p, e.hash)
<1>1. g.order = f.order /\ g.blocks = f.blocks /\ g.pending = q \cup {x}
  BY ZenonT(30) DEF Enqueue, Finality
<1>2. PendingMax \in Int /\ q \subseteq p
  BY FinalityAssumption DEF Without
<1>3. IsFiniteSet(p) /\ Cardinality(p) <= PendingMax
  BY PruneBound, Zenon DEF CacheOK
<1>4. IsFiniteSet(q) /\ Cardinality(q) <= PendingMax
  BY <1>2, <1>3, FewerPending, ZenonT(60)
<1> HIDE DEF g, q, x
<1>5. /\ IsFiniteSet(q \cup {x})
      /\ Cardinality(q \cup {x}) <= PendingMax + 1
  <2>1. /\ IsFiniteSet(q \cup {x})
        /\ Cardinality(q \cup {x}) = IF x \in q THEN Cardinality(q) ELSE Cardinality(q) + 1
        /\ Cardinality(q) \in Nat
    BY <1>4, FS_AddElement, FS_CardinalityType, Zenon
  <2> QED
    BY <1>2, <1>4, <2>1
<1>6. CacheOK(g)
  BY <1>1, <1>5, Zenon DEF CacheOK
<1> QED
  BY <1>6, Zenon DEF g

\* cache_block_payload keeps both limits.
LEMMA CachePayloadCache ==
    ASSUME TypeOK, CacheInv, NEW m \in Masternode, NEW h \in Hash, CachePayload(m, h)
    PROVE  CacheInv'
<1>1. PICK p \in Prunes(fin[m].pending, now) :
        LET f == [InsertBlock(fin[m], h) EXCEPT !.pending = p]
        IN  IF WaitingFor(f, h) = {}
            THEN fin' = [fin EXCEPT ![m] = f] /\ UNCHANGED db
            ELSE \E e \in WaitingFor(f, h) : FinalizeAt(m, f, e)
  BY DEF CachePayload
<1> DEFINE i == InsertBlock(fin[m], h)
           f == [i EXCEPT !.pending = p]
<1>2. fin[m] \in Finality /\ CacheOK(fin[m])
  BY Zenon DEF TypeOK, CacheInv
<1>3. /\ i \in Finality
      /\ Distinct(i.order)
      /\ Range(i.order) = i.blocks
      /\ Len(i.order) <= CacheMax
  BY <1>2, InsertBlockCache, InsertBlockType, Zenon
<1> HIDE DEF i
<1>4. IsFiniteSet(p) /\ Cardinality(p) <= PendingMax /\ p \subseteq fin[m].pending
  BY <1>2, PruneBound, PruneShrinks, Zenon DEF CacheOK
<1>5. IsFiniteSet(p) /\ Cardinality(p) <= PendingMax + 1
  <2>1. Cardinality(p) \in Nat /\ PendingMax \in Nat
    BY <1>4, FinalityAssumption, FS_CardinalityType, Zenon
  <2> QED
    BY <1>4, <2>1
<1>6. /\ f \in Finality
      /\ f.order = i.order /\ f.blocks = i.blocks /\ f.pending = p
  BY <1>2, <1>3, <1>4, ZenonT(30) DEF Finality
<1>7. CacheOK(f)
  <2> HIDE DEF f
  <2> QED
    BY <1>3, <1>5, <1>6, Zenon DEF CacheOK
<1>8. PICK g : CacheOK(g) /\ fin' = [fin EXCEPT ![m] = g]
  <2>1. \/ fin' = [fin EXCEPT ![m] = f]
        \/ \E e \in WaitingFor(f, h) : FinalizeAt(m, f, e)
    BY <1>1, Zenon DEF i
  <2> HIDE DEF f
  <2> QED
    BY <1>6, <1>7, <2>1, FinalizeCache, Zenon DEF FinalizeAt
<1> QED
  BY <1>8, Zenon DEF CacheInv, TypeOK

\* Every step of either task, and a restart, keeps the caches within their limits.
LEMMA CacheInvHolds == Spec => []CacheInv
<1>0. CacheOK(NewFinality)
  <2>1. /\ NewFinality.order = <<>> /\ NewFinality.blocks = {}
        /\ NewFinality.pending = {}
    BY DEF NewFinality
  <2>2. Distinct(<<>>) /\ Range(<<>>) = {} /\ Len(<<>>) <= CacheMax
    BY FinalityAssumption DEF Distinct, Range
  <2>3. IsFiniteSet({}) /\ Cardinality({}) <= PendingMax + 1
    BY FS_EmptySet, FinalityAssumption
  <2> QED
    BY <2>1, <2>2, <2>3, Zenon DEF CacheOK
<1>1. Init => CacheInv
  BY <1>0, Zenon DEF Init, CacheInv
<1>2. TypeOK /\ CacheInv /\ [Next]_vars => CacheInv'
  <2> SUFFICES ASSUME TypeOK, CacheInv, [Next]_vars PROVE CacheInv'
    BY Zenon
  <2>0. UNCHANGED fin => CacheInv'
    BY Zenon DEF CacheInv, CacheOK
  <2>1. ASSUME NEW m \in Masternode, NEW k \in proposed, CachePayload(m, k.hash) PROVE CacheInv'
    <3>1. k.hash \in Hash
      BY FinalityAssumption DEF TypeOK, ProposalKey
    <3> QED
      BY <2>1, <3>1, CachePayloadCache, Zenon
  <2>2. ASSUME NEW m \in Masternode, NEW k \in proposed, HandleBlock(m, k) PROVE CacheInv'
    BY <2>1, <2>2, Zenon DEF HandleBlock
  <2>3. ASSUME NEW m \in Masternode, NEW k \in proposed, NEW b \in BOOLEAN,
               HandleLightnodeProposal(m, k, b)
        PROVE  CacheInv'
    <3>1. CachePayload(m, k.hash) \/ UNCHANGED fin
      BY <2>3, Zenon DEF HandleLightnodeProposal
    <3> QED
      BY <3>1, <2>0, <2>1, Zenon
  <2>4. ASSUME NEW m \in Masternode, NEW g, CacheOK(g), fin' = [fin EXCEPT ![m] = g]
        PROVE  CacheInv'
    BY <2>4, Zenon DEF CacheInv, TypeOK
  <2>5. ASSUME NEW m \in Masternode, NEW c \in certs, HandleConsensusCertificate(m, c)
        PROVE  CacheInv'
    <3> DEFINE e == EntryOf(c.key)
    <3>1. fin[m] \in Finality /\ CacheOK(fin[m])
      BY Zenon DEF TypeOK, CacheInv
    <3>2. CASE Settles(fin[m], e)
      <4>1. fin' = [fin EXCEPT ![m] = FinalizeWithCachedPayload(fin[m], e)]
        BY <2>5, <3>2, Zenon DEF HandleConsensusCertificate, FinalizeAt
      <4> QED
        BY <2>4, <3>1, <4>1, FinalizeCache, Zenon
    <3>3. CASE ~Settles(fin[m], e)
      <4>1. PICK p \in Prunes(fin[m].pending, now) :
              fin' = [fin EXCEPT ![m] = Enqueue([fin[m] EXCEPT !.pending = p], e, now)]
        BY <2>5, <3>3, ZenonT(30) DEF HandleConsensusCertificate, TypeOK
      <4> QED
        BY <2>4, <3>1, <4>1, EnqueueCache, Zenon
    <3> QED
      BY <3>2, <3>3, Zenon
  <2>6. ASSUME NEW m \in Masternode, Restart(m) PROVE CacheInv'
    BY <1>0, <2>4, <2>6, Zenon DEF Restart
  <2>7. \/ UNCHANGED fin
        \/ \E m \in Masternode :
             \/ \E k \in proposed : \/ HandleBlock(m, k)
                                    \/ \E b \in BOOLEAN : HandleLightnodeProposal(m, k, b)
             \/ \E c \in certs : HandleConsensusCertificate(m, c)
             \/ Restart(m)
    BY ZenonT(30) DEF Next, vars, Tick, Propose, VoteOnProposal, SaveBacklog, SyncGroupSizes,
                      HandleVote, PersistHead, PersistBody, PersistLatest
  <2> QED
    BY <2>0, <2>2, <2>3, <2>5, <2>6, <2>7, Zenon
<1> QED
  BY <1>1, <1>2, TypeCorrect, PTL DEF Spec

\* The payload cache of every masternode keeps its map and its eviction order in
\* step and within BLOCK_CACHE_MAX, and its pending certificates exceed
\* PENDING_CERT_MAX by at most the one entered after the prune.
THEOREM CachesStayBounded == Spec => []CachesBounded
<1>1. TypeOK /\ CacheInv => CachesBounded
  <2> SUFFICES ASSUME TypeOK, CacheInv, NEW m \in Masternode
               PROVE  /\ Range(fin[m].order) = fin[m].blocks
                      /\ Len(fin[m].order) = Cardinality(fin[m].blocks)
                      /\ Len(fin[m].order) <= CacheMax
                      /\ Cardinality(fin[m].pending) <= PendingMax + 1
    BY Zenon DEF CachesBounded
  <2>1. fin[m].order \in Seq(Hash) /\ CacheOK(fin[m])
    BY Zenon DEF TypeOK, Finality, CacheInv
  <2> QED
    BY <2>1, DistinctLength, Zenon DEF CacheOK
<1> QED
  BY <1>1, CacheInvHolds, TypeCorrect, PTL
=============================================================================
