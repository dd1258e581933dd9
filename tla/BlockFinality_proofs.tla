------------------------ MODULE BlockFinality_proofs ------------------------
(***************************************************************************)
(* Type correctness of block certification and finality, and the quorums   *)
(* behind every certificate, for every committee, every set of proposals   *)
(* and every bound.                                                        *)
(***************************************************************************)
EXTENDS BlockFinality, FiniteSetTheorems, SequenceTheorems, TLAPS

\* quorum_for_voters is a natural number.
LEMMA QuorumType == ASSUME NEW n \in Nat PROVE QuorumForVoters(n) \in Nat
  BY DEF QuorumForVoters

\* add_vote keeps the aggregator's type.
LEMMA AddVoteType ==
    ASSUME NEW a \in Aggregator, NEW v \in Vote, NEW n \in Nat
    PROVE  AddVote(a, v, n) \in Aggregator
  BY ZenonT(30) DEF AddVote, Aggregator, Vote

\* set_group_mn_sizes keeps the aggregator's type.
LEMMA SetGroupMnSizesType ==
    ASSUME NEW a \in Aggregator, NEW groups \in SUBSET Group, NEW n \in Nat
    PROVE  SetGroupMnSizes(a, groups, n) \in Aggregator
  BY DEF SetGroupMnSizes, Aggregator

\* The prune only removes entries.
LEMMA PruneShrinks ==
    ASSUME NEW pending, NEW t, NEW p \in Prunes(pending, t)
    PROVE  p \subseteq pending
  BY ZenonT(30) DEF Prunes

\* finalize_with_cached_payload keeps the type.
LEMMA FinalizeType ==
    ASSUME NEW f \in Finality, NEW e \in Entry
    PROVE  FinalizeWithCachedPayload(f, e) \in Finality
<1>1. /\ Without(f.pending, e.hash) \in SUBSET Pending
      /\ f.finalized \cup {e} \in SUBSET Entry
      /\ f.heights \cup {e.height} \in SUBSET Height
  BY DEF Finality, Entry, Without
<1> QED
  BY <1>1, ZenonT(30) DEF FinalizeWithCachedPayload, Finality

\* The order of the cache without one hash is an order.
LEMMA RetainType ==
    ASSUME NEW s \in Seq(Hash), NEW h \in Hash
    PROVE  Retain(s, h) \in Seq(Hash)
<1>1. CASE h \in Range(s)
  <2> DEFINE i == CHOOSE i \in DOMAIN s : s[i] = h
  <2>1. i \in 1 .. Len(s)
    BY <1>1 DEF Range
  <2> HIDE DEF i
  <2>2. SubSeq(s, 1, i - 1) \in Seq(Hash)
    BY <2>1, SubSeqProperties
  <2>3. SubSeq(s, i + 1, Len(s)) \in Seq(Hash)
    BY <2>1, SubSeqProperties
  <2>4. SubSeq(s, 1, i - 1) \o SubSeq(s, i + 1, Len(s)) \in Seq(Hash)
    BY <2>2, <2>3, ConcatProperties
  <2> QED
    BY <2>4, <1>1 DEF Retain, i
<1>2. CASE h \notin Range(s)
  BY <1>2 DEF Retain
<1> QED
  BY <1>1, <1>2

\* The number of entries that leave the cache is a natural number.
LEMMA EvictedLength ==
    ASSUME NEW f \in Finality
    PROVE  Len(Evicted(f)) \in Nat
<1>1. Cardinality(f.blocks) \in Nat
  BY FinalityAssumption, FS_Subset, FS_CardinalityType DEF Finality
<1> DEFINE n == IF Cardinality(f.blocks) >= CacheMax THEN Cardinality(f.blocks) - CacheMax + 1 ELSE 0
<1>2. n \in Nat
  BY <1>1, FinalityAssumption
<1> DEFINE S == {f.order[i] : i \in 1 .. n}
<1>3. Len(SubSeq(f.order, 1, n)) = IF 1 <= n THEN n - 1 + 1 ELSE 0
  <2>1. 1 \in Int /\ n \in Int /\ \A i \in 1 .. n : f.order[i] \in S
    BY <1>2
  <2> HIDE DEF n, S
  <2> QED
    BY <2>1, SubSeqProperties
<1> QED
  BY <1>2, <1>3 DEF Evicted

\* Inserting a payload keeps the type and leaves all but the cache alone.
LEMMA InsertBlockType ==
    ASSUME NEW f \in Finality, NEW h \in Hash
    PROVE  /\ InsertBlock(f, h) \in Finality
           /\ InsertBlock(f, h).blocks \subseteq f.blocks \cup {h}
           /\ InsertBlock(f, h).pending = f.pending
           /\ InsertBlock(f, h).finalized = f.finalized
           /\ InsertBlock(f, h).heights = f.heights
<1> DEFINE out == Evicted(f)
           kept == SubSeq(f.order, Len(out) + 1, Len(f.order))
           order == Append(Retain(kept, h), h)
           blocks == (f.blocks \ Range(out)) \cup {h}
<1>1. f.order \in Seq(Hash) /\ Len(out) \in Nat
  BY EvictedLength DEF Finality
<1>2. kept \in Seq(Hash)
  <2> HIDE DEF out
  <2>1. \A i \in Len(out) + 1 .. Len(f.order) : f.order[i] \in Hash
    BY <1>1
  <2>2. Len(out) + 1 \in Int /\ Len(f.order) \in Int
    BY <1>1
  <2> QED
    BY <2>1, <2>2, SubSeqProperties
<1>3. order \in Seq(Hash)
  <2> HIDE DEF kept
  <2> QED
    BY <1>2, RetainType, AppendProperties
<1>4. InsertBlock(f, h) = [f EXCEPT !.order = order, !.blocks = blocks]
  BY DEF InsertBlock
<1>5. blocks \subseteq Hash /\ blocks \subseteq f.blocks \cup {h}
  BY DEF Finality
<1> HIDE DEF order, blocks
<1> QED
  BY <1>3, <1>4, <1>5, ZenonT(30) DEF Finality

\* Entering a certificate into the pending table keeps the type.
LEMMA EnqueueType ==
    ASSUME NEW f \in Finality, NEW e \in Entry, NEW t \in Time
    PROVE  Enqueue(f, e, t) \in Finality
<1>1. Without(f.pending, e.hash)
        \cup {[hash |-> e.hash, height |-> e.height, group |-> e.group, at |-> t]} \in SUBSET Pending
  BY DEF Finality, Entry, Pending, Without
<1> QED
  BY <1>1 DEF Enqueue, Finality
-----------------------------------------------------------------------------
\* The committee size is a natural number.
LEMMA CommitteeSize == Cardinality(Masternode) \in Nat
  BY FinalityAssumption, FS_CardinalityType

\* The entry of a proposal is an entry.
LEMMA EntryOfType == ASSUME NEW k \in ProposalKey PROVE EntryOf(k) \in Entry
  BY DEF EntryOf, Entry, ProposalKey

\* The network task's write keeps the type of the database.
LEMMA FinalizedBlockType ==
    ASSUME NEW d \in Database, NEW e \in Entry
    PROVE  PersistFinalizedBlock(d, e) \in Database
<1>1. /\ [hash |-> e.hash, height |-> e.height] \in [hash : Hash \cup {Genesis}, height : Height \cup {0}]
      /\ d.bodies \cup {e.hash} \in SUBSET Hash
  BY DEF Entry, Database
<1> QED
  BY <1>1, ZenonT(30) DEF PersistFinalizedBlock, Database

\* The main task's writes keep the type of the database.
LEMMA DatabaseType ==
    ASSUME NEW d \in Database, NEW k \in ProposalKey
    PROVE  /\ PersistChainHead(d, k) \in Database
           /\ PersistCertifiedBlock(d, k) \in Database
           /\ PersistLatestHeight(d, k) \in Database
<1>1. /\ [hash |-> k.hash, height |-> k.height] \in [hash : Hash \cup {Genesis}, height : Height \cup {0}]
      /\ d.bodies \cup {k.hash} \in SUBSET Hash
      /\ k.height \in Height \cup {0}
  BY DEF ProposalKey, Database
<1>2. PersistChainHead(d, k) \in Database
  BY <1>1 DEF PersistChainHead, Database
<1>3. PersistCertifiedBlock(d, k) \in Database
  BY <1>1, ZenonT(30) DEF PersistCertifiedBlock, Database
<1>4. PersistLatestHeight(d, k) \in Database
  BY <1>1 DEF PersistLatestHeight, Database
<1> QED
  BY <1>2, <1>3, <1>4

\* Finalising keeps the types of the finality state and of the database.
LEMMA FinalizeAtType ==
    ASSUME TypeOK, NEW m \in Masternode, NEW f \in Finality, NEW e \in Entry, FinalizeAt(m, f, e)
    PROVE  fin' \in [Masternode -> Finality] /\ db' \in [Masternode -> Database]
<1>1. fin' \in [Masternode -> Finality]
  BY FinalizeType DEF FinalizeAt, TypeOK
<1>2. CASE Finalizes(f, e)
  <2>1. db' = [db EXCEPT ![m] = PersistFinalizedBlock(@, e)]
    BY <1>2 DEF FinalizeAt
  <2>2. db[m] \in Database
    BY DEF TypeOK
  <2> QED
    BY <1>1, <2>1, <2>2, FinalizedBlockType DEF TypeOK
<1>3. CASE ~Finalizes(f, e)
  BY <1>1, <1>3 DEF FinalizeAt, TypeOK
<1> QED
  BY <1>2, <1>3

\* So does caching a payload.
LEMMA CachePayloadType ==
    ASSUME TypeOK, NEW m \in Masternode, NEW h \in Hash, CachePayload(m, h)
    PROVE  fin' \in [Masternode -> Finality] /\ db' \in [Masternode -> Database]
<1>1. PICK p \in Prunes(fin[m].pending, now) :
        LET f == [InsertBlock(fin[m], h) EXCEPT !.pending = p]
        IN  IF WaitingFor(f, h) = {}
            THEN fin' = [fin EXCEPT ![m] = f] /\ UNCHANGED db
            ELSE \E e \in WaitingFor(f, h) : FinalizeAt(m, f, e)
  BY DEF CachePayload
<1> DEFINE f == [InsertBlock(fin[m], h) EXCEPT !.pending = p]
<1>2. fin[m] \in Finality
  BY DEF TypeOK
<1>3. p \in SUBSET Pending
  BY <1>2, PruneShrinks DEF Finality
<1>4. f \in Finality
  BY <1>2, <1>3, InsertBlockType, ZenonT(30) DEF Finality
<1>5. WaitingFor(f, h) \subseteq Entry
  BY <1>4 DEF WaitingFor, Finality, Pending, Entry
<1> HIDE DEF f
<1>6. CASE WaitingFor(f, h) = {}
  BY <1>1, <1>4, <1>6 DEF TypeOK, f
<1>7. CASE WaitingFor(f, h) # {}
  <2>1. PICK e \in WaitingFor(f, h) : FinalizeAt(m, f, e)
    BY <1>1, <1>7 DEF f
  <2> QED
    BY <2>1, <1>4, <1>5, FinalizeAtType
<1> QED
  BY <1>6, <1>7

\* The state keeps its type.
THEOREM TypeCorrect == Spec => []TypeOK
<1>1. Init => TypeOK
  BY FinalityAssumption
     DEF Init, TypeOK, NewAggregator, Aggregator, NewFinality, Finality, Database
<1>2. TypeOK /\ [Next]_vars => TypeOK'
  <2> SUFFICES ASSUME TypeOK, [Next]_vars PROVE TypeOK'
    OBVIOUS
  <2> USE FinalityAssumption
  <2>1. CASE Tick
    BY <2>1 DEF Tick, TypeOK
  <2>2. ASSUME NEW k \in Proposable, Propose(k) PROVE TypeOK'
    BY <2>2 DEF Propose, TypeOK
  <2>3. ASSUME NEW m \in Masternode, NEW k \in proposed, HandleBlock(m, k) PROVE TypeOK'
    <3>1. k.hash \in Hash
      BY DEF TypeOK, ProposalKey
    <3>2. fin' \in [Masternode -> Finality] /\ db' \in [Masternode -> Database]
      BY <2>3, <3>1, CachePayloadType, Zenon DEF HandleBlock
    <3> QED
      BY <2>3, <3>2 DEF HandleBlock, TypeOK
  <2>4. ASSUME NEW m \in Masternode, NEW k \in proposed, NEW b \in BOOLEAN,
               HandleLightnodeProposal(m, k, b)
        PROVE  TypeOK'
    <3>1. k \in ProposalKey /\ k.hash \in Hash
      BY DEF TypeOK, ProposalKey
    <3>2. fin' \in [Masternode -> Finality] /\ db' \in [Masternode -> Database]
      <4>1. CASE b
        BY <4>1, <2>4, <3>1, CachePayloadType, Zenon DEF HandleLightnodeProposal
      <4>2. CASE ~b
        BY <4>2, <2>4, Zenon DEF HandleLightnodeProposal, TypeOK
      <4> QED
        BY <4>1, <4>2, Zenon
    <3>3. /\ received' \in [Masternode -> SUBSET ProposalKey]
          /\ queued' \in [Masternode -> SUBSET ProposalKey]
          /\ saving' \in [Masternode -> ProposalKey \cup {Idle}]
      BY <2>4, <3>1, ZenonT(60) DEF HandleLightnodeProposal, TypeOK
    <3> QED
      BY <2>4, <3>2, <3>3, Zenon DEF HandleLightnodeProposal, TypeOK
  <2>5. ASSUME NEW m \in Masternode, NEW k \in proposed, NEW b \in BOOLEAN, VoteOnProposal(m, k, b)
        PROVE  TypeOK'
    <3>1. k \in ProposalKey
      BY DEF TypeOK
    <3>2. [key |-> k, voter |-> m, type |-> "Approve"] \in Vote
      BY <3>1, Zenon DEF Vote, VoteType
    <3>3. votes' \subseteq Vote /\ backlog' \in [Masternode -> SUBSET ProposalKey]
      BY <2>5, <3>2, SMTT(60) DEF VoteOnProposal, TypeOK, Unkeyed
    <3>4. queued' \in [Masternode -> SUBSET ProposalKey] /\ cached' \in [Masternode -> SUBSET ProposalKey]
      BY <2>5, <3>1 DEF VoteOnProposal, TypeOK
    <3> QED
      BY <2>5, <3>3, <3>4, Zenon DEF VoteOnProposal, TypeOK
  <2>6. ASSUME NEW m \in Masternode, NEW c \in certs, HandleConsensusCertificate(m, c) PROVE TypeOK'
    <3> DEFINE e == EntryOf(c.key)
    <3>1. e \in Entry
      BY EntryOfType DEF TypeOK, Certificate
    <3>2. fin[m] \in Finality
      BY DEF TypeOK
    <3> HIDE DEF e
    <3>3. fin' \in [Masternode -> Finality] /\ db' \in [Masternode -> Database]
      <4>1. CASE Settles(fin[m], e)
        BY <4>1, <2>6, <3>1, <3>2, FinalizeAtType DEF HandleConsensusCertificate, e
      <4>2. CASE ~Settles(fin[m], e)
        <5>1. PICK p \in Prunes(fin[m].pending, now) :
                 /\ fin' = [fin EXCEPT ![m] = Enqueue([fin[m] EXCEPT !.pending = p], e, now)]
                 /\ UNCHANGED db
          BY <4>2, <2>6, ZenonT(30) DEF HandleConsensusCertificate, e, TypeOK
        <5>2. [fin[m] EXCEPT !.pending = p] \in Finality
          BY <3>2, PruneShrinks, Zenon DEF Finality
        <5>3. Enqueue([fin[m] EXCEPT !.pending = p], e, now) \in Finality
          BY <5>2, <3>1, EnqueueType, Zenon DEF TypeOK
        <5> QED
          BY <5>1, <5>3 DEF TypeOK
      <4> QED
        BY <4>1, <4>2
    <3> QED
      BY <2>6, <3>3 DEF HandleConsensusCertificate, TypeOK
  <2>7. ASSUME NEW m \in Masternode, NEW v \in votes, HandleVote(m, v) PROVE TypeOK'
    <3>1. v \in Vote /\ v.key \in ProposalKey
      BY Zenon DEF TypeOK, Vote
    <3>2. agg' \in [Masternode -> Aggregator]
      BY <2>7, <3>1, AddVoteType, CommitteeSize, Zenon DEF HandleVote, TypeOK
    <3>3. Approvals(agg[m].votes \cup {v}, v.key) \subseteq Masternode
      BY <3>1 DEF Approvals, TypeOK, Aggregator, Vote
    <3>4. certs' \subseteq Certificate /\ job' \in [Masternode -> Job \cup {Idle}]
      <4>1. CASE Completes(agg[m], v, Cardinality(Masternode))
        <5>1. [key |-> v.key, issuer |-> m,
               voters |-> Approvals(agg[m].votes \cup {v}, v.key)] \in Certificate
          BY <3>1, <3>3, ZenonT(30) DEF Certificate
        <5>2. [key |-> v.key, step |-> "head"] \in Job
          BY <3>1, Zenon DEF Job
        <5> QED
          BY <4>1, <5>1, <5>2, <2>7 DEF HandleVote, TypeOK
      <4>2. CASE ~Completes(agg[m], v, Cardinality(Masternode))
        BY <4>2, <2>7, Zenon DEF HandleVote, TypeOK
      <4> QED
        BY <4>1, <4>2, Zenon
    <3> QED
      BY <2>7, <3>2, <3>4 DEF HandleVote, TypeOK
  <2>8. ASSUME NEW m \in Masternode, NEW groups \in ActiveGroups, SyncGroupSizes(m, groups) PROVE TypeOK'
    <3>1. agg' \in [Masternode -> Aggregator]
      BY <2>8, SetGroupMnSizesType, CommitteeSize, Zenon DEF SyncGroupSizes, TypeOK
    <3> QED
      BY <2>8, <3>1, Zenon DEF SyncGroupSizes, TypeOK
  <2>9. ASSUME NEW m \in Masternode, SaveBacklog(m) PROVE TypeOK'
    BY <2>9, Zenon DEF SaveBacklog, TypeOK, Unkeyed
  <2>10. ASSUME NEW m \in Masternode, PersistHead(m) PROVE TypeOK'
    <3>1. job[m] \in Job
      BY <2>10, Zenon DEF PersistHead, TypeOK
    <3>2. job' \in [Masternode -> Job \cup {Idle}]
      BY <2>10, <3>1, Zenon DEF PersistHead, TypeOK, Job
    <3>3. db' \in [Masternode -> Database]
      <4>1. job[m].key \in ProposalKey /\ db[m] \in Database
        BY <3>1, SMTT(60) DEF Job, TypeOK
      <4>2. PersistChainHead(db[m], job[m].key) \in Database
        BY <4>1, DatabaseType, Zenon
      <4> QED
        BY <4>2, <2>10, Zenon DEF PersistHead, TypeOK
    <3> QED
      BY <2>10, <3>2, <3>3, Zenon DEF PersistHead, TypeOK
  <2>11. ASSUME NEW m \in Masternode, PersistBody(m) PROVE TypeOK'
    <3>1. job[m] \in Job
      BY <2>11, ZenonT(60) DEF PersistBody, TypeOK
    <3>2. job' \in [Masternode -> Job \cup {Idle}]
      BY <2>11, <3>1, SMTT(60) DEF PersistBody, TypeOK, Job
    <3>3. cached' \in [Masternode -> SUBSET ProposalKey] /\ db' \in [Masternode -> Database]
      <4>1. CASE BodiesFor(m, job[m].key) = {}
        BY <4>1, <2>11, Zenon DEF PersistBody, TypeOK
      <4>2. CASE BodiesFor(m, job[m].key) # {}
        <5>1. PICK j \in BodiesFor(m, job[m].key) :
                /\ cached' = [cached EXCEPT ![m] = @ \ {j}]
                /\ db' = [db EXCEPT ![m] = PersistCertifiedBlock(@, j)]
          BY <4>2, <2>11, Zenon DEF PersistBody
        <5>2. j \in ProposalKey /\ db[m] \in Database
          BY <5>1, Zenon DEF BodiesFor, TypeOK
        <5>3. PersistCertifiedBlock(db[m], j) \in Database
          BY <5>2, DatabaseType, Zenon
        <5> QED
          BY <5>1, <5>3, Zenon DEF TypeOK
      <4> QED
        BY <4>1, <4>2, Zenon
    <3> QED
      BY <2>11, <3>2, <3>3, Zenon DEF PersistBody, TypeOK
  <2>12. ASSUME NEW m \in Masternode, PersistLatest(m) PROVE TypeOK'
    <3>1. job[m] \in Job
      BY <2>12, Zenon DEF PersistLatest, TypeOK
    <3>2. db' \in [Masternode -> Database]
      <4>1. job[m].key \in ProposalKey /\ db[m] \in Database
        BY <3>1 DEF Job, TypeOK
      <4>2. PersistLatestHeight(db[m], job[m].key) \in Database
        BY <4>1, DatabaseType, Zenon
      <4> QED
        BY <4>2, <2>12, Zenon DEF PersistLatest, TypeOK
    <3> QED
      BY <2>12, <3>2, Zenon DEF PersistLatest, TypeOK
  <2>13. ASSUME NEW m \in Masternode, Restart(m) PROVE TypeOK'
    <3>1. NewAggregator \in Aggregator /\ NewFinality \in Finality
      BY SMTT(60) DEF NewAggregator, Aggregator, NewFinality, Finality
    <3> QED
      BY <2>13, <3>1, SMTT(60) DEF Restart, TypeOK
  <2>14. CASE UNCHANGED vars
    BY <2>14, Zenon DEF vars, TypeOK
  <2> QED
    BY <2>1, <2>2, <2>3, <2>4, <2>5, <2>6, <2>7, <2>8, <2>9, <2>10, <2>11, <2>12, <2>13, <2>14, SMTT(60)
       DEF Next
<1> QED
  BY <1>1, <1>2, PTL DEF Spec
-----------------------------------------------------------------------------
(* The aggregation of votes into certificates.                              *)

\* What makes the two properties of the votes inductive: an aggregator knows a
\* group by the size of the whole committee or not at all, and has only
\* aggregated votes that were sent.
VoteInv ==
    /\ \A m \in Masternode : /\ \A g \in Group : agg[m].sizes[g] \in {0, Cardinality(Masternode)}
                             /\ agg[m].votes \subseteq votes
    /\ CertificatesCarryQuorum
    /\ BucketsAwaitQuorum

\* quorum_for_group then is the quorum of the committee, whichever of the three
\* look-ups finds it.
LEMMA QuorumIsTheCommittees ==
    ASSUME NEW a \in Aggregator, NEW g \in Group, NEW n \in Nat,
           \A h \in Group : a.sizes[h] \in {0, n}
    PROVE  QuorumForGroup(a, g, n) = QuorumForVoters(n)
<1>1. CASE a.sizes[g] # 0
  BY <1>1, SMTT(60) DEF QuorumForGroup
<1>2. CASE a.sizes[g] = 0 /\ Aliases(a, g) # {}
  <2> DEFINE h == CHOOSE h \in Aliases(a, g) : TRUE
  <2>1. h \in Aliases(a, g)
    BY <1>2
  <2>2. a.sizes[h] = n
    BY <2>1, ZenonT(30) DEF Aliases
  <2> QED
    BY <1>2, <2>2 DEF QuorumForGroup
<1>3. CASE a.sizes[g] = 0 /\ Aliases(a, g) = {}
  BY <1>3, Zenon DEF QuorumForGroup
<1> QED
  BY <1>1, <1>2, <1>3

\* add_vote keeps every bucket below the quorum and apart from the issued keys.
LEMMA AddVoteBuckets ==
    ASSUME NEW a \in Aggregator, NEW v \in Vote, NEW n \in Nat,
           \A h \in Group : a.sizes[h] \in {0, n},
           \A w \in a.votes : /\ w.key \notin a.issued
                              /\ Cardinality(Approvals(a.votes, w.key)) < QuorumForVoters(n),
           NEW w \in AddVote(a, v, n).votes
    PROVE  /\ w.key \notin AddVote(a, v, n).issued
           /\ Cardinality(Approvals(AddVote(a, v, n).votes, w.key)) < QuorumForVoters(n)
<1> DEFINE b == AddVote(a, v, n)
<1>0. v.key \in ProposalKey /\ v.key.group \in Group
  BY Zenon DEF Vote, ProposalKey
<1>q. QuorumForGroup(a, v.key.group, n) = QuorumForVoters(n)
  BY <1>0, QuorumIsTheCommittees, Zenon
<1>1. CASE v.key \in a.issued
  <2>1. b = a
    BY <1>1, Zenon DEF AddVote
  <2> QED
    BY <2>1
<1>2. CASE v.key \notin a.issued /\ Completes(a, v, n)
  <2>1. b.votes = {x \in a.votes : x.key # v.key} /\ b.issued = a.issued \cup {v.key}
    BY <1>2, Zenon DEF AddVote, Aggregator
  <2>2. w \in a.votes /\ w.key # v.key
    BY <2>1, Zenon
  <2>3. Approvals(b.votes, w.key) = Approvals(a.votes, w.key)
    BY <2>1, <2>2, Zenon DEF Approvals
  <2> QED
    BY <2>1, <2>2, <2>3
<1>3. CASE v.key \notin a.issued /\ ~Completes(a, v, n)
  <2>1. b.votes = a.votes \cup {v} /\ b.issued = a.issued
    BY <1>3, Zenon DEF AddVote, Aggregator
  <2>2. CASE w.key = v.key
    <3>1. ~(Cardinality(Approvals(b.votes, v.key)) >= QuorumForVoters(n))
      BY <1>3, <1>q, <2>1, Zenon DEF Completes
    <3>2. Cardinality(Approvals(b.votes, v.key)) \in Nat
      <4>1. Approvals(b.votes, v.key) \subseteq Masternode
        BY <2>1, SMTT(60) DEF Approvals, Aggregator, Vote
      <4> QED
        BY <4>1, FinalityAssumption, FS_Subset, FS_CardinalityType, Zenon
    <3> QED
      BY <3>1, <3>2, <2>1, <2>2, <1>3, QuorumType, SMTT(60)
  <2>3. CASE w.key # v.key
    <3>1. Approvals(b.votes, w.key) = Approvals(a.votes, w.key)
      BY <2>1, <2>3 DEF Approvals
    <3> QED
      BY <3>1, <2>1, <2>3, Zenon
  <2> QED
    BY <2>2, <2>3
<1> QED
  BY <1>1, <1>2, <1>3, Zenon

\* VoteInv holds of every reachable state.
LEMMA VoteInvHolds == Spec => []VoteInv
<1> DEFINE N == Cardinality(Masternode)
<1>n. N \in Nat
  BY CommitteeSize, SMTT(60)
<1>1. Init => VoteInv
  <2> SUFFICES ASSUME Init PROVE VoteInv
    BY Zenon
  <2>1. \A m \in Masternode : agg[m] = NewAggregator
    BY DEF Init
  <2>2. /\ NewAggregator.votes = {}
        /\ \A g \in Group : NewAggregator.sizes[g] = 0
    BY DEF NewAggregator
  <2>3. \A m \in Masternode : /\ \A g \in Group : agg[m].sizes[g] = 0
                              /\ agg[m].votes = {}
    BY <2>1, <2>2, Zenon
  <2>4. CertificatesCarryQuorum
    BY DEF Init, CertificatesCarryQuorum
  <2>5. BucketsAwaitQuorum
    BY <2>3, Zenon DEF BucketsAwaitQuorum
  <2> QED
    BY <2>3, <2>4, <2>5 DEF VoteInv
<1>2. TypeOK /\ VoteInv /\ [Next]_vars => VoteInv'
  <2> SUFFICES ASSUME TypeOK, VoteInv, [Next]_vars PROVE VoteInv'
    BY Zenon
  <2>1. ASSUME NEW m \in Masternode, NEW v \in votes, HandleVote(m, v) PROVE VoteInv'
    <3> DEFINE a == agg[m]
    <3>1. a \in Aggregator /\ v \in Vote /\ v.key.group \in Group
      BY Zenon DEF TypeOK, Vote, ProposalKey
    <3>2. /\ agg' = [agg EXCEPT ![m] = AddVote(a, v, N)]
          /\ votes' = votes
      BY <2>1 DEF HandleVote
    <3>3. /\ AddVote(a, v, N).sizes = a.sizes
          /\ AddVote(a, v, N).votes \subseteq a.votes \cup {v}
      BY <3>1, SMTT(60) DEF AddVote, Aggregator
    <3>4. \A i \in Masternode : /\ \A g \in Group : agg'[i].sizes[g] \in {0, N}
                                /\ agg'[i].votes \subseteq votes'
      BY <3>2, <3>3, Zenon DEF VoteInv, TypeOK
    <3>5. BucketsAwaitQuorum'
      <4> SUFFICES ASSUME NEW i \in Masternode, NEW w \in agg'[i].votes
                   PROVE  /\ w.key \notin agg'[i].issued
                          /\ Cardinality(Approvals(agg'[i].votes, w.key)) < QuorumForVoters(N)
        BY Zenon DEF BucketsAwaitQuorum
      <4>1. CASE i = m
        <5>1. agg'[i] = AddVote(a, v, N)
          BY <4>1, <3>2, Zenon DEF TypeOK
        <5>2. \A u \in a.votes : /\ u.key \notin a.issued
                                 /\ Cardinality(Approvals(a.votes, u.key)) < QuorumForVoters(N)
          BY Zenon DEF VoteInv, BucketsAwaitQuorum
        <5>3. \A g \in Group : a.sizes[g] \in {0, N}
          BY Zenon DEF VoteInv
        <5> HIDE DEF a, N
        <5> QED
          BY <5>1, <5>2, <5>3, <3>1, <1>n, AddVoteBuckets, SMTT(60)
      <4>2. CASE i # m
        BY <4>2, <3>2 DEF VoteInv, BucketsAwaitQuorum, TypeOK
      <4> QED
        BY <4>1, <4>2, Zenon
    <3>6. CertificatesCarryQuorum'
      <4>1. CASE Completes(a, v, N)
        <5> DEFINE S == Approvals(a.votes \cup {v}, v.key)
        <5>1. certs' = certs \cup {[key |-> v.key, issuer |-> m, voters |-> S]}
          BY <4>1, <2>1, Zenon DEF HandleVote
        <5>2. QuorumForGroup(a, v.key.group, N) = QuorumForVoters(N)
          BY <3>1, <1>n, QuorumIsTheCommittees, Zenon DEF VoteInv
        <5>3. Cardinality(S) >= QuorumForVoters(N)
          BY <4>1, <5>2, SMTT(60) DEF Completes
        <5>4. \A i \in S : [key |-> v.key, voter |-> i, type |-> "Approve"] \in votes
          <6> SUFFICES ASSUME NEW i \in S
                       PROVE  [key |-> v.key, voter |-> i, type |-> "Approve"] \in votes
            BY Zenon
          <6>1. PICK w \in a.votes \cup {v} : w.key = v.key /\ w.type = "Approve" /\ w.voter = i
            BY Zenon DEF Approvals
          <6>2. w \in votes
            BY <6>1, Zenon DEF VoteInv
          <6>3. w \in Vote
            BY <6>2, Zenon DEF TypeOK
          <6>4. w = [key |-> v.key, voter |-> i, type |-> "Approve"]
            BY <6>1, <6>3, Zenon DEF Vote
          <6> QED
            BY <6>2, <6>4, SMTT(60)
        <5> DEFINE new == [key |-> v.key, issuer |-> m, voters |-> S]
        <5>5. new.key = v.key /\ new.voters = S
          BY Zenon
        <5>6. votes' = votes
          BY <3>2, Zenon
        <5> HIDE DEF S, new
        <5> SUFFICES ASSUME NEW c \in certs'
                     PROVE  /\ Cardinality(c.voters) >= QuorumForVoters(N)
                            /\ \A i \in c.voters :
                                  [key |-> c.key, voter |-> i, type |-> "Approve"] \in votes
          BY <5>6, Zenon DEF CertificatesCarryQuorum
        <5>7. CASE c \in certs
          BY <5>7, Zenon DEF VoteInv, CertificatesCarryQuorum
        <5>8. CASE c = new
          BY <5>3, <5>4, <5>5, <5>8, Zenon
        <5> QED
          BY <5>1, <5>7, <5>8, Zenon DEF new
      <4>2. CASE ~Completes(a, v, N)
        BY <4>2, <2>1 DEF HandleVote, VoteInv, CertificatesCarryQuorum
      <4> QED
        BY <4>1, <4>2, Zenon
    <3> QED
      BY <3>4, <3>5, <3>6, Zenon DEF VoteInv
  <2>2. ASSUME NEW m \in Masternode, NEW groups \in ActiveGroups, SyncGroupSizes(m, groups)
        PROVE  VoteInv'
    <3>1. N # 0
      BY FinalityAssumption, FS_EmptySet, Zenon
    <3>2. /\ SetGroupMnSizes(agg[m], groups, N).votes = agg[m].votes
          /\ SetGroupMnSizes(agg[m], groups, N).issued = agg[m].issued
          /\ \A g \in Group : SetGroupMnSizes(agg[m], groups, N).sizes[g] \in {0, N}
      BY <3>1 DEF SetGroupMnSizes, TypeOK, Aggregator
    <3>3. /\ agg' = [agg EXCEPT ![m] = SetGroupMnSizes(@, groups, N)]
          /\ UNCHANGED <<votes, certs>>
      BY <2>2, Zenon DEF SyncGroupSizes
    <3>4. \A i \in Masternode : /\ agg'[i].votes = agg[i].votes
                                /\ agg'[i].issued = agg[i].issued
                                /\ \A g \in Group : agg'[i].sizes[g] \in {0, N}
      BY <3>2, <3>3, ZenonT(60) DEF TypeOK, VoteInv
    <3> QED
      BY <3>3, <3>4, ZenonT(30) DEF VoteInv, CertificatesCarryQuorum, BucketsAwaitQuorum
  <2>3. ASSUME NEW m \in Masternode, Restart(m) PROVE VoteInv'
    <3>1. UNCHANGED <<votes, certs>> /\ agg' = [agg EXCEPT ![m] = NewAggregator]
      BY <2>3, Zenon DEF Restart
    <3>2. agg'[m] = NewAggregator /\ \A i \in Masternode : i # m => agg'[i] = agg[i]
      BY <3>1, Zenon DEF TypeOK
    <3>3. NewAggregator.votes = {} /\ \A g \in Group : NewAggregator.sizes[g] = 0
      BY DEF NewAggregator
    <3>4. UNCHANGED <<votes, certs>>
      BY <3>1, Zenon
    <3> QED
      BY <3>2, <3>3, <3>4, Zenon DEF VoteInv, CertificatesCarryQuorum, BucketsAwaitQuorum
  <2>4. ASSUME NEW m \in Masternode, NEW k \in proposed, NEW b \in BOOLEAN, VoteOnProposal(m, k, b)
        PROVE  VoteInv'
    <3>1. votes \subseteq votes' /\ UNCHANGED <<agg, certs>>
      BY <2>4, Zenon DEF VoteOnProposal
    <3> QED
      BY <3>1, Zenon DEF VoteInv, CertificatesCarryQuorum, BucketsAwaitQuorum
  <2>5. UNCHANGED <<agg, votes, certs>> => VoteInv'
    BY DEF VoteInv, CertificatesCarryQuorum, BucketsAwaitQuorum
  <2> QED
    BY <2>1, <2>2, <2>3, <2>4, <2>5
       DEF Next, vars, Tick, Propose, HandleBlock, HandleLightnodeProposal, SaveBacklog,
           HandleConsensusCertificate, PersistHead, PersistBody, PersistLatest
<1> QED
  BY <1>1, <1>2, TypeCorrect, PTL DEF Spec

\* Every certificate carries the votes of a quorum of the committee, whatever
\* the sync task fed into quorum_for_group and whatever crashed.
THEOREM CertificatesAlwaysCarryQuorum == Spec => []CertificatesCarryQuorum
  BY VoteInvHolds, PTL DEF VoteInv

\* Any two certificates have a third of the committee in common: the reason
\* why quorum_for_voters rounds 2n/3 up.
THEOREM CertificatesAlwaysOverlap == Spec => []CertificatesOverlap
<1> DEFINE n == Cardinality(Masternode)
<1>1. n \in Nat
  BY FinalityAssumption, FS_CardinalityType, Zenon
<1>2. ASSUME NEW A \in SUBSET Masternode, NEW B \in SUBSET Masternode,
             Cardinality(A) >= QuorumForVoters(n), Cardinality(B) >= QuorumForVoters(n)
      PROVE  3 * Cardinality(A \cap B) >= n
  <2>1. IsFiniteSet(A) /\ IsFiniteSet(B) /\ IsFiniteSet(A \cap B)
    BY FinalityAssumption, FS_Subset, SMTT(60)
  <2>2. Cardinality(A) \in Nat /\ Cardinality(B) \in Nat /\ Cardinality(A \cap B) \in Nat
    BY <2>1, FS_CardinalityType, Zenon
  <2>3. Cardinality(A \cup B) = Cardinality(A) + Cardinality(B) - Cardinality(A \cap B)
    BY <2>1, FS_Union
  <2>4. A \cup B \subseteq Masternode
    BY Zenon
  <2>5. Cardinality(A \cup B) <= n
    BY <2>4, FinalityAssumption, FS_Subset
  <2>6. 3 * QuorumForVoters(n) >= 2 * n
    BY <1>1 DEF QuorumForVoters
  <2>7. QuorumForVoters(n) \in Nat
    BY <1>1, SMTT(60) DEF QuorumForVoters
  <2> HIDE DEF n
  <2> QED
    BY <1>1, <1>2, <2>2, <2>3, <2>5, <2>6, <2>7, SMTT(60)
<1>3. TypeOK /\ CertificatesCarryQuorum => CertificatesOverlap
  <2> SUFFICES ASSUME TypeOK, CertificatesCarryQuorum, NEW c \in certs, NEW d \in certs
               PROVE  3 * Cardinality(c.voters \cap d.voters) >= n
    BY Zenon DEF CertificatesOverlap
  <2>1. c.voters \in SUBSET Masternode /\ d.voters \in SUBSET Masternode
    BY Zenon DEF TypeOK, Certificate
  <2>2. Cardinality(c.voters) >= QuorumForVoters(n) /\ Cardinality(d.voters) >= QuorumForVoters(n)
    BY DEF CertificatesCarryQuorum
  <2> HIDE DEF n
  <2> QED
    BY <1>2, <2>1, <2>2
<1> QED
  BY <1>3, TypeCorrect, CertificatesAlwaysCarryQuorum, PTL

\* add_vote opens no bucket for a certified proposal and leaves none at quorum.
THEOREM BucketsAlwaysAwaitQuorum == Spec => []BucketsAwaitQuorum
  BY VoteInvHolds, PTL DEF VoteInv
\* A masternode that did not restart remembers every key it issued a certificate
\* for: issued_certs never loses one.
IssuedInv ==
    /\ OneCertificatePerProposal
    /\ restarts = 0 => \A c \in certs : c.key \in agg[c.issuer].issued

\* IssuedInv holds of every reachable state.
LEMMA IssuedInvHolds == Spec => []IssuedInv
<1>1. Init => IssuedInv
  BY Zenon DEF Init, IssuedInv, OneCertificatePerProposal
<1>2. TypeOK /\ IssuedInv /\ [Next]_vars => IssuedInv'
  <2> SUFFICES ASSUME TypeOK, IssuedInv, [Next]_vars PROVE IssuedInv'
    OBVIOUS
  <2>1. ASSUME NEW m \in Masternode, NEW v \in votes, HandleVote(m, v) PROVE IssuedInv'
    <3> DEFINE a == agg[m]
               b == AddVote(a, v, Cardinality(Masternode))
               new == [key |-> v.key, issuer |-> m,
                       voters |-> Approvals(a.votes \cup {v}, v.key)]
    <3>1. a \in Aggregator /\ agg' = [agg EXCEPT ![m] = b] /\ restarts' = restarts
      BY <2>1, Zenon DEF HandleVote, TypeOK
    <3>2. \A i \in Masternode : i # m => agg'[i] = agg[i]
      BY <3>1, Zenon DEF TypeOK
    <3>3. agg'[m] = b
      BY <3>1 DEF TypeOK
    <3>4. a.issued \subseteq b.issued
      BY <3>1 DEF AddVote, Aggregator
    <3>5. CASE certs' = certs
      BY <3>1, <3>2, <3>3, <3>4, <3>5, Zenon DEF IssuedInv, OneCertificatePerProposal, TypeOK, Certificate
    <3>6. CASE Completes(a, v, Cardinality(Masternode)) /\ certs' = certs \cup {new}
      <4>1. v.key \notin a.issued /\ v.key \in b.issued
        BY <3>1, <3>6 DEF Completes, AddVote, Aggregator
      <4>2. new.key = v.key /\ new.issuer = m
        BY Zenon
      <4> HIDE DEF new, a, b
      <4>3. ASSUME restarts' = 0, NEW c \in certs PROVE ~(c.issuer = m /\ c.key = v.key)
        BY <3>1, <4>1, <4>3, Zenon DEF IssuedInv, a
      <4>4. ASSUME restarts' = 0, NEW c \in certs' PROVE c.key \in agg'[c.issuer].issued
        <5>1. CASE c \in certs
          BY <3>1, <3>2, <3>3, <3>4, <4>4, <5>1, Zenon DEF IssuedInv, TypeOK, Certificate, a
        <5>2. CASE c = new
          BY <3>3, <4>1, <4>2, <5>2, Zenon
        <5> QED BY <3>6, <4>4, <5>1, <5>2, Zenon
      <4>5. OneCertificatePerProposal'
        BY <3>1, <3>6, <4>2, <4>3, Zenon DEF IssuedInv, OneCertificatePerProposal
      <4> QED BY <4>4, <4>5, Zenon DEF IssuedInv
    <3> QED BY <2>1, <3>5, <3>6, Zenon DEF HandleVote
  <2>2. ASSUME NEW m \in Masternode, Restart(m) PROVE IssuedInv'
    <3>1. restarts' = restarts + 1 /\ restarts \in 0 .. MaxRestarts
      BY <2>2, Zenon DEF Restart, TypeOK
    <3>2. restarts' # 0
      BY <3>1
    <3> QED BY <3>2, Zenon DEF IssuedInv, OneCertificatePerProposal
  <2>3. ASSUME NEW m \in Masternode, NEW groups \in ActiveGroups, SyncGroupSizes(m, groups)
        PROVE  IssuedInv'
    <3>1. certs' = certs /\ restarts' = restarts
      BY <2>3 DEF SyncGroupSizes
    <3>2. \A i \in Masternode : agg'[i].issued = agg[i].issued
      BY <2>3, Zenon DEF SyncGroupSizes, SetGroupMnSizes, TypeOK, Aggregator
    <3> QED BY <3>1, <3>2, Zenon DEF IssuedInv, OneCertificatePerProposal, TypeOK, Certificate
  <2>4. ASSUME UNCHANGED <<certs, agg, restarts>> PROVE IssuedInv'
    BY <2>4 DEF IssuedInv, OneCertificatePerProposal
  <2>5. ASSUME NEW m \in Masternode, NEW k \in proposed, NEW x \in BOOLEAN,
               HandleBlock(m, k) \/ HandleLightnodeProposal(m, k, x) \/ VoteOnProposal(m, k, x)
        PROVE  UNCHANGED <<certs, agg, restarts>>
    BY <2>5, Zenon DEF HandleBlock, HandleLightnodeProposal, VoteOnProposal
  <2>6. ASSUME NEW m \in Masternode, NEW c \in certs, HandleConsensusCertificate(m, c)
        PROVE  UNCHANGED <<certs, agg, restarts>>
    BY <2>6, Zenon DEF HandleConsensusCertificate
  <2>7. ASSUME NEW m \in Masternode,
               SaveBacklog(m) \/ PersistHead(m) \/ PersistBody(m) \/ PersistLatest(m)
        PROVE  UNCHANGED <<certs, agg, restarts>>
    BY <2>7, Zenon DEF SaveBacklog, PersistHead, PersistBody, PersistLatest
  <2>8. ASSUME Tick \/ (\E k \in Proposable : Propose(k)) \/ UNCHANGED vars
        PROVE  UNCHANGED <<certs, agg, restarts>>
    BY <2>8 DEF Tick, Propose, vars
  <2> QED
    BY <2>1, <2>2, <2>3, <2>4, <2>5, <2>6, <2>7, <2>8, ZenonT(30) DEF Next
<1> QED
  BY <1>1, <1>2, TypeCorrect, PTL DEF Spec

\* For every committee and number of groups, a masternode that did not restart
\* publishes one certificate per proposal, however late the other votes come.
THEOREM ProposalsAreCertifiedOnce == Spec => []OneCertificatePerProposal
BY IssuedInvHolds, PTL DEF IssuedInv
=============================================================================
