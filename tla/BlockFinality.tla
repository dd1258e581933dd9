--------------------------- MODULE BlockFinality ---------------------------
(***************************************************************************)
(* Block certification among the masternodes (the V0.1 path): lightnodes   *)
(* propose blocks, every masternode votes, every masternode aggregates the *)
(* votes into certificates, and a certificate makes its block final.       *)
(*                                                                         *)
(* A masternode runs two tasks: the network task (libp2p_network.rs)       *)
(* caches payloads, forwards proposals and handles certificates; the main  *)
(* task (the select loop of main.rs) votes, aggregates and persists.  They *)
(* share the RocksDB `db` and nothing else.  Messages are sets: a copy may *)
(* be late, repeated or never arrive.  A masternode may crash at any step  *)
(* and restart with nothing but its database.                              *)
(***************************************************************************)
EXTENDS VoteAggregator, CertificateFinality

CONSTANTS
    Proposable,   \* the proposals lightnodes may make
    ActiveGroups, \* the sets of groups a masternode may find active
    BackupOf,     \* the backup leader masternode of a group, or Idle for none
    Genesis,      \* hash of the genesis block, at height 0
    Idle,         \* a task between two messages
    MaxRestarts   \* bound on crashes in all

ASSUME FinalityAssumption ==
    /\ Proposable \subseteq ProposalKey
    /\ ActiveGroups \subseteq SUBSET Group
    /\ Height \subseteq Nat \ {0}
    /\ Time \subseteq Nat /\ 0 \in Time
    /\ Idle \notin ProposalKey
    /\ Genesis \notin Hash
    /\ IsFiniteSet(Masternode)
    /\ IsFiniteSet(Hash)
    /\ CacheMax \in Nat \ {0}
    /\ PendingMax \in Nat
    /\ MaxRestarts \in Nat

VARIABLES
    now,       \* the clock, in seconds
    proposed,  \* proposals the lightnodes gossiped
    received,  \* received[m]: proposals the network task of m forwarded
    queued,    \* queued[m]: forwarded proposals the main task has not taken up
    saving,    \* saving[m]: the proposal the network task of m is about to
               \* enter into pending_proposals, or Idle
    backlog,   \* backlog[m]: pending_proposals
    cached,    \* cached[m]: certified_proposal_cache of the main task
    votes,     \* votes sent to all masternodes
    agg,       \* agg[m]: the vote aggregator
    certs,     \* [key, voters, issuer]: certificates published
    job,       \* job[m]: what the main task has still to persist, or Idle
    fin,       \* fin[m]: the finality state of the network task
    db,        \* db[m]: chain head, block bodies, latest height
    restarts

vars == <<now, proposed, received, queued, saving, backlog, cached, votes, agg,
          certs, job, fin, db, restarts>>

Certificate == [key : ProposalKey, voters : SUBSET Masternode, issuer : Masternode]
Job == [key : ProposalKey, step : {"head", "body", "latest"}]
Database == [head : [hash : Hash \cup {Genesis}, height : Height \cup {0}],
             bodies : SUBSET Hash, latest : Height \cup {0}]

\* The writes to the database d: persist_finalized_block_to_db of the network
\* task, and the three of the main task.  Each overwrites the head, or the
\* latest height, whatever it was.
PersistFinalizedBlock(d, e) ==
    [d EXCEPT !.bodies = @ \cup {e.hash}, !.head = [hash |-> e.hash, height |-> e.height]]
PersistChainHead(d, k) == [d EXCEPT !.head = [hash |-> k.hash, height |-> k.height]]
PersistCertifiedBlock(d, k) == [d EXCEPT !.bodies = @ \cup {k.hash}, !.latest = k.height]
PersistLatestHeight(d, k) == [d EXCEPT !.latest = k.height]

EntryOf(k) == [hash |-> k.hash, height |-> k.height, group |-> k.group]

Init ==
    /\ now = 0
    /\ proposed = {}
    /\ received = [m \in Masternode |-> {}]
    /\ queued = [m \in Masternode |-> {}]
    /\ saving = [m \in Masternode |-> Idle]
    /\ backlog = [m \in Masternode |-> {}]
    /\ cached = [m \in Masternode |-> {}]
    /\ votes = {}
    /\ agg = [m \in Masternode |-> NewAggregator]
    /\ certs = {}
    /\ job = [m \in Masternode |-> Idle]
    /\ fin = [m \in Masternode |-> NewFinality]
    /\ db = [m \in Masternode |-> [head |-> [hash |-> Genesis, height |-> 0],
                                   bodies |-> {}, latest |-> 0]]
    /\ restarts = 0

Tick ==
    /\ now + 1 \in Time
    /\ now' = now + 1
    /\ UNCHANGED <<proposed, received, queued, saving, backlog, cached, votes, agg,
                   certs, job, fin, db, restarts>>

\* The elected proposer of a group gossips a proposal.  After a rotation of the
\* proposer there may be another one for the same height.
Propose(k) ==
    /\ k \in Proposable \ proposed
    /\ proposed' = proposed \cup {k}
    /\ UNCHANGED <<now, received, queued, saving, backlog, cached, votes, agg, certs,
                   job, fin, db, restarts>>
-----------------------------------------------------------------------------
(* The network task of m. *)

\* finalize_with_cached_payload with its persist_finalized_block_to_db.
FinalizeAt(m, f, e) ==
    /\ fin' = [fin EXCEPT ![m] = FinalizeWithCachedPayload(f, e)]
    /\ db' = IF Finalizes(f, e) THEN [db EXCEPT ![m] = PersistFinalizedBlock(@, e)] ELSE db

\* Mutant of CachePayload: a waiting certificate is not drained.
CachePayloadOnly(m, h) ==
    /\ fin' = [fin EXCEPT ![m] = InsertBlock(@, h)]
    /\ UNCHANGED db

\* cache_block_payload: insert, then finalise a certificate that waited.
CachePayload(m, h) ==
    \E p \in Prunes(fin[m].pending, now) :
        LET f == [InsertBlock(fin[m], h) EXCEPT !.pending = p]
        IN  IF WaitingFor(f, h) = {}
            THEN fin' = [fin EXCEPT ![m] = f] /\ UNCHANGED db
            ELSE \E e \in WaitingFor(f, h) : FinalizeAt(m, f, e)

\* A block of block_topic, or a proposal whose election certificate does not
\* verify: only its payload is kept.
HandleBlock(m, k) ==
    /\ saving[m] = Idle
    /\ k \in proposed
    /\ CachePayload(m, k.hash)
    /\ UNCHANGED <<now, proposed, received, queued, saving, backlog, cached, votes, agg,
                   certs, job, restarts>>

\* handle_lightnode_proposal up to the send to the main task; `inline` says
\* whether the proposal carries its transactions.
HandleLightnodeProposal(m, k, inline) ==
    /\ saving[m] = Idle
    /\ k \in proposed \ received[m]
    /\ received' = [received EXCEPT ![m] = @ \cup {k}]
    /\ queued' = [queued EXCEPT ![m] = @ \cup {k}]
    /\ saving' = [saving EXCEPT ![m] = IF BackupOf[k.group] = m THEN k ELSE Idle]
    /\ IF inline THEN CachePayload(m, k.hash) ELSE UNCHANGED <<fin, db>>
    /\ UNCHANGED <<now, proposed, backlog, cached, votes, agg, certs, job, restarts>>

\* pending_proposals is keyed by group, height and round: its entries but the one
\* under the key of k.
SameKey(j, k) == <<j.group, j.height, j.round>> = <<k.group, k.height, k.round>>
Unkeyed(pending, k) == {j \in pending : ~SameKey(j, k)}

\* Mutant of SaveBacklog: the proposal is read after its place was cleared.
SaveBacklogCleared(m) ==
    /\ saving[m] # Idle
    /\ saving' = [saving EXCEPT ![m] = Idle]
    /\ backlog' = [backlog EXCEPT ![m] = Unkeyed(@, saving[m]) \cup {saving'[m]}]
    /\ UNCHANGED <<now, proposed, received, queued, cached, votes, agg, certs, job, fin,
                   db, restarts>>

\* The end of handle_lightnode_proposal at the backup leader of the group.
SaveBacklog(m) ==
    /\ saving[m] # Idle
    /\ backlog' = [backlog EXCEPT ![m] = Unkeyed(@, saving[m]) \cup {saving[m]}]
    /\ saving' = [saving EXCEPT ![m] = Idle]
    /\ UNCHANGED <<now, proposed, received, queued, cached, votes, agg, certs, job, fin,
                   db, restarts>>

\* handle_consensus_certificate.  Gossip does not return a certificate to the
\* masternode that published it.
HandleConsensusCertificate(m, c) ==
    /\ saving[m] = Idle
    /\ c \in certs
    /\ c.issuer # m
    /\ LET e == EntryOf(c.key)
       IN  IF Settles(fin[m], e)
           THEN FinalizeAt(m, fin[m], e)
           ELSE \E p \in Prunes(fin[m].pending, now) :
                  /\ fin' = [fin EXCEPT ![m] = Enqueue([@ EXCEPT !.pending = p], e, now)]
                  /\ UNCHANGED db
    /\ UNCHANGED <<now, proposed, received, queued, saving, backlog, cached, votes, agg,
                   certs, job, restarts>>
-----------------------------------------------------------------------------
(* The main task of m. *)

\* A proposal from proposal_rx is cached; unless vote_on_proposal refuses it, it
\* leaves pending_proposals and the approving vote goes to everybody.
VoteOnProposal(m, k, approve) ==
    /\ job[m] = Idle
    /\ k \in queued[m]
    /\ queued' = [queued EXCEPT ![m] = @ \ {k}]
    /\ cached' = [cached EXCEPT ![m] = @ \cup {k}]
    /\ IF approve
       THEN /\ votes' = votes \cup {[key |-> k, voter |-> m, type |-> "Approve"]}
            /\ backlog' = [backlog EXCEPT ![m] = Unkeyed(@, k)]
       ELSE UNCHANGED <<votes, backlog>>
    /\ UNCHANGED <<now, proposed, received, saving, agg, certs, job, fin, db, restarts>>

\* The group-size sync task of main.rs; nothing happens without active groups.
SyncGroupSizes(m, groups) ==
    /\ groups # {}
    /\ agg' = [agg EXCEPT ![m] = SetGroupMnSizes(@, groups, Cardinality(Masternode))]
    /\ UNCHANGED <<now, proposed, received, queued, saving, backlog, cached, votes, certs,
                   job, fin, db, restarts>>

\* Mutant of HandleVote: the block is persisted without waiting for the quorum.
HandleVotePersistsFirst(m, v) ==
    /\ job[m] = Idle
    /\ v \in votes
    /\ agg' = [agg EXCEPT ![m] = AddVote(@, v, Cardinality(Masternode))]
    /\ job' = [job EXCEPT ![m] = [key |-> v.key, step |-> "head"]]
    /\ UNCHANGED <<now, proposed, received, queued, saving, backlog, cached, votes, certs,
                   fin, db, restarts>>

\* A vote from vote_rx: aggregate it; a certificate is broadcast at once and
\* persisted afterwards.
HandleVote(m, v) ==
    /\ job[m] = Idle
    /\ v \in votes
    /\ agg' = [agg EXCEPT ![m] = AddVote(@, v, Cardinality(Masternode))]
    /\ IF Completes(agg[m], v, Cardinality(Masternode))
       THEN /\ certs' = certs \cup {[key |-> v.key, issuer |-> m,
                                     voters |-> Approvals(agg[m].votes \cup {v}, v.key)]}
            /\ job' = [job EXCEPT ![m] = [key |-> v.key, step |-> "head"]]
       ELSE UNCHANGED <<certs, job>>
    /\ UNCHANGED <<now, proposed, received, queued, saving, backlog, cached, votes, fin,
                   db, restarts>>

\* persist_chain_head
PersistHead(m) ==
    /\ job[m] # Idle /\ job[m].step = "head"
    /\ db' = [db EXCEPT ![m] = PersistChainHead(@, job[m].key)]
    /\ job' = [job EXCEPT ![m] = [key |-> @.key, step |-> "body"]]
    /\ UNCHANGED <<now, proposed, received, queued, saving, backlog, cached, votes, agg,
                   certs, fin, restarts>>

\* The cached proposals a certificate of k may take its body from: the exact
\* key, or else one that differs in the group id.
BodiesFor(m, k) ==
    IF k \in cached[m] THEN {k}
    ELSE {j \in cached[m] : <<j.height, j.round, j.hash>> = <<k.height, k.round, k.hash>>}

\* persist_certified_block into both databases, if the proposal is cached.
PersistBody(m) ==
    /\ job[m] # Idle /\ job[m].step = "body"
    /\ IF BodiesFor(m, job[m].key) = {}
       THEN UNCHANGED <<cached, db>>
       ELSE \E j \in BodiesFor(m, job[m].key) :
              /\ cached' = [cached EXCEPT ![m] = @ \ {j}]
              /\ db' = [db EXCEPT ![m] = PersistCertifiedBlock(@, j)]
    /\ job' = [job EXCEPT ![m] = [key |-> @.key, step |-> "latest"]]
    /\ UNCHANGED <<now, proposed, received, queued, saving, backlog, votes, agg, certs,
                   fin, restarts>>

\* persist_latest_height
PersistLatest(m) ==
    /\ job[m] # Idle /\ job[m].step = "latest"
    /\ db' = [db EXCEPT ![m] = PersistLatestHeight(@, job[m].key)]
    /\ job' = [job EXCEPT ![m] = Idle]
    /\ UNCHANGED <<now, proposed, received, queued, saving, backlog, cached, votes, agg,
                   certs, fin, restarts>>
-----------------------------------------------------------------------------
\* A crash and restart: only the database survives.
Restart(m) ==
    /\ restarts < MaxRestarts
    /\ restarts' = restarts + 1
    /\ received' = [received EXCEPT ![m] = {}]
    /\ queued' = [queued EXCEPT ![m] = {}]
    /\ saving' = [saving EXCEPT ![m] = Idle]
    /\ backlog' = [backlog EXCEPT ![m] = {}]
    /\ cached' = [cached EXCEPT ![m] = {}]
    /\ agg' = [agg EXCEPT ![m] = NewAggregator]
    /\ job' = [job EXCEPT ![m] = Idle]
    /\ fin' = [fin EXCEPT ![m] = NewFinality]
    /\ UNCHANGED <<now, proposed, votes, certs, db>>

Next ==
    \/ Tick
    \/ \E k \in Proposable : Propose(k)
    \/ \E m \in Masternode :
        \/ \E k \in proposed : \/ HandleBlock(m, k)
                               \/ \E b \in BOOLEAN : \/ HandleLightnodeProposal(m, k, b)
                                                     \/ VoteOnProposal(m, k, b)
        \/ \E c \in certs : HandleConsensusCertificate(m, c)
        \/ \E v \in votes : HandleVote(m, v)
        \/ \E groups \in ActiveGroups : SyncGroupSizes(m, groups)
        \/ SaveBacklog(m)
        \/ PersistHead(m)
        \/ PersistBody(m)
        \/ PersistLatest(m)
        \/ Restart(m)

Spec == Init /\ [][Next]_vars
-----------------------------------------------------------------------------
\* The state has its type.
TypeOK ==
    /\ now \in Time
    /\ proposed \subseteq Proposable
    /\ received \in [Masternode -> SUBSET ProposalKey]
    /\ queued \in [Masternode -> SUBSET ProposalKey]
    /\ saving \in [Masternode -> ProposalKey \cup {Idle}]
    /\ backlog \in [Masternode -> SUBSET ProposalKey]
    /\ cached \in [Masternode -> SUBSET ProposalKey]
    /\ votes \subseteq Vote
    /\ agg \in [Masternode -> Aggregator]
    /\ certs \subseteq Certificate
    /\ job \in [Masternode -> Job \cup {Idle}]
    /\ fin \in [Masternode -> Finality]
    /\ db \in [Masternode -> Database]
    /\ restarts \in 0 .. MaxRestarts

\* Every certificate published by any masternode, whatever the groups it found
\* active and however often it restarted, carries the votes of a
\* quorum_for_voters of the whole committee, and each of its voters did vote.
CertificatesCarryQuorum ==
    \A c \in certs :
        /\ Cardinality(c.voters) >= QuorumForVoters(Cardinality(Masternode))
        /\ \A m \in c.voters : [key |-> c.key, voter |-> m, type |-> "Approve"] \in votes

\* The certificates of any two proposals, by any two issuers, have a third of
\* the committee in common: two blocks for one height are both certified only
\* if that many masternodes voted for both.
CertificatesOverlap ==
    \A c, d \in certs : 3 * Cardinality(c.voters \cap d.voters) >= Cardinality(Masternode)

\* add_vote: a late vote never opens a fresh bucket for a certified proposal,
\* and no bucket sits at the quorum without its certificate.
BucketsAwaitQuorum ==
    \A m \in Masternode : \A v \in agg[m].votes :
        /\ v.key \notin agg[m].issued
        /\ Cardinality(Approvals(agg[m].votes, v.key)) < QuorumForVoters(Cardinality(Masternode))

\* A masternode that did not restart publishes one certificate per proposal:
\* votes that arrive after the bucket was removed do not make a second one.
OneCertificatePerProposal ==
    restarts = 0 => \A c, d \in certs : c.issuer = d.issuer /\ c.key = d.key => c = d

\* A masternode's network task takes at most one block per height to be final,
\* whichever of its two paths, certificate first or payload first, it goes.
OneFinalBlockPerHeight ==
    \A m \in Masternode : \A x, y \in fin[m].finalized : x.height = y.height => x = y

\* No certificate waits for a payload that is in the cache, unless its height
\* is already final: the race between the two gossip topics loses no block.
PendingLacksPayload ==
    \A m \in Masternode : \A p \in fin[m].pending :
        p.hash \notin fin[m].blocks \/ p.height \in fin[m].heights

\* The payload cache keeps its map and its eviction order in step and within
\* its limit, and the pending certificates exceed theirs by at most the one
\* that enqueue_pending_certificate_finality enters after its prune.
CachesBounded ==
    \A m \in Masternode :
        /\ Range(fin[m].order) = fin[m].blocks
        /\ Len(fin[m].order) = Cardinality(fin[m].blocks)
        /\ Len(fin[m].order) <= CacheMax
        /\ Cardinality(fin[m].pending) <= PendingMax + 1

\* What a masternode takes to be final, and the chain head in its database
\* written by either of its tasks, is a certified block.
FinalityIsCertified ==
    \A m \in Masternode :
        /\ \A e \in fin[m].finalized : \E c \in certs : EntryOf(c.key) = e
        /\ db[m].head.height # 0 =>
             \E c \in certs : c.key.hash = db[m].head.hash /\ c.key.height = db[m].head.height

\* At most one block is certified for a group at a height.
OneBlockPerHeightPerGroup ==
    \A c, d \in certs :
        c.key.group = d.key.group /\ c.key.height = d.key.height => c.key.hash = d.key.hash
=============================================================================
