-------------------------- MODULE MempoolPipeline --------------------------
(***************************************************************************)
(* The way of a transaction through a lightnode: MempoolPipeline           *)
(* (savitri-mempool/src/mempool/integration.rs), its wrapper and the       *)
(* pending nonces in savitri-lightnode/src/p2p/block.rs, and the block     *)
(* producer of p2p/intra_group that drains it.  Tasks interleave between   *)
(* the sections that hold one of the locks; each section is one action.    *)
(*   mp         the mempool behind its lock                                *)
(*   accounts   storage: whether the account of a sender exists, its nonce *)
(*   sent       how and when the bytes of a transaction came in; TxStorage *)
(*              refuses bytes it has already seen                          *)
(*   in_flight  in_flight_txs: drained, kept for a restore                 *)
(*   pending    pending_nonces: next nonce after the proposed blocks, and  *)
(*              when it was recorded; time 0 is no entry                   *)
(*   pc, batch, held   where the producer is, the batch it drained, and    *)
(*              the entries it is about to put back                        *)
(*   blocks     proposed blocks, as sets of transactions                   *)
(*   landed     the block that storage has and the mempool was not told of *)
(*   now        the clock                                                  *)
(* A transaction is [id, sender, nonce, class, fee, to].                   *)
(***************************************************************************)
EXTENDS Mempool

CONSTANTS RpcTxs, GossipTxs, DualTokenTxs,
                       \* what comes in over each of the three entrances
          ForeignTxs,  \* what blocks of other nodes may hold
          Funded,      \* senders with an account at the start
          Local,       \* senders of this group's shards: ShardFilter
          Ttl,         \* MempoolConfig.ttl
          QueuedTtl,   \* QueuedPoolConfig.ttl
          AgedAfter,   \* age at which evict_aged_entries forgets an entry
          PendingTtl,  \* PENDING_NONCE_TTL_SECS
          BatchSize,   \* max_txs of a drain
          MaxTime      \* bound on the clock

VARIABLES mp, accounts, sent, in_flight, pending, pc, batch, held, blocks,
          landed, now

vars == <<mp, accounts, sent, in_flight, pending, pc, batch, held, blocks,
          landed, now>>

producer == <<pc, batch, held, blocks>>

Init ==
    /\ mp = NewMempool
    /\ accounts = [s \in Sender |-> [exists |-> s \in Funded, nonce |-> 0]]
    /\ sent = [t \in Txs |-> [by |-> "none", at |-> 0]]
    /\ in_flight = <<>>
    /\ pending = [s \in Sender |-> [next |-> 0, at |-> 0]]
    /\ pc = "idle" /\ batch = <<>> /\ held = <<>>
    /\ blocks = {} /\ landed = {}
    /\ now = 1

\* purge_expired_internal_if_needed does nothing when the last purge is recent.
MaybePurged(m) == {m, PurgeExpired(m, now - Ttl)}

\* Admission evicts aged entries on one call in many.
MaybeEvicted(m) == {m, [m EXCEPT !.adm = EvictAged(@, now - AgedAfter)]}

\* process_single_raw_transaction
SubmitRpc(tx) ==
    /\ sent[tx].by = "none"
    /\ sent' = [sent EXCEPT ![tx] = [by |-> "rpc", at |-> now]]
    /\ \E m \in MaybeEvicted(mp) :
          mp' = AddPrevalidated(m, tx, TRUE, TRUE, accounts[tx.sender], now)
    /\ UNCHANGED <<accounts, in_flight, pending, producer, landed, now>>

\* process_raw_transactions, for a batch of one: no hash, and from_rpc is set.
SubmitBatch(tx) ==
    /\ sent[tx].by = "none"
    /\ sent' = [sent EXCEPT ![tx] = [by |-> "batch", at |-> now]]
    /\ \E p \in MaybePurged(mp) : \E m \in MaybeEvicted(p) :
          mp' = AddPrevalidated(m, tx, FALSE, TRUE, accounts[tx.sender], now)
    /\ UNCHANGED <<accounts, in_flight, pending, producer, landed, now>>

\* The dual-token front end, whose transactions are not trusted as RPC ones are.
SubmitDualToken(tx) ==
    /\ sent[tx].by = "none"
    /\ sent' = [sent EXCEPT ![tx] = [by |-> "dual", at |-> now]]
    /\ \E m \in MaybeEvicted(mp) :
          mp' = AddPrevalidated(m, tx, TRUE, FALSE, accounts[tx.sender], now)
    /\ UNCHANGED <<accounts, in_flight, pending, producer, landed, now>>

\* The first section of drain_for_block_production; the result is sorted by
\* sender and nonce.
Earlier(d, e) ==
    \/ d.tx.sender < e.tx.sender
    \/ d.tx.sender = e.tx.sender /\ d.tx.nonce < e.tx.nonce

Drain ==
    /\ pc = "idle"
    /\ \E p \in MaybePurged(mp) :
          LET drained == DrainFairBatch(p, BatchSize)
          IN  /\ mp' = drained.mp
              /\ batch' = SortSeq(drained.out, Earlier)
              /\ pc' = IF drained.out = <<>> THEN "idle" ELSE "drained"
    /\ UNCHANGED <<accounts, sent, in_flight, pending, held, blocks, landed, now>>

\* A mutant: what belongs to other groups is dropped.
ShardFilterDrops ==
    LET kept == SelectSeq(batch, LAMBDA e : e.rpc \/ e.tx.sender \in Local)
    IN  /\ pc = "drained"
        /\ batch' = kept
        /\ in_flight' = in_flight \o kept
        /\ pc' = IF kept = <<>> THEN "idle" ELSE "filtered"
        /\ UNCHANGED <<mp, accounts, sent, pending, held, blocks, landed, now>>

\* The shard filter puts back what belongs to other groups, unless it came in
\* over RPC; the rest is recorded as in flight.
ShardFilter ==
    LET Kept(e) == e.rpc \/ e.tx.sender \in Local
        kept == SelectSeq(batch, Kept)
    IN  /\ pc = "drained"
        /\ mp' = RestoreDrained(mp, SelectSeq(batch, LAMBDA e : ~Kept(e)))
        /\ batch' = kept
        /\ in_flight' = in_flight \o kept
        /\ pc' = IF kept = <<>> THEN "idle" ELSE "filtered"
        /\ UNCHANGED <<accounts, sent, pending, held, blocks, landed, now>>

\* The nonces final_validation_with_pending expects of a sender: the account
\* nonce or the pending one, and whatever comes first when both are 0.
Expected(s) ==
    LET view == IF now - pending[s].at < PendingTtl THEN pending[s].next ELSE 0
    IN  IF view > accounts[s].nonce THEN view ELSE accounts[s].nonce

\* The loop over the sorted batch.  A mismatch blocks the sender; a sender
\* without balance fails without being blocked.
Checked ==
    LET Step(at, e) ==
            LET s == e.tx.sender
                want == IF at.next[s] # -1 THEN at.next[s]
                        ELSE IF Expected(s) = 0 THEN e.tx.nonce ELSE Expected(s)
            IN  IF s \in at.blocked \/ e.tx.nonce # want
                THEN [at EXCEPT !.blocked = @ \cup {s}]
                ELSE [at EXCEPT !.next[s] = want + 1,
                                !.valid = IF accounts[s].exists THEN @ \cup {e.tx}
                                                                ELSE @]
    IN  FoldLeft(Step, [next |-> [s \in Sender |-> -1], blocked |-> {},
                        valid |-> {}], batch)

\* final_validation_with_pending takes the invalid transactions out of the
\* mempool, which has not held them since the drain.
Validate ==
    LET valid == SelectSeq(batch, LAMBDA e : e.tx \in Checked.valid)
        invalid == {e.tx : e \in Range(batch)} \ Checked.valid
    IN  /\ pc = "filtered"
        /\ mp' = RemoveByHandles(mp, invalid)
        /\ batch' = valid
        /\ pc' = IF invalid # {} THEN "restoring" ELSE "proposing"
        /\ UNCHANGED <<accounts, sent, in_flight, pending, held, blocks, landed,
                       now>>

\* A mutant: the transactions in flight are copied, not taken.
TakeInFlightCopies ==
    /\ pc = "restoring"
    /\ held' = SelectSeq(in_flight,
                         LAMBDA e : e.tx.nonce >= accounts[e.tx.sender].nonce)
    /\ pc' = "putback"
    /\ UNCHANGED <<mp, accounts, sent, in_flight, pending, batch, blocks, landed,
                   now>>

\* restore_in_flight_txs up to the mempool lock: everything in flight is taken,
\* storage is read, and what is stale is counted out.
TakeInFlight ==
    LET Fresh(e) == e.tx.nonce >= accounts[e.tx.sender].nonce
        CountOut(adm, e) == RecordRemoval(adm, e.tx, e.hashed)
    IN  /\ pc = "restoring"
        /\ in_flight' = <<>>
        /\ held' = SelectSeq(in_flight, Fresh)
        /\ mp' = [mp EXCEPT !.adm = FoldLeft(CountOut, @,
                     SelectSeq(in_flight, LAMBDA e : ~Fresh(e)))]
        /\ pc' = "putback"
        /\ UNCHANGED <<accounts, sent, pending, batch, blocks, landed, now>>

PutBack ==
    /\ pc = "putback"
    /\ mp' = RestoreDrained(mp, held)
    /\ held' = <<>>
    /\ pc' = "proposing"
    /\ UNCHANGED <<accounts, sent, in_flight, pending, batch, blocks, landed, now>>

\* record_proposed_nonces, which prunes first, and the proposal.
Propose ==
    LET valid == {e.tx : e \in Range(batch)}
        Recorded(s) ==
            LET own == {t.nonce + 1 : t \in {t \in valid : t.sender = s}}
                old == IF now - pending[s].at <= PendingTtl
                       THEN pending[s] ELSE [next |-> 0, at |-> 0]
            IN  IF own = {} THEN old
                ELSE [next |-> Max(own \cup {old.next}), at |-> now]
    IN  /\ pc = "proposing"
        /\ pending' = IF valid = {} THEN pending
                      ELSE [s \in Sender |-> Recorded(s)]
        /\ blocks' = IF valid = {} THEN blocks ELSE blocks \cup {valid}
        /\ batch' = <<>>
        /\ pc' = "idle"
        /\ UNCHANGED <<mp, accounts, sent, in_flight, held, landed, now>>

\* start_proposer_duties: the pending nonces are dropped, then the transactions
\* in flight are put back.
StartProposer ==
    /\ pc = "idle"
    /\ pending' = [s \in Sender |-> [next |-> 0, at |-> 0]]
    /\ pc' = "restoring"
    /\ UNCHANGED <<mp, accounts, sent, in_flight, batch, held, blocks, landed, now>>

\* apply_certified_block_direct: a transaction below the account nonce is
\* skipped, one above moves it forward; without an account nothing is spent.  A
\* receiver has an account afterwards.
Applied(b) ==
    LET spent(s) == {t.nonce + 1 : t \in {t \in b : t.sender = s}}
    IN  [s \in Sender |->
            [exists |-> accounts[s].exists
                        \/ \E t \in b : /\ t.to = s
                                      /\ accounts[t.sender].exists
                                      /\ t.nonce >= accounts[t.sender].nonce,
             nonce  |-> IF accounts[s].exists
                        THEN Max(spent(s) \cup {accounts[s].nonce})
                        ELSE accounts[s].nonce]]

\* A certified block reaches storage: a proposed one, or one of another node.
\* When the block itself cannot be written, finalize_remote_block_commit writes
\* the accounts all the same and the mempool is not told.
CommitStorage(b) ==
    /\ landed = {}
    /\ accounts' = Applied(b)
    /\ landed' \in {b, {}}
    /\ blocks' = blocks \ {b}
    /\ UNCHANGED <<mp, sent, in_flight, pending, pc, batch, held, now>>

\* The nonce updates of the block_final handler: one past the highest nonce of
\* every sender, and the account nonce of every other receiver.
NonceUpdates(b) ==
    LET senders == {t.sender : t \in b}
    IN  [s \in senders \cup {t.to : t \in b} |->
            IF s \in senders THEN Max({t.nonce + 1 : t \in {t \in b : t.sender = s}})
                             ELSE accounts[s].nonce]

\* on_block_committed_with_nonces_and_hash.  in_flight_by_block is never filled,
\* so clearing the block's transactions in flight does nothing; all pending
\* nonces go.
CommitMempool ==
    /\ landed # {}
    /\ LET old == {t \in Txs : sent[t].at < now - QueuedTtl}
       IN  \E expired \in {{}, old} :
             mp' \in MaybePurged(
                 OnBlockCommitted(mp, landed, NonceUpdates(landed), expired,
                                  {t \in Txs : sent[t].by # "batch"}, accounts, now))
    /\ pending' = [s \in Sender |-> [next |-> 0, at |-> 0]]
    /\ landed' = {}
    /\ UNCHANGED <<accounts, sent, in_flight, producer, now>>

Tick ==
    /\ now < MaxTime
    /\ now' = now + 1
    /\ UNCHANGED <<mp, accounts, sent, in_flight, pending, producer, landed>>

Next ==
    \/ \E tx \in RpcTxs : SubmitRpc(tx)
    \/ \E tx \in GossipTxs : SubmitBatch(tx)
    \/ \E tx \in DualTokenTxs : SubmitDualToken(tx)
    \/ Drain \/ ShardFilter \/ Validate \/ TakeInFlight \/ PutBack \/ Propose
    \/ StartProposer
    \/ \E b \in blocks \cup {{t} : t \in ForeignTxs} : CommitStorage(b)
    \/ CommitMempool
    \/ Tick

Spec == Init /\ [][Next]_vars
----------------------------------------------------------------------------
\* The copies of a transaction the pipeline holds.
Copies(t) ==
    LET In(seq) == Cardinality({k \in DOMAIN seq : seq[k].tx = t})
    IN  SumFunction([i \in DOMAIN mp.vec |-> In(mp.vec[i].queue)])
        + In(in_flight) + In(held) + (IF pc = "drained" THEN In(batch) ELSE 0)
        + (IF t \in mp.adm.queued.txs THEN 1 ELSE 0)

\* The header of core.rs on ready_index, and what the counters stand for: index
\* and vec are inverse to each other, counts and total are the lengths of the
\* queues, and every round-robin slot is a position of vec.  Each of the loops
\* that remove queues while they walk vec could break it.
IndexConsistent ==
    /\ \A i \in DOMAIN mp.vec : mp.index[mp.vec[i].sender] = i
    /\ \A s \in Sender :
          /\ mp.index[s] # 0 => /\ mp.index[s] \in DOMAIN mp.vec
                                /\ mp.vec[mp.index[s]].sender = s
          /\ mp.counts[s] = Len(QueueOf(mp, s))
    /\ mp.total = SumFunction(mp.counts)
    /\ \A c \in Class : Range(mp.rr[c]) \subseteq DOMAIN mp.vec

\* A transaction is in one place at most, and there once: in a ready queue, in
\* flight, in the hands of the producer or in the queued pool.  A drain, the
\* shard filter, a restore, a promotion and a commit each move transactions
\* between two of these, most of them over two lock sections.
OnePlace == \A t \in Txs : Copies(t) <= 1

\* The counters admission reads its caps from never exceed what the ready
\* queues hold, whatever is drained, restored, purged and promoted: a cap
\* refuses nobody for transactions that are gone.  (They may fall short: a
\* stale transaction in flight is counted out a second time.)
QuotaNeverOvercounted ==
    /\ mp.adm.global <= mp.total
    /\ \A s \in Sender : mp.adm.senders[s] <= mp.counts[s]

\* The queued pool keeps its limits, its total is what it holds, and a sender
\* has one transaction per nonce.
QueuedPoolBounded == QueueOK(mp.adm.queued)

\* The header of core.rs, "rr_vec contains indices of non-empty ready queues":
\* a ready queue with transactions has a round-robin slot, without which no
\* drain ever reaches it.
ReadyQueuesScheduled ==
    \A i \in DOMAIN mp.vec :
        mp.vec[i].queue # <<>> => \E c \in Class : i \in Range(mp.rr[c])

\* The account nonce, or a block being committed, is past the transaction.
Overtaken(t) ==
    \/ t.nonce < accounts'[t.sender].nonce
    \/ /\ landed # {}
       /\ t.sender \in {u.sender : u \in landed}
       /\ t.nonce < NonceUpdates(landed)[t.sender]

\* A transaction the pipeline holds leaves it only when the account nonce or a
\* committed block has overtaken it, when it has expired, when a better fee took
\* its place in the queued pool, or when admission refuses its promotion.
NoSilentDrop ==
    [][\A t \in Txs : Copies(t) > 0 /\ Copies(t)' = 0 =>
          \/ Overtaken(t)
          \/ sent[t].at < now - Ttl \/ sent[t].at < now - QueuedTtl
          \/ t \in mp.adm.queued.txs /\ SameSlot(mp.adm.queued', t) # {}
          \/ t \in mp.adm.queued.txs /\ landed # {} /\ landed' = {}]_vars
============================================================================
