------------------------------ MODULE Mempool ------------------------------
(***************************************************************************)
(* The ready queues of the mempool (savitri-mempool/src/mempool/core.rs),  *)
(* a record mp under one mutex.  Positions count from 1; 0 is None.        *)
(*   vec      ready_vec: one queue per sender, in no particular order      *)
(*   index    ready_index: where the queue of a sender is                  *)
(*   rr, pos  rr_vec_by_class and rr_pos_by_class: the round-robin slots   *)
(*            (positions of vec) of each class, and the next slot          *)
(*   counts, total   transactions per sender and overall                   *)
(*   adm      the admission control behind the pool                        *)
(*                                                                         *)
(* A MempoolTx is an entry e = [tx, hashed, rpc, inserted]: the            *)
(* transaction, whether its hash is known, whether it came in over RPC and *)
(* when it was added.                                                      *)
(***************************************************************************)
EXTENDS AdmissionControl, Integers, SequencesExt

CONSTANTS Burst   \* BURST_PER_SENDER

ClassOrder == <<"Financial", "IoTData", "FederatedUpdate", "System">>

NewMempool ==
    [vec |-> <<>>, index |-> [s \in Sender |-> 0],
     rr |-> [c \in Class |-> <<>>], pos |-> [c \in Class |-> 1],
     counts |-> [s \in Sender |-> 0], total |-> 0, adm |-> NewAdmission]

QueueOf(mp, s) == IF mp.index[s] = 0 THEN <<>> ELSE mp.vec[mp.index[s]].queue

\* A new queue at the end of vec for a sender without one.
CreateQueue(mp, s, queue) ==
    [mp EXCEPT !.vec = Append(@, [sender |-> s, queue |-> queue]),
               !.index[s] = Len(mp.vec) + 1]

\* Steps 2 to 5 of add_prevalidated_with_source, for an admitted transaction.
PushBack(mp, e) ==
    LET s == e.tx.sender
        has == IF mp.index[s] = 0 THEN CreateQueue(mp, s, <<>>) ELSE mp
        i == has.index[s]
    IN  [has EXCEPT !.vec[i].queue = Append(@, e),
                    !.total = @ + 1,
                    !.counts[s] = @ + 1,
                    !.rr[e.tx.class] = IF has.vec[i].queue = <<>>
                                       THEN Append(@, i) ELSE @]

\* add_prevalidated_with_source
AddPrevalidated(mp, tx, hashed, rpc, account, now) ==
    LET outcome == Outcome(mp.adm, tx, hashed, account, rpc)
    IN  CASE outcome = "Rejected" -> mp
          [] outcome = "Queued" ->
                [mp EXCEPT !.adm.queued = Enqueued(@, tx)]
          [] outcome = "Admitted" ->
                PushBack([mp EXCEPT !.adm = RecordAdmission(@, tx, hashed, now)],
                         [tx |-> tx, hashed |-> hashed, rpc |-> rpc,
                          inserted |-> now])

\* A mutant: the index of the queue that moved still names its old place.
RemoveReadyQueueLosesIndex(mp, i) ==
    LET last == Len(mp.vec)
    IN  [mp EXCEPT !.vec = IF i = last THEN Front(@)
                           ELSE [Front(@) EXCEPT ![i] = Last(mp.vec)],
                   !.index[mp.vec[i].sender] = 0,
                   !.rr = [c \in Class |-> SelectSeq(@[c], LAMBDA k : k < last)]]

\* remove_ready_queue: the last queue takes the place of queue i.  Slots of the
\* last position are redirected and slots past the end dropped; a slot of
\* position i itself survives unless i was the last.
RemoveReadyQueue(mp, i) ==
    LET last == Len(mp.vec)
        vec == IF i = last THEN Front(mp.vec)
                           ELSE [Front(mp.vec) EXCEPT ![i] = Last(mp.vec)]
        cleared == [mp.index EXCEPT ![mp.vec[i].sender] = 0]
        Redirected(slots) ==
            [k \in DOMAIN slots |->
                IF slots[k] = last /\ i # last THEN i ELSE slots[k]]
        rr == [c \in Class |-> SelectSeq(Redirected(mp.rr[c]),
                                         LAMBDA k : k < last)]
    IN  [mp EXCEPT !.vec = vec,
                   !.index = IF i = last THEN cleared
                             ELSE [cleared EXCEPT ![mp.vec[last].sender] = i],
                   !.rr = rr,
                   !.pos = [c \in Class |->
                               IF @[c] > Len(rr[c]) THEN 1 ELSE @[c]]]

\* A mutant: admission control is not told.
UncountPoolOnly(mp, e) ==
    [mp EXCEPT !.total = Down(@), !.counts[e.tx.sender] = Down(@)]

\* The accounting of one transaction that leaves the ready queues.
Uncount(mp, e) ==
    [mp EXCEPT !.total = Down(@),
               !.counts[e.tx.sender] = Down(@),
               !.adm = RecordRemoval(@, e.tx, e.hashed)]

Entries(mp) == UNION {Range(rq.queue) : rq \in Range(mp.vec)}

\* The loop that purge_expired_internal, remove_by_handles and the stale
\* eviction of on_block_committed share: walk vec, take the doomed entries out
\* of every queue that is visited and remove the queue when nothing is left,
\* looking at the same position again after a removal.
Sweep(mp, visited, doomed) ==
    LET Doomed(e) == e \in doomed
        Step(at) ==
            LET rq == at.mp.vec[at.i]
                kept == SelectSeq(rq.queue, LAMBDA e : ~Doomed(e))
                less == FoldLeft(Uncount, [at.mp EXCEPT !.vec[at.i].queue = kept],
                                 SelectSeq(rq.queue, Doomed))
            IN  IF rq.sender \notin visited THEN [at EXCEPT !.i = @ + 1]
                ELSE IF kept = <<>>
                     THEN [at EXCEPT !.mp = RemoveReadyQueue(less, at.i)]
                     ELSE [mp |-> less, i |-> at.i + 1]
        loop[k \in 0..Len(mp.vec)] ==
            IF k = 0 THEN [mp |-> mp, i |-> 1] ELSE Step(loop[k - 1])
    IN  loop[Len(mp.vec)].mp

PurgeExpired(mp, before) ==
    Sweep(mp, Sender, {e \in Entries(mp) : e.inserted < before})

RemoveByHandles(mp, txs) ==
    IF txs = {} THEN mp
    ELSE Sweep(mp, Sender, {e \in Entries(mp) : e.tx \in txs})

\* A queue that was already empty stays.
EvictStale(mp, updates) ==
    LET full == {rq \in Range(mp.vec) : rq.queue # <<>>}
    IN  Sweep(mp, {rq.sender : rq \in full} \cap DOMAIN updates,
              {e \in Entries(mp) : /\ e.tx.sender \in DOMAIN updates
                                   /\ e.tx.nonce < updates[e.tx.sender]})

\* drain_fair_batch: every queue is sorted by nonce; then the classes take
\* turns, and in a turn the next queue of the class gives a burst from its
\* front.  A queue that runs empty leaves the round-robin of that class but
\* keeps its place in vec and index.
SortedByNonce(queue) == SortSeq(queue, LAMBDA d, e : d.tx.nonce < e.tx.nonce)

Turn(at, c) ==
    LET mp == at.mp
        slots == mp.rr[c]
        p == IF mp.pos[c] > Len(slots) THEN 1 ELSE mp.pos[c]
        i == slots[p]
        queue == mp.vec[i].queue
        n == CHOOSE k \in {Burst, Len(queue), at.left} :
                \A j \in {Burst, Len(queue), at.left} : k <= j
        less == FoldLeft(Uncount, [mp EXCEPT !.vec[i].queue = SubSeq(@, n + 1, Len(@))],
                         SubSeq(queue, 1, n))
        rest == IF n = Len(queue) THEN SelectSeq(slots, LAMBDA k : k # i) ELSE slots
        next == (p % Len(slots)) + 1
    IN  IF at.left = 0 \/ slots = <<>> THEN at
        ELSE [mp   |-> [less EXCEPT !.rr[c] = rest,
                                    !.pos[c] = IF next > Len(rest) THEN 1 ELSE next],
              out  |-> at.out \o SubSeq(queue, 1, n),
              left |-> at.left - n]

\* The outer loop runs until the batch is full or a round gives nothing.
DrainFairBatch(mp, max) ==
    LET sorted == [mp EXCEPT !.vec = [k \in DOMAIN @ |->
                       [@[k] EXCEPT !.queue = SortedByNonce(@)]]]
        round[k \in 0..max] ==
            IF k = 0 THEN [mp |-> sorted, out |-> <<>>, left |-> max]
            ELSE LET was == round[k - 1]
                     is == FoldLeft(Turn, was, ClassOrder)
                 IN  IF k > 1 /\ was.out = round[k - 2].out THEN was ELSE is
    IN  round[max]

\* restore_drained_txs: to the front of the sender's queue, or into a new one;
\* only a new queue gets a round-robin slot.
RestoreOne(mp, e) ==
    LET s == e.tx.sender
        back == IF mp.index[s] # 0
                THEN [mp EXCEPT !.vec[mp.index[s]].queue = <<e>> \o @,
                                !.counts[s] = @ + 1]
                ELSE [CreateQueue(mp, s, <<e>>) EXCEPT
                                !.counts[s] = 1,
                                !.rr[e.tx.class] = Append(@, Len(mp.vec) + 1)]
    IN  [back EXCEPT !.total = @ + 1, !.adm = RecordRestoration(@, e.tx)]

RestoreDrained(mp, entries) == FoldLeft(RestoreOne, mp, entries)

\* on_block_committed: the committed transactions leave, stale ones are evicted,
\* queued ones that have become executable are promoted, a round begins and the
\* promoted transactions go through admission again.  updates maps senders to
\* account nonces, accounts is the storage that admission reads, hashed the
\* transactions whose hash is known.
OnBlockCommitted(mp, committed, updates, expired, hashed, accounts, now) ==
    LET evicted == EvictStale(RemoveByHandles(mp, committed), updates)
        queued == CleanupExpired(evicted.adm.queued, expired)
        Run(s) == SetToSortSeq(Promotable(queued, s, updates[s]),
                               LAMBDA t, u : t.nonce < u.nonce)
        promoted == FoldSet(LAMBDA s, runs : runs \o Run(s), <<>>, DOMAIN updates)
        left == FoldSet(LAMBDA s, q : Promote(q, s, updates[s]), queued,
                        DOMAIN updates)
        ready == [evicted EXCEPT !.adm = NewRound([@ EXCEPT !.queued = left])]
        Add(m, tx) == AddPrevalidated(m, tx, tx \in hashed, FALSE,
                                      accounts[tx.sender], now)
    IN  FoldLeft(Add, ready, promoted)
============================================================================
