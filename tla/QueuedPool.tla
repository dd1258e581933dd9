---------------------------- MODULE QueuedPool ----------------------------
(***************************************************************************)
(* The pool of transactions with future nonces                             *)
(* (savitri-mempool/src/mempool/queued_pool.rs).  The state is a record    *)
(* q = [txs, total]: the per-account BTreeMaps are one set of transactions *)
(* in which (sender, nonce) is unique, and total is the counter the code   *)
(* keeps beside them.  Every operation is a function of the state, as the  *)
(* methods take &mut self under the admission lock.                        *)
(*                                                                         *)
(* A transaction is a record [id, sender, nonce, class, fee].              *)
(***************************************************************************)
EXTENDS Naturals, FiniteSets

CONSTANTS Txs,            \* the transactions clients may ever send
          MaxPerAccount,  \* QueuedPoolConfig.max_per_account
          MaxTotal,       \* QueuedPoolConfig.max_total
          MaxNonceGap     \* QueuedPoolConfig.max_nonce_gap

ASSUME QueuedPoolAssumption ==
    /\ MaxPerAccount \in Nat /\ MaxTotal \in Nat /\ MaxNonceGap \in Nat
    /\ \A t \in Txs : t.nonce \in Nat /\ t.fee \in Nat

EmptyQueue == [txs |-> {}, total |-> 0]

\* The AccountQueue of a sender.
AccountQueue(q, s) == {t \in q.txs : t.sender = s}

SameSlot(q, tx) == {t \in q.txs : t.sender = tx.sender /\ t.nonce = tx.nonce}

\* try_queue: the checks in the order of the code.  Both capacity checks come
\* before the search for a transaction of the same nonce, so a full pool also
\* refuses a replacement.
CanQueue(q, tx, accountNonce) ==
    /\ tx.nonce <= accountNonce + MaxNonceGap
    /\ q.total < MaxTotal
    /\ Cardinality(AccountQueue(q, tx.sender)) < MaxPerAccount
    /\ \A t \in SameSlot(q, tx) : tx.fee > t.fee

\* A mutant: a replacement is counted as well.
EnqueuedCountsAll(q, tx) ==
    [txs |-> (q.txs \ SameSlot(q, tx)) \cup {tx}, total |-> q.total + 1]

Enqueued(q, tx) ==
    [txs   |-> (q.txs \ SameSlot(q, tx)) \cup {tx},
     total |-> IF SameSlot(q, tx) = {} THEN q.total + 1 ELSE q.total]

\* promote: the stale transactions of the sender, and the run of consecutive
\* nonces that starts at its new account nonce.
Stale(q, s, n) == {t \in AccountQueue(q, s) : t.nonce < n}

Promotable(q, s, n) ==
    {t \in AccountQueue(q, s) :
        /\ t.nonce >= n
        /\ \A k \in n..t.nonce : \E u \in AccountQueue(q, s) : u.nonce = k}

Without(q, gone) ==
    [txs   |-> q.txs \ gone,
     total |-> IF Cardinality(gone) > q.total THEN 0
                                              ELSE q.total - Cardinality(gone)]

Promote(q, s, n) == Without(q, Stale(q, s, n) \cup Promotable(q, s, n))

\* cleanup_expired, once its interval has passed.
CleanupExpired(q, expired) == Without(q, q.txs \cap expired)

\* What every call relies on and keeps: the counter is the number of queued
\* transactions, neither limit is exceeded, and a sender has one transaction
\* per nonce.
QueueOK(q) ==
    /\ q.txs \subseteq Txs /\ IsFiniteSet(q.txs)
    /\ q.total = Cardinality(q.txs)
    /\ q.total <= MaxTotal
    /\ \A t \in q.txs : Cardinality(AccountQueue(q, t.sender)) <= MaxPerAccount
    /\ \A t, u \in q.txs : t.sender = u.sender /\ t.nonce = u.nonce => t = u
============================================================================
