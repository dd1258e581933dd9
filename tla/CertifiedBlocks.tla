---------------------------- MODULE CertifiedBlocks ----------------------------
(***************************************************************************)
(* The blocks a lightnode gossips, and their transfers: PendingBlockData   *)
(* of savitri-lightnode/src/p2p/types.rs.  A block is its hash.            *)
(***************************************************************************)
EXTENDS Naturals, Sequences, FiniteSets

CONSTANTS
    Account,
    Block,
    HeightOf,    \* block -> height
    TxsOf,       \* block -> sequence of transfers
    MaxNonce     \* the largest nonce a transfer can carry, u64::MAX

Transfer == [from : Account, to : Account, nonce : 0..MaxNonce]

Txs(b) == {tx \in Transfer : \E i \in 1..Len(TxsOf[b]) : TxsOf[b][i] = tx}

\* A proposer takes at most one transaction per account and nonce from its
\* mempool.  A transfer may go to its own sender: no check on the way forbids it.
ASSUME BlocksAssumption ==
    /\ MaxNonce \in Nat
    /\ HeightOf \in [Block -> Nat \ {0}]
    /\ \A b \in Block : TxsOf[b] \in Seq(Transfer)
    /\ \A b \in Block : \A x, y \in Txs(b) : x.from = y.from /\ x.nonce = y.nonce => x = y
=============================================================================
