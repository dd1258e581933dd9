---------------------------- MODULE BlockExecution ----------------------------
(***************************************************************************)
(* What executing a block does to the stored nonces: the sequential path   *)
(* (apply_certified_block_direct, p2p/block.rs) that commits use, and the  *)
(* Block-STM path (p2p/block_stm.rs) that the certificate handler uses to  *)
(* build the state diff of a block with several transactions.  Balances    *)
(* are abstracted to the set of transactions the sender cannot pay for.    *)
(* An overlay is a function from the accounts written to their new nonces. *)
(***************************************************************************)
EXTENDS CertifiedBlocks

\* The accounts whose entries a set of applied transfers writes.
Touched(txs) == {tx.from : tx \in txs} \cup {tx.to : tx \in txs}

\* The transfers that debit their sender.  Of a transfer to the sender itself the
\* recipient's copy of the account is written last: the amount is added, and
\* neither the debit nor the step of the nonce survives.
Debiting(txs) == {tx \in txs : tx.from # tx.to}

\* Mutant of After: the entry of a recipient starts from an empty account.
AfterFreshRecipient(nonces, txs, a) ==
    LET mine == {tx.nonce : tx \in {x \in Debiting(txs) : x.from = a}} IN
    IF mine = {} THEN 0
    ELSE 1 + (CHOOSE n \in mine : \A m \in mine : m <= n)

\* The nonce an account is left with: past the last of the applied transfers that
\* debit it.
After(nonces, txs, a) ==
    LET mine == {tx.nonce : tx \in {x \in Debiting(txs) : x.from = a}} IN
    IF mine = {} THEN nonces[a]
    ELSE 1 + (CHOOSE n \in mine : \A m \in mine : m <= n)

Overlay(nonces, txs) == [a \in Touched(txs) |-> After(nonces, txs, a)]

\* Mutant of AppliedDirect: transfers below the account's nonce are applied too.
AppliedDirectAgain(nonces, b, short) == Txs(b) \ short

\* The transfers apply_certified_block_direct applies.  It visits them by sender
\* and nonce, passes over the ones below the account's nonce and the ones the
\* sender cannot pay for, and moves the nonce forward to any other.
AppliedDirect(nonces, b, short) ==
    {tx \in Txs(b) \ short : tx.nonce >= nonces[tx.from]}

\* execute_tx_speculative after the transfers of `applied`: a transfer goes through
\* only at exactly the nonce they left.
Executes(nonces, applied, tx, short) ==
    tx \notin short /\ tx.nonce = After(nonces, applied, tx.from)

\* The transfers execute_block_stm applies, in the block's own order.  The first
\* pass already reads the latest earlier write, so validation sends none back.
AppliedStm(nonces, b, short) ==
    LET txs == TxsOf[b]
        applied[n \in 0..Len(txs)] ==
            IF n = 0 THEN {}
            ELSE applied[n - 1]
                 \cup {tx \in {txs[n]} : Executes(nonces, applied[n - 1], tx, short)}
    IN  applied[Len(txs)]

\* execute_block_transactions.
Applied(nonces, b, short) ==
    IF Len(TxsOf[b]) > 1 THEN AppliedStm(nonces, b, short)
    ELSE AppliedDirect(nonces, b, short)
=============================================================================
