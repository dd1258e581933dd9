----------------------------- MODULE MCMempool -----------------------------
(***************************************************************************)
(* Small instances of the mempool pipeline.                                *)
(***************************************************************************)
EXTENDS MempoolPipeline

Tx(id, s, n, c, f, to) ==
    [id |-> id, sender |-> s, nonce |-> n, class |-> c, fee |-> f, to |-> to]

\* Sender 1 has an account and funds sender 2, whose transactions wait in the
\* queued pool until then; t4 bids for the place of t3.
MCTxs ==
    { Tx("t0", 1, 0, "Financial", 1, 2), Tx("t1", 1, 1, "IoTData", 1, 2),
      Tx("t2", 2, 1, "Financial", 1, 1),
      Tx("t3", 2, 0, "Financial", 1, 1), Tx("t4", 2, 0, "Financial", 2, 1) }

MCClassQuota == [c \in Class |-> 2]

ById(ids) == {t \in MCTxs : t.id \in ids}
MCRpcTxs == ById({"t0"})
MCGossipTxs == ById({"t1"})
MCDualTokenTxs == ById({"t2", "t3", "t4"})
MCForeignTxs == ById({"t0", "t3"})

\* Three transactions come in, or two and time passes or a proposal is open, or
\* one with both.
TimeOrCrowd ==
    Cardinality({t \in Txs : sent[t].by # "none"}) + Cardinality(blocks) + now <= 4
============================================================================
