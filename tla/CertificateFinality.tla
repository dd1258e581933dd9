------------------------ MODULE CertificateFinality ------------------------
(***************************************************************************)
(* Finality at a masternode's network task (savitri-masternode             *)
(* libp2p_network.rs), as operators on its state: the cache of block       *)
(* payloads, the certificates that wait for their payload, and the blocks  *)
(* taken to be final.  An entry [hash, height, group] is what a            *)
(* certificate says of its block.                                          *)
(***************************************************************************)
EXTENDS Naturals, FiniteSets, Sequences, Functions, BlockTypes

CONSTANTS
    Time,        \* seconds, for received_at
    CacheMax,    \* BLOCK_CACHE_MAX
    PendingTtl,  \* PENDING_CERT_TTL_SECS
    PendingMax   \* PENDING_CERT_MAX

Entry == [hash : Hash, height : Height, group : Group]
Pending == [hash : Hash, height : Height, group : Group, at : Time]

Finality == [blocks : SUBSET Hash, order : Seq(Hash), pending : SUBSET Pending,
             finalized : SUBSET Entry, heights : SUBSET Height]

NewFinality ==
    [blocks |-> {}, order |-> <<>>, pending |-> {}, finalized |-> {}, heights |-> {}]

\* prune_pending_certificate_finality: drop the expired entries, then the
\* oldest ones above the cap.  received_at is in seconds, so ties are cut
\* arbitrarily: the set of possible results.
Prunes(pending, now) ==
    LET live == {p \in pending : now - p.at <= PendingTtl}
        excess == IF Cardinality(live) > PendingMax THEN Cardinality(live) - PendingMax ELSE 0
    IN  {live \ R : R \in {R \in SUBSET live : /\ Cardinality(R) = excess
                                               /\ \A x \in R, y \in live \ R : x.at <= y.at}}

Without(pending, h) == {p \in pending : p.hash # h}

FinalizedHash(f, h) == \E e \in f.finalized : e.hash = h

\* finalize_with_cached_payload takes the block to be final in this call.
Finalizes(f, e) ==
    /\ ~FinalizedHash(f, e.hash)
    /\ e.height \notin f.heights
    /\ e.hash \in f.blocks

\* finalize_with_cached_payload returns true: finalised now, or a duplicate by
\* hash or by height.
Settles(f, e) == FinalizedHash(f, e.hash) \/ e.height \in f.heights \/ e.hash \in f.blocks

\* Mutant of FinalizeWithCachedPayload: duplicates are found by hash only.
FinalizeByHashOnly(f, e) ==
    IF FinalizedHash(f, e.hash) \/ e.hash \notin f.blocks THEN f
    ELSE [f EXCEPT !.pending = Without(@, e.hash),
                   !.finalized = @ \cup {e},
                   !.heights = @ \cup {e.height}]

\* finalize_with_cached_payload.  The duplicate by height leaves the pending
\* entry of the hash in place.
FinalizeWithCachedPayload(f, e) ==
    IF FinalizedHash(f, e.hash) THEN [f EXCEPT !.pending = Without(@, e.hash)]
    ELSE IF Finalizes(f, e)
         THEN [f EXCEPT !.pending = Without(@, e.hash),
                        !.finalized = @ \cup {e},
                        !.heights = @ \cup {e.height}]
         ELSE f

\* enqueue_pending_certificate_finality, after its prune: a known hash is
\* refreshed, a new one is entered.
Enqueue(f, e, now) ==
    [f EXCEPT !.pending = Without(@, e.hash)
                            \cup {[hash |-> e.hash, height |-> e.height, group |-> e.group, at |-> now]}]

\* Mutant of Evicted: the loop stops at the limit, without room for one more.
EvictedToLimit(f) ==
    LET n == IF Cardinality(f.blocks) > CacheMax THEN Cardinality(f.blocks) - CacheMax ELSE 0
    IN  SubSeq(f.order, 1, n)

\* The while loop of cache_block_payload: entries leave from the front of the
\* order until there is room for one more.
Evicted(f) ==
    LET n == IF Cardinality(f.blocks) >= CacheMax THEN Cardinality(f.blocks) - CacheMax + 1 ELSE 0
    IN  SubSeq(f.order, 1, n)

\* The order without h, which it holds at most once.
Retain(s, h) ==
    LET i == CHOOSE i \in DOMAIN s : s[i] = h
    IN  IF h \in Range(s) THEN SubSeq(s, 1, i - 1) \o SubSeq(s, i + 1, Len(s)) ELSE s

\* cache_block_payload up to the insertion.  Room is made even when the hash is
\* only refreshed.
InsertBlock(f, h) ==
    LET out == Evicted(f)
        kept == SubSeq(f.order, Len(out) + 1, Len(f.order))
    IN  [f EXCEPT !.order = Append(Retain(kept, h), h),
                  !.blocks = (@ \ Range(out)) \cup {h}]

\* try_finalize_pending_from_cache: the entry, if any, that waits for h.
WaitingFor(f, h) ==
    {[hash |-> p.hash, height |-> p.height, group |-> p.group] : p \in {q \in f.pending : q.hash = h}}
=============================================================================
