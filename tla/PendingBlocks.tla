---------------------------- MODULE PendingBlocks ----------------------------
(***************************************************************************)
(* CertificatePendingBlocks of savitri-lightnode/src/p2p/certificate.rs:   *)
(* the blocks a lightnode has heard of and that wait for a certificate.    *)
(* A table is a record                                                     *)
(*   entries       the pending hashes, with the time of their registration *)
(*   by_hg         (height, group) to the hash registered last under it    *)
(*   by_hgt        (height, group, tx_root) to the hash                    *)
(*   committed     the hashes marked committed                             *)
(* The two indices are sets of pairs <<key, hash>>.  A certificate carries *)
(* a hash recomputed from other roots than the gossiped block's, so most   *)
(* certificates find their block through an index.                         *)
(***************************************************************************)
EXTENDS CertifiedBlocks

CONSTANTS
    RootOf,         \* tx_root of a block, as block_from_message derives it
    Group,          \* group ids
    NoGroup,        \* the empty group id of register_pending
    NoBlock,        \* None
    MaxPending,     \* MAX_PENDING_BLOCKS, 100000
    PendingTimeout  \* PENDING_BLOCK_TIMEOUT_SECS, 900

ASSUME PendingAssumption ==
    /\ NoBlock \notin Block
    /\ MaxPending \in Nat
    /\ PendingTimeout \in Nat

EmptyTable == [entries |-> {}, by_hg |-> {}, by_hgt |-> {}, committed |-> {}]

Pending(t) == {e[1] : e \in t.entries}

\* retain(|_, v| v != hash) of an index, for every hash of hs.
Retain(index, hs) == {p \in index : p[2] \notin hs}

\* HashMap::remove.
Without(index, key) == {p \in index : p[1] # key}

\* HashMap::insert: the pair replaces the one of the same key.
Insert(index, key, h) == Without(index, key) \cup {<<key, h>>}

\* The hash an index gives for key, NoBlock when there is none.
Lookup(index, key) ==
    IF \E p \in index : p[1] = key
    THEN (CHOOSE p \in index : p[1] = key)[2]
    ELSE NoBlock

\* The entries of hs leave the table and both indices.
Remove(t, hs) ==
    [entries |-> {e \in t.entries : e[1] \notin hs},
     by_hg |-> Retain(t.by_hg, hs),
     by_hgt |-> Retain(t.by_hgt, hs),
     committed |-> t.committed]

TimedOut(t, now) == {e[1] : e \in {x \in t.entries : now - x[2] > PendingTimeout}}

\* The oldest entries that a full table gives up: any set of the excess size
\* whose members are no younger than the ones kept.
Excess(t) ==
    {hs \in SUBSET Pending(t) :
        /\ Cardinality(hs) + MaxPending = Cardinality(Pending(t))
        /\ \A e, f \in t.entries : e[1] \in hs /\ f[1] \notin hs => e[2] <= f[2]}

\* evict_stale_entries: the timed-out entries first, then the oldest ones above
\* the limit; the outcomes differ in the order of equally old entries.
EvictStale(t, now) ==
    LET kept == Remove(t, TimedOut(t, now)) IN
    IF Cardinality(Pending(kept)) > MaxPending
    THEN {Remove(kept, hs) : hs \in Excess(kept)}
    ELSE {kept}

\* The new entry takes over the keys it shares with an earlier one, which stays
\* pending and can then be found by its hash only.
RegisterNew(t, h, g, now) ==
    [entries |-> t.entries \cup {<<h, now>>},
     by_hg |-> Insert(t.by_hg, <<HeightOf[h], g>>, h),
     by_hgt |-> Insert(t.by_hgt, <<HeightOf[h], g, RootOf[h]>>, h),
     committed |-> t.committed]

\* register_pending_with_group; register_pending is g = NoGroup.
RegisterPending(t, h, g, now) ==
    {IF h \in kept.committed \/ h \in Pending(kept) THEN kept
     ELSE RegisterNew(kept, h, g, now) : kept \in EvictStale(t, now)}

\* take_pending, by hash.
TakePending(t, h) ==
    IF h \in Pending(t)
    THEN [table |-> Remove(t, {h}), block |-> h]
    ELSE [table |-> t, block |-> NoBlock]

\* take_pending_by_height_group_tx_root: the key goes, and so does the entry
\* with everything else that points to it.
TakeByRoot(t, height, g, root) ==
    LET h == Lookup(t.by_hgt, <<height, g, root>>)
        t1 == [t EXCEPT !.by_hgt = Without(@, <<height, g, root>>)]
    IN  IF h # NoBlock /\ h \in Pending(t)
        THEN [table |-> Remove(t1, {h}), block |-> h]
        ELSE [table |-> t1, block |-> NoBlock]

\* Mutant of TakeKey: the block's (height, group, tx_root) key is left behind.
TakeKeyKeepsRoot(t, height, g) ==
    LET h == Lookup(t.by_hg, <<height, g>>)
        t1 == [t EXCEPT !.by_hg = Without(@, <<height, g>>)]
    IN  IF h # NoBlock /\ h \in Pending(t)
        THEN [table |-> [t1 EXCEPT !.entries = {e \in @ : e[1] # h}], block |-> h]
        ELSE [table |-> t1, block |-> NoBlock]

\* The lookup under one (height, group) key of take_pending_by_height_group:
\* by_hg only loses the key itself.
TakeKey(t, height, g) ==
    LET h == Lookup(t.by_hg, <<height, g>>)
        t1 == [t EXCEPT !.by_hg = Without(@, <<height, g>>)]
    IN  IF h # NoBlock /\ h \in Pending(t)
        THEN [table |-> [entries |-> {e \in t1.entries : e[1] # h}, by_hg |-> t1.by_hg,
                         by_hgt |-> Retain(t1.by_hgt, {h}), committed |-> t1.committed],
              block |-> h]
        ELSE [table |-> t1, block |-> NoBlock]

\* take_pending_by_height_group: without the key it returns at once; the legacy
\* key (height, "") is tried only when the key was there and its entry was not.
TakeByHeightGroup(t, height, g) ==
    LET first == TakeKey(t, height, g) IN
    IF Lookup(t.by_hg, <<height, g>>) = NoBlock THEN [table |-> t, block |-> NoBlock]
    ELSE IF first.block # NoBlock THEN first
    ELSE TakeKey(first.table, height, NoGroup)

\* The three lookups of the certificate handler, each tried when the one before
\* found nothing.
TakeCertified(t, hash, height, g, root) ==
    LET byHash == TakePending(t, hash)
        byRoot == TakeByRoot(byHash.table, height, g, root)
        byKey == TakeByHeightGroup(byRoot.table, height, g)
    IN  IF byHash.block # NoBlock THEN byHash
        ELSE IF byRoot.block # NoBlock THEN byRoot
        ELSE byKey

\* mark_committed.  The pruning of the set above 1000 marks is left out.
MarkCommitted(t, h) == [t EXCEPT !.committed = @ \cup {h}]

\* Every pair of an index points to a pending block, and its key is the one
\* that block was registered under.
TableOK(t) ==
    /\ \A p \in t.by_hg : p[2] \in Pending(t) /\ p[1][1] = HeightOf[p[2]]
    /\ \A p \in t.by_hgt :
           /\ p[2] \in Pending(t)
           /\ p[1][1] = HeightOf[p[2]]
           /\ p[1][3] = RootOf[p[2]]
    /\ \A p, q \in t.by_hg : p[1] = q[1] <=> p[2] = q[2]
=============================================================================
