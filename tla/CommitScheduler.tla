--------------------------- MODULE CommitScheduler ---------------------------
(***************************************************************************)
(* CommitScheduler of savitri-lightnode/src/p2p/commit_scheduler.rs with   *)
(* the conflict keys and cursors of conflict_keys.rs.  Every method runs   *)
(* under the scheduler's mutex and is an operator from a scheduler record  *)
(* to the next one (a set of them where the order of a hash map decides):  *)
(*   meta       admitted block -> [status, diff]                           *)
(*   ready      the ready queue                                            *)
(*   deferred   pairs <<account, block>> of deferred_by_nonce              *)
(*   sets       conflict sets; their ids only tell them apart              *)
(*   cursors    account -> next nonce, for the accounts that have a cursor *)
(*   committed  committed_blocks                                           *)
(*   refused    history: blocks drain_ready dropped for a used nonce       *)
(***************************************************************************)
EXTENDS CertifiedBlocks

CONSTANT HashOrder    \* block -> position of its hash in the order of hashes

ASSUME HashOrderAssumption == HashOrder \in [Block -> Nat]

EmptyScheduler ==
    [meta |-> <<>>, ready |-> <<>>, deferred |-> {}, sets |-> {},
     cursors |-> <<>>, committed |-> {}, refused |-> {}]

\* extract_conflict_keys: the hash of each transaction and its account and
\* nonce.  The pair stands for both; equal transactions have equal pairs.
ConflictKeys(b) == {<<tx.from, tx.nonce>> : tx \in Txs(b)}

Over == {"Committed", "Rejected", "ResolvedLoser"}

Known(s, b) == b \in DOMAIN s.meta \/ b \in s.committed

WithMeta(s, b, m) ==
    [s EXCEPT !.meta = [x \in DOMAIN s.meta \cup {b} |-> IF x = b THEN m ELSE s.meta[x]]]

SetStatus(s, b, status) ==
    IF b \in DOMAIN s.meta THEN [s EXCEPT !.meta[b].status = status] ELSE s

SetsOf(s, b) == {c \in s.sets : b \in c.members}

\* choose_winner: the topological rank is the height and every score is 0, so the
\* lowest height wins, then the lowest hash.
ChooseWinner(bs) ==
    CHOOSE w \in bs : \A b \in bs :
        \/ HeightOf[w] < HeightOf[b]
        \/ HeightOf[w] = HeightOf[b] /\ HashOrder[w] <= HashOrder[b]

\* find_or_create_conflict_set.
FindOrCreate(s, key, existing, new) ==
    LET open == {c \in SetsOf(s, existing) : c.key = key /\ ~c.resolved}
        found == CHOOSE c \in open : TRUE
    IN  IF open # {}
        THEN [s EXCEPT !.sets = (@ \ {found}) \cup {[found EXCEPT !.members = @ \cup {new}]}]
        ELSE [s EXCEPT !.sets = @ \cup {[key |-> key, members |-> {existing, new},
                                         resolved |-> FALSE, winner |-> new]}]

Resolve(s, c, w) ==
    [s EXCEPT !.sets = (@ \ {c}) \cup {[c EXCEPT !.resolved = TRUE, !.winner = w]}]

\* Mutant of TryResolve: the winner of a set is not queued.
TryResolveForgetsWinner(s, c) ==
    LET candidates == c.members \cap DOMAIN s.meta
        w == ChooseWinner(candidates)
    IN  IF c.resolved \/ Cardinality(candidates) < 2 THEN s
        ELSE [Resolve(s, c, w) EXCEPT
                !.meta = [b \in DOMAIN @ |->
                           IF b \notin c.members THEN @[b]
                           ELSE [@[b] EXCEPT !.status = IF b = w THEN "ResolvedWinner"
                                                        ELSE "ResolvedLoser"]]]

\* try_resolve_conflict_set: the winner is queued once all its sets are
\* resolved; every other member becomes a loser, whatever it was before.
TryResolve(s, c) ==
    LET candidates == c.members \cap DOMAIN s.meta
        w == ChooseWinner(candidates)
        s1 == Resolve(s, c, w)
        settled == \A d \in SetsOf(s1, w) : d.resolved
    IN  IF c.resolved \/ Cardinality(candidates) < 2 THEN s
        ELSE [s1 EXCEPT
                !.meta = [b \in DOMAIN @ |->
                            IF b = w THEN IF settled THEN [@[b] EXCEPT !.status = "ResolvedWinner"]
                                          ELSE @[b]
                            ELSE IF b \in c.members THEN [@[b] EXCEPT !.status = "ResolvedLoser"]
                            ELSE @[b]],
                !.ready = IF settled THEN Append(@, w) ELSE @]

\* The orders in which a hash set is visited.
Orders(S) == {f \in [1..Cardinality(S) -> S] : \A i, j \in DOMAIN f : f[i] = f[j] => i = j}

\* admit_block: sets for the keys shared with blocks that are not over, then the
\* block itself, then the resolution of those sets in the order of a hash set.
AdmitBlock(s, b, diff) ==
    LET rivals == {e \in DOMAIN s.meta \ {b} : s.meta[e].status \notin Over}
        shared == {pair \in ConflictKeys(b) \X rivals : pair[1] \in ConflictKeys(pair[2])}
        pairs == CHOOSE o \in Orders(shared) : TRUE
        joined[n \in 0..Cardinality(shared)] ==
            IF n = 0 THEN s
            ELSE FindOrCreate(joined[n - 1], pairs[n][1], pairs[n][2], b)
        s1 == joined[Cardinality(shared)]
        mine == SetsOf(s1, b)
        s2 == WithMeta(s1, b, [status |-> IF shared = {} THEN "Accepted" ELSE "Conflicting",
                               diff |-> diff])
        s3 == IF shared = {} THEN [s2 EXCEPT !.ready = Append(@, b)] ELSE s2
        Resolved(o) ==
            LET r[n \in 0..Cardinality(mine)] ==
                    IF n = 0 THEN s3 ELSE TryResolve(r[n - 1], o[n])
            IN  r[Cardinality(mine)]
    IN  IF Known(s, b) THEN {s} ELSE {Resolved(o) : o \in Orders(mine)}

\* The nonce the scheduler expects of an account: its cursor, or without one the
\* stored nonce.
Expected(s, nonces, a) == IF a \in DOMAIN s.cursors THEN s.cursors[a] ELSE nonces[a]

\* AccountCommitCursor::advance for every account of a state diff.
Advance(cursors, diff) ==
    [a \in DOMAIN cursors \cup DOMAIN diff |->
        IF a \notin DOMAIN diff THEN cursors[a]
        ELSE IF a \notin DOMAIN cursors \/ cursors[a] < diff[a] THEN diff[a]
        ELSE cursors[a]]

\* The verdict of drain_ready on a block: the first transaction whose nonce is
\* not the expected one decides, and no cursor moves within the block.
Verdict(s, nonces, b) ==
    LET odd == {i \in 1..Len(TxsOf[b]) :
                   TxsOf[b][i].nonce # Expected(s, nonces, TxsOf[b][i].from)}
        first == CHOOSE i \in odd : \A j \in odd : i <= j
        tx == TxsOf[b][first]
    IN  IF odd = {} THEN [check |-> "Ok"]
        ELSE IF tx.nonce > Expected(s, nonces, tx.from)
        THEN [check |-> "Deferred", account |-> tx.from]
        ELSE [check |-> "Reject"]

\* One turn of the loop of drain_ready, on a record of the scheduler, the blocks
\* handed out so far and the deferrals, which are entered after the loop.
DrainOne(d, nonces, b) ==
    LET s == d.s
        v == Verdict(s, nonces, b)
        unresolved == \E c \in SetsOf(s, b) : ~c.resolved
    IN  CASE b \notin DOMAIN s.meta -> d
          [] b \in DOMAIN s.meta /\ (s.meta[b].status \in Over \/ unresolved) -> d
          [] OTHER ->
              CASE v.check = "Ok" ->
                     [d EXCEPT !.s = [SetStatus(s, b, "Committed") EXCEPT
                                        !.cursors = Advance(@, s.meta[b].diff),
                                        !.committed = @ \cup {b}],
                               !.out = Append(@, b)]
                [] v.check = "Deferred" -> [d EXCEPT !.defer = @ \cup {<<v.account, b>>}]
                [] v.check = "Reject" -> [d EXCEPT !.s.refused = @ \cup {b}]

\* drain_ready: the blocks to commit and the scheduler after it.
DrainReady(s, nonces) ==
    LET n == Len(s.ready)
        turn[k \in 0..n] ==
            IF k = 0 THEN [s |-> [s EXCEPT !.ready = <<>>], out |-> <<>>, defer |-> {}]
            ELSE DrainOne(turn[k - 1], nonces, s.ready[k])
        d == turn[n]
        late == {p[2] : p \in d.defer}
    IN  [s |-> [d.s EXCEPT
                  !.meta = [b \in DOMAIN @ |->
                              IF b \in late THEN [@[b] EXCEPT !.status = "Deferred"] ELSE @[b]],
                  !.deferred = @ \cup d.defer],
         out |-> d.out]

\* wake_deferred: deferred blocks with a transaction of the account that is next
\* go back to the queue, accounts in the order of a hash map.
WakeDeferred(s, nonces) ==
    LET woken == {p[2] : p \in {q \in s.deferred :
                     /\ q[2] \in DOMAIN s.meta
                     /\ <<q[1], Expected(s, nonces, q[1])>> \in ConflictKeys(q[2])}}
    IN  {[s EXCEPT
            !.meta = [b \in DOMAIN @ |->
                        IF b \in woken THEN [@[b] EXCEPT !.status = "Accepted"] ELSE @[b]],
            !.ready = @ \o o,
            !.deferred = {p \in @ : p[2] \notin woken}] : o \in Orders(woken)}

\* gc: blocks below keep_height that are over are forgotten, and so are the
\* resolved sets none of whose members is known any more.
Gc(s, keep) ==
    LET gone == {b \in DOMAIN s.meta : HeightOf[b] < keep /\ s.meta[b].status \in Over}
        left == DOMAIN s.meta \ gone
        Keep(c) == ~c.resolved \/ c.members \cap left # {}
    IN  [s EXCEPT !.meta = [b \in left |-> s.meta[b]],
                  !.committed = @ \ gone,
                  !.sets = {c \in @ : Keep(c)}]

\* No conflict set is left open between two calls, its winner is the canonical
\* one, and every block that may still commit is where a drain or a wake finds
\* it, unless a drain dropped it for a used nonce.
SchedulerOK(s) ==
    /\ \A c \in s.sets : c.resolved /\ c.winner = ChooseWinner(c.members)
    /\ \A b \in DOMAIN s.meta :
          /\ s.meta[b].status # "Conflicting"
          /\ s.meta[b].status \in {"Accepted", "ResolvedWinner"} =>
                b \in s.refused \/ \E i \in 1..Len(s.ready) : s.ready[i] = b
          /\ s.meta[b].status = "Deferred" => \E p \in s.deferred : p[2] = b
=============================================================================
