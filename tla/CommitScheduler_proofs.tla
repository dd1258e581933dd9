------------------------ MODULE CommitScheduler_proofs ------------------------
(***************************************************************************)
(* Proofs about the commit scheduler: each of its methods leads from a     *)
(* state between two calls to another one, for every set of blocks and     *)
(* every order its hash maps are visited in.  The loops of drain_ready and *)
(* admit_block are recursive functions on 0..n; what they keep is shown by *)
(* induction on their index.                                               *)
(***************************************************************************)
EXTENDS CommitScheduler, TLAPS, WellFoundedInduction, FiniteSetTheorems

\* Induction over the natural numbers, on the set of numbers that have a property.
LEMMA SetInduction ==
    ASSUME NEW S, 0 \in S, \A n \in Nat : n \in S => n + 1 \in S
    PROVE  \A n \in Nat : n \in S
<1> DEFINE D == {n \in Nat : n \notin S}
<1>1. SUFFICES ASSUME D # {} PROVE FALSE
  OBVIOUS
<1>2. PICK d \in D : \A y \in D : ~(<<y, d>> \in OpToRel(<, Nat))
  BY <1>1, NatLessThanWellFounded, WFMin, Zenon
<1>3. \A y \in D : ~(y < d)
  BY <1>2, Zenon DEF OpToRel
<1>4. d \in Nat /\ d # 0 /\ d - 1 \in Nat /\ d - 1 < d /\ (d - 1) + 1 = d
  OBVIOUS
<1>5. d - 1 \notin D
  BY <1>3, <1>4
<1>6. d - 1 \in S
  BY <1>4, <1>5
<1> QED BY <1>4, <1>6

\* drain_ready as its loop: the turns, and the deferrals entered after the last.
IsTurns(turn, n, s, nonces) ==
    turn = [k \in 0..n |->
              IF k = 0 THEN [s |-> [s EXCEPT !.ready = <<>>], out |-> <<>>, defer |-> {}]
              ELSE DrainOne(turn[k - 1], nonces, s.ready[k])]

Closed(d) ==
    LET late == {p[2] : p \in d.defer}
    IN  [s |-> [d.s EXCEPT
                  !.meta = [b \in DOMAIN @ |->
                              IF b \in late THEN [@[b] EXCEPT !.status = "Deferred"] ELSE @[b]],
                  !.deferred = @ \cup d.defer],
         out |-> d.out]

\* The loop of drain_ready is well defined.
LEMMA TurnsDefined ==
    ASSUME NEW s, NEW nonces
    PROVE  \A n \in Nat : \E f : IsTurns(f, n, s, nonces)
<1> DEFINE z == [s |-> [s EXCEPT !.ready = <<>>], out |-> <<>>, defer |-> {}]
           B(f, n) == [k \in 0..n |->
               IF k = 0 THEN z ELSE DrainOne(f[k - 1], nonces, s.ready[k])]
           S == {n \in Nat : \E f : f = B(f, n)}
<1>0. \A f, n : IsTurns(f, n, s, nonces) <=> f = B(f, n)
  BY Zenon DEF IsTurns
<1> HIDE DEF z
<1>1. 0 \in S
  <2> DEFINE f == [k \in 0..0 |-> z]
  <2>1. f = B(f, 0)
    OBVIOUS
  <2> QED BY <2>1, Zenon
<1>2. ASSUME NEW n \in Nat, n \in S PROVE n + 1 \in S
  <2>1. PICK f : f = B(f, n)
    BY <1>2
  <2> DEFINE g == [k \in 0..(n + 1) |-> IF k <= n THEN f[k]
                       ELSE DrainOne(f[n], nonces, s.ready[n + 1])]
  <2>2. ASSUME NEW k \in 0..(n + 1)
        PROVE  g[k] = IF k = 0 THEN z ELSE DrainOne(g[k - 1], nonces, s.ready[k])
    <3>1. CASE k = 0
      BY <2>1, <3>1
    <3>2. CASE k = n + 1
      <4>1. k - 1 = n /\ n \in 0..(n + 1) /\ ~(n + 1 <= n) /\ n <= n
        BY <3>2
      <4>2. g[n] = f[n]
        BY <4>1
      <4> QED BY <3>2, <4>1, <4>2
    <3>3. CASE k # 0 /\ k # n + 1
      <4>1. k \in 0..n /\ k - 1 \in 0..(n + 1) /\ k - 1 <= n /\ k <= n
        BY <3>3
      <4>2. g[k] = f[k] /\ g[k - 1] = f[k - 1]
        BY <4>1
      <4>3. f[k] = DrainOne(f[k - 1], nonces, s.ready[k])
        BY <2>1, <3>3, <4>1, Zenon
      <4> QED BY <3>3, <4>2, <4>3
    <3> QED BY <3>1, <3>2, <3>3
  <2>3. g = B(g, n + 1)
    BY <2>2
  <2>4. \E h : h = B(h, n + 1)
    BY <2>3, Zenon
  <2> QED BY <2>4
<1> HIDE DEF S
<1>3. \A n \in Nat : n \in S
  BY <1>1, <1>2, SetInduction, Zenon
<1>4. \A n \in Nat : \E f : f = B(f, n)
  BY <1>3, Zenon DEF S
<1> HIDE DEF B
<1> QED BY <1>0, <1>4, Zenon


\* A drain is its last turn, closed.
LEMMA DrainTurns ==
    ASSUME NEW s, NEW nonces, Len(s.ready) \in Nat
    PROVE  \E turn : /\ IsTurns(turn, Len(s.ready), s, nonces)
                     /\ DrainReady(s, nonces) = Closed(turn[Len(s.ready)])
<1> DEFINE t == CHOOSE f : IsTurns(f, Len(s.ready), s, nonces)
<1>1. IsTurns(t, Len(s.ready), s, nonces)
  BY TurnsDefined, Zenon
<1>2. DrainReady(s, nonces) = Closed(t[Len(s.ready)])
  BY Zenon DEF DrainReady, Closed, IsTurns
<1> QED BY <1>1, <1>2, Zenon

\* A finite set is visited in some order, and every order visits all of it.
LEMMA OrdersVisitAll ==
    ASSUME NEW S, IsFiniteSet(S)
    PROVE  /\ Cardinality(S) \in Nat
           /\ \E o : o \in Orders(S)
           /\ \A o \in Orders(S) :
                 /\ o \in [1..Cardinality(S) -> S]
                 /\ \A x \in S : \E i \in 1..Cardinality(S) : o[i] = x
<1> DEFINE n == Cardinality(S)
<1>1. n \in Nat /\ ExistsBijection(1..n, S)
  BY FS_CardinalityType
<1>2. \E o : o \in Orders(S)
  <2>1. PICK o : o \in Bijection(1..n, S)
    BY <1>1, Zenon DEF ExistsBijection
  <2>2. o \in [1..n -> S] /\ \A i, j \in 1..n : o[i] = o[j] => i = j
    BY <2>1, Zenon DEF Bijection, Injection, IsInjective
  <2> QED BY <2>2, Zenon DEF Orders
<1>3. ASSUME NEW o \in Orders(S)
      PROVE  o \in [1..n -> S] /\ \A x \in S : \E i \in 1..n : o[i] = x
  <2>1. o \in [1..n -> S] /\ \A i, j \in 1..n : o[i] = o[j] => i = j
    BY DEF Orders
  <2>2. o \in Injection(1..n, S)
    BY <2>1, Zenon DEF Injection, IsInjective
  <2>3. Cardinality(1..n) = n
    <3>1. Cardinality(1..n) = IF 1 > n THEN 0 ELSE n - 1 + 1
      BY <1>1, FS_Interval, SMTT(60)
    <3> QED BY <1>1, <3>1
  <2>4. o \in Surjection(1..n, S)
    BY <2>2, <2>3, FS_Injection, Zenon
  <2> QED BY <2>1, <2>4, Zenon DEF Surjection
<1> QED BY <1>1, <1>2, <1>3, Zenon

\* Two different members make a finite set one of at least two.
LEMMA TwoMembers ==
    ASSUME NEW S, IsFiniteSet(S), NEW x \in S, NEW y \in S, x # y
    PROVE  Cardinality(S) \in Nat /\ ~(Cardinality(S) < 2)
<1>1. IsFiniteSet({x}) /\ Cardinality({x}) = 1
  BY FS_Singleton, Zenon
<1>2. IsFiniteSet({x} \cup {y}) /\ Cardinality({x} \cup {y}) = 2
  <2>1. /\ IsFiniteSet({x} \cup {y})
        /\ Cardinality({x} \cup {y}) = IF y \in {x} THEN Cardinality({x}) ELSE Cardinality({x}) + 1
    BY <1>1, FS_AddElement, Zenon
  <2> QED BY <1>1, <2>1
<1>3. {x} \cup {y} \in SUBSET S
  OBVIOUS
<1>4. Cardinality({x} \cup {y}) <= Cardinality(S)
  BY <1>3, FS_Subset, Zenon
<1> QED BY <1>2, <1>4, FS_CardinalityType

\* A nonempty set of numbers has a smallest one.
LEMMA SmallestExists ==
    ASSUME NEW S, S \subseteq Nat, S # {}
    PROVE  \E n \in S : \A m \in S : n <= m
<1>1. PICK n \in S : \A y \in S : ~(<<y, n>> \in OpToRel(<, Nat))
  BY NatLessThanWellFounded, WFMin, Zenon
<1>2. \A y \in S : ~(y < n)
  BY <1>1, Zenon DEF OpToRel
<1> QED BY <1>2

\* choose_winner finds a winner among blocks.
LEMMA WinnerExists ==
    ASSUME NEW S, S \subseteq Block, S # {}
    PROVE  ChooseWinner(S) \in S
<1> DEFINE H == {HeightOf[b] : b \in S}
<1>1. HeightOf \in [Block -> Nat] /\ HashOrder \in [Block -> Nat]
  BY BlocksAssumption, HashOrderAssumption
<1>2. PICK h \in H : \A m \in H : h <= m
  <2>1. H \subseteq Nat /\ H # {}
    BY <1>1
  <2> QED BY <2>1, SmallestExists, Zenon
<1> DEFINE L == {b \in S : HeightOf[b] = h}
           K == {HashOrder[b] : b \in L}
<1>3. PICK k \in K : \A m \in K : k <= m
  <2>1. K \subseteq Nat /\ K # {}
    BY <1>1, <1>2
  <2> QED BY <2>1, SmallestExists, Zenon
<1>4. PICK w \in L : HashOrder[w] = k
  BY <1>3
<1>5. ASSUME NEW b \in S
      PROVE  \/ HeightOf[w] < HeightOf[b]
             \/ HeightOf[w] = HeightOf[b] /\ HashOrder[w] <= HashOrder[b]
  <2>1. h <= HeightOf[b] /\ HeightOf[w] = h /\ HeightOf[b] \in Nat /\ h \in Nat
    BY <1>1, <1>2, <1>4
  <2>2. HeightOf[b] = h => HashOrder[w] <= HashOrder[b]
    BY <1>3, <1>4
  <2> QED BY <2>1, <2>2
<1>6. w \in S
  BY <1>4
<1> HIDE DEF L, K, H
<1> QED BY <1>5, <1>6, Zenon DEF ChooseWinner

\* A block has finitely many conflict keys.
LEMMA FiniteKeys ==
    ASSUME NEW b \in Block
    PROVE  IsFiniteSet(ConflictKeys(b))
<1> DEFINE n == Len(TxsOf[b])
           f == [i \in 1..n |-> <<TxsOf[b][i].from, TxsOf[b][i].nonce>>]
<1>1. TxsOf[b] \in Seq(Transfer)
  BY BlocksAssumption
<1>2. n \in Nat /\ \A i \in 1..n : TxsOf[b][i] \in Transfer
  BY <1>1
<1>3. ASSUME NEW i \in 1..n PROVE f[i] \in ConflictKeys(b)
  <2>1. TxsOf[b][i] \in Txs(b)
    BY <1>2 DEF Txs
  <2> QED BY <2>1 DEF ConflictKeys
<1>4. ASSUME NEW x \in ConflictKeys(b) PROVE \E i \in 1..n : f[i] = x
  <2>1. PICK tx \in Txs(b) : x = <<tx.from, tx.nonce>>
    BY DEF ConflictKeys
  <2>2. PICK i \in 1..n : TxsOf[b][i] = tx
    BY <2>1 DEF Txs
  <2> QED BY <2>1, <2>2, SMTT(60)
<1>5. f \in Surjection(1..n, ConflictKeys(b))
  <2>1. f \in [1..n -> ConflictKeys(b)]
    BY <1>3, Zenon
  <2> HIDE DEF f
  <2> QED BY <2>1, <1>4, Zenon DEF Surjection
<1>6. IsFiniteSet(1..n)
  <2>1. 1 \in Int /\ n \in Int
    BY <1>2
  <2> QED BY <2>1, FS_Interval, Zenon
<1> QED BY <1>5, <1>6, FS_Surjection, Zenon
-----------------------------------------------------------------------------
(* The commit scheduler *)

\* The records of admitted blocks.
IsMeta(f) ==
    /\ f = [b \in DOMAIN f |-> f[b]]
    /\ \A b \in DOMAIN f : f[b] = [status |-> f[b].status, diff |-> f[b].diff]

IsConflictSet(c) ==
    /\ c = [key |-> c.key, members |-> c.members, resolved |-> c.resolved, winner |-> c.winner]
    /\ c.resolved \in BOOLEAN

\* A record with exactly the fields of a scheduler, over blocks of the instance,
\* with finitely many blocks and conflict sets.
SchType(s) ==
    /\ s = [meta |-> s.meta, ready |-> s.ready, deferred |-> s.deferred, sets |-> s.sets,
            cursors |-> s.cursors, committed |-> s.committed, refused |-> s.refused]
    /\ IsMeta(s.meta)
    /\ DOMAIN s.meta \subseteq Block /\ IsFiniteSet(DOMAIN s.meta)
    /\ s.ready \in Seq(Block)
    /\ s.committed \subseteq Block
    /\ IsFiniteSet(s.sets)
    /\ \A c \in s.sets : IsConflictSet(c)

GoodSch(s) == SchType(s) /\ SchedulerOK(s)

\* The verdicts of drain_ready.
LEMMA Verdicts ==
    ASSUME NEW s, NEW nonces, NEW b
    PROVE  Verdict(s, nonces, b).check \in {"Ok", "Deferred", "Reject"}
BY DEF Verdict

HandOut(d, b) ==
    [d EXCEPT !.s = [SetStatus(d.s, b, "Committed") EXCEPT
                       !.cursors = Advance(@, d.s.meta[b].diff),
                       !.committed = @ \cup {b}],
              !.out = Append(@, b)]

Defer(d, a, b) == [d EXCEPT !.defer = @ \cup {<<a, b>>}]

Drop(d, b) == [d EXCEPT !.s.refused = @ \cup {b}]

\* What one turn of a drain does: nothing to a block that is unknown, over or in an
\* open conflict, and otherwise hand it out, defer it or drop it.
LEMMA TurnCases ==
    ASSUME NEW d, NEW nonces, NEW b
    PROVE  \/ /\ \/ b \notin DOMAIN d.s.meta
                 \/ d.s.meta[b].status \in Over
                 \/ \E c \in d.s.sets : ~c.resolved
              /\ DrainOne(d, nonces, b) = d
           \/ b \in DOMAIN d.s.meta /\ DrainOne(d, nonces, b) = HandOut(d, b)
           \/ \E a : DrainOne(d, nonces, b) = Defer(d, a, b)
           \/ DrainOne(d, nonces, b) = Drop(d, b)
<1> DEFINE s == d.s
           v == Verdict(s, nonces, b)
           unresolved == \E c \in SetsOf(s, b) : ~c.resolved
           idle == b \notin DOMAIN s.meta \/ s.meta[b].status \in Over \/ unresolved
<1>1. v.check \in {"Ok", "Deferred", "Reject"}
  BY Verdicts, Zenon
<1>2. CASE idle
  <2>1. DrainOne(d, nonces, b) = d
    BY <1>2 DEF DrainOne
  <2>2. \/ b \notin DOMAIN s.meta
        \/ s.meta[b].status \in Over
        \/ \E c \in s.sets : ~c.resolved
    BY <1>2, Zenon DEF SetsOf
  <2> QED BY <2>1, <2>2, Zenon
<1>3. CASE ~idle
  <2> HIDE DEF v
  <2>1. DrainOne(d, nonces, b) =
            CASE v.check = "Ok" -> HandOut(d, b)
              [] v.check = "Deferred" -> Defer(d, v.account, b)
              [] v.check = "Reject" -> Drop(d, b)
    BY <1>3, Zenon DEF DrainOne, v, HandOut, Defer, Drop
  <2>2. CASE v.check = "Ok"
    BY <1>3, <2>1, <2>2
  <2>3. CASE v.check = "Deferred"
    BY <1>3, <2>1, <2>3
  <2>4. CASE v.check = "Reject"
    BY <1>3, <2>1, <2>4
  <2> QED BY <1>1, <2>2, <2>3, <2>4, Zenon
<1> QED BY <1>2, <1>3, Zenon

\* The state of the loop of drain_ready after k blocks of the queue: a block that
\* may still commit is further on in the queue, among the deferrals or dropped.
TurnInv(d, s, k) ==
    /\ d = [s |-> d.s, out |-> d.out, defer |-> d.defer]
    /\ SchType(d.s)
    /\ d.out \in Seq(Block)
    /\ d.s.sets = s.sets /\ d.s.deferred = s.deferred
    /\ DOMAIN d.s.meta = DOMAIN s.meta
    /\ \A b \in DOMAIN s.meta :
          /\ d.s.meta[b].status # "Conflicting"
          /\ d.s.meta[b].status \in {"Accepted", "ResolvedWinner"} =>
                \/ b \in d.s.refused
                \/ \E i \in 1..Len(s.ready) : k < i /\ s.ready[i] = b
                \/ \E p \in d.defer : p[2] = b
          /\ d.s.meta[b].status = "Deferred" => \E p \in s.deferred : p[2] = b
WithCommitted(f, b) == [f EXCEPT ![b].status = "Committed"]

\* Committing one block changes nothing else in the blocks' records.
LEMMA CommittedSet ==
    ASSUME NEW f, IsMeta(f), NEW b \in DOMAIN f
    PROVE  /\ IsMeta(WithCommitted(f, b)) /\ DOMAIN WithCommitted(f, b) = DOMAIN f
           /\ \A x \in DOMAIN f :
                 WithCommitted(f, b)[x].status = IF x = b THEN "Committed" ELSE f[x].status
<1> DEFINE m == WithCommitted(f, b)
<1>1. DOMAIN m = DOMAIN f /\ m = [x \in DOMAIN f |-> m[x]]
  BY DEF IsMeta, WithCommitted
<1>2. \A x \in DOMAIN f :
         m[x] = IF x = b THEN [status |-> "Committed", diff |-> f[b].diff] ELSE f[x]
  BY DEF IsMeta, WithCommitted
<1> HIDE DEF m
<1>3. ASSUME NEW x \in DOMAIN f
      PROVE  /\ m[x] = [status |-> m[x].status, diff |-> m[x].diff]
             /\ m[x].status = IF x = b THEN "Committed" ELSE f[x].status
  BY <1>2 DEF IsMeta
<1>4. IsMeta(m)
  BY <1>1, <1>3, Zenon DEF IsMeta
<1> QED BY <1>1, <1>3, <1>4, Zenon DEF m

\* The effect of handing a block out, field by field.
LEMMA HandOutIs ==
    ASSUME NEW d, NEW b, b \in DOMAIN d.s.meta,
           d = [s |-> d.s, out |-> d.out, defer |-> d.defer],
           d.s = [meta |-> d.s.meta, ready |-> d.s.ready, deferred |-> d.s.deferred,
                  sets |-> d.s.sets, cursors |-> d.s.cursors, committed |-> d.s.committed,
                  refused |-> d.s.refused]
    PROVE  HandOut(d, b) =
             [s |-> [meta |-> WithCommitted(d.s.meta, b),
                     ready |-> d.s.ready, deferred |-> d.s.deferred, sets |-> d.s.sets,
                     cursors |-> Advance(d.s.cursors, d.s.meta[b].diff),
                     committed |-> d.s.committed \cup {b}, refused |-> d.s.refused],
              out |-> Append(d.out, b), defer |-> d.defer]
<1> DEFINE m == WithCommitted(d.s.meta, b)
           t == SetStatus(d.s, b, "Committed")
<1>1. t = [meta |-> m, ready |-> d.s.ready, deferred |-> d.s.deferred, sets |-> d.s.sets,
           cursors |-> d.s.cursors, committed |-> d.s.committed, refused |-> d.s.refused]
  <2>1. t = [d.s EXCEPT !.meta = m]
    BY Zenon DEF SetStatus, WithCommitted
  <2> HIDE DEF m
  <2> QED BY <2>1
<1> DEFINE cs == Advance(d.s.cursors, d.s.meta[b].diff)
           u == [t EXCEPT !.cursors = cs]
           v == [u EXCEPT !.committed = u.committed \cup {b}]
<1>2. u = [meta |-> m, ready |-> d.s.ready, deferred |-> d.s.deferred, sets |-> d.s.sets,
           cursors |-> cs, committed |-> d.s.committed, refused |-> d.s.refused]
  <2> HIDE DEF m, t, cs
  <2> QED BY <1>1
<1>3. v = [meta |-> m, ready |-> d.s.ready, deferred |-> d.s.deferred, sets |-> d.s.sets,
           cursors |-> cs, committed |-> d.s.committed \cup {b}, refused |-> d.s.refused]
  <2> HIDE DEF m, u, cs
  <2> QED BY <1>2
<1>4. HandOut(d, b) = [[d EXCEPT !.s = v] EXCEPT !.out = Append(d.out, b)]
  <2>1. t.cursors = d.s.cursors /\ t.committed = u.committed
    <3> HIDE DEF m, t, cs
    <3> QED BY <1>1
  <2>2. HandOut(d, b) =
          [[d EXCEPT !.s = [[t EXCEPT !.cursors = Advance(t.cursors, d.s.meta[b].diff)]
                            EXCEPT !.committed = t.committed \cup {b}]]
           EXCEPT !.out = Append(d.out, b)]
    BY Zenon DEF HandOut
  <2> HIDE DEF t
  <2> QED BY <2>1, <2>2, Zenon
<1> HIDE DEF m, v, cs
<1>5. [d EXCEPT !.s = v] = [s |-> v, out |-> d.out, defer |-> d.defer]
  OBVIOUS
<1>6. HandOut(d, b) = [s |-> v, out |-> Append(d.out, b), defer |-> d.defer]
  BY <1>4, <1>5, Zenon
<1> QED BY <1>3, <1>6 DEF m, cs

\* A turn keeps that state, one block further on.
LEMMA TurnKeeps ==
    ASSUME NEW s, GoodSch(s), NEW nonces, NEW k \in Nat, k + 1 \in 1..Len(s.ready),
           NEW d, TurnInv(d, s, k)
    PROVE  TurnInv(DrainOne(d, nonces, s.ready[k + 1]), s, k + 1)
<1> DEFINE b == s.ready[k + 1]
           e == DrainOne(d, nonces, b)
           Left(x, j) == \E i \in 1..Len(s.ready) : j < i /\ s.ready[i] = x
<1>1. s.ready \in Seq(Block) /\ Len(s.ready) \in Nat /\ b \in Block
  BY DEF GoodSch, SchType
<1>2. \A x : x # b /\ Left(x, k) => Left(x, k + 1)
  BY <1>1
<1>3. \A c \in d.s.sets : c.resolved
  BY DEF TurnInv, GoodSch, SchedulerOK
<1>4. SchType(d.s) /\ d.out \in Seq(Block)
  BY DEF TurnInv
<1>5. d = [s |-> d.s, out |-> d.out, defer |-> d.defer]
  BY DEF TurnInv
<1>6. CASE e = d /\ (b \notin DOMAIN d.s.meta \/ d.s.meta[b].status \in Over)
  <2>1. ASSUME NEW x \in DOMAIN s.meta,
               d.s.meta[x].status \in {"Accepted", "ResolvedWinner"}
        PROVE  x # b
    BY <1>6, <2>1 DEF TurnInv, Over
  <2> HIDE DEF b, Left
  <2>2. ASSUME NEW x \in DOMAIN s.meta,
               d.s.meta[x].status \in {"Accepted", "ResolvedWinner"}
        PROVE  x \in d.s.refused \/ Left(x, k + 1) \/ \E p \in d.defer : p[2] = x
    BY <1>2, <2>1, <2>2, Zenon DEF TurnInv, Left
  <2> HIDE DEF e
  <2> QED BY <1>6, <2>2, Zenon DEF TurnInv, Left, e, b
<1>7. CASE b \in DOMAIN d.s.meta /\ e = HandOut(d, b)
  <2> DEFINE m == WithCommitted(d.s.meta, b)
             cs == Advance(d.s.cursors, d.s.meta[b].diff)
             t == [meta |-> m, ready |-> d.s.ready, deferred |-> d.s.deferred,
                   sets |-> d.s.sets, cursors |-> cs, committed |-> d.s.committed \cup {b},
                   refused |-> d.s.refused]
  <2>3. e = [s |-> t, out |-> Append(d.out, b), defer |-> d.defer]
    <3> HIDE DEF b, e
    <3> QED BY <1>4, <1>5, <1>7, HandOutIs, SMTT(60) DEF SchType
  <2>4. /\ IsMeta(m) /\ DOMAIN m = DOMAIN d.s.meta
        /\ \A x \in DOMAIN m : m[x].status = IF x = b THEN "Committed" ELSE d.s.meta[x].status
    <3>1. IsMeta(d.s.meta)
      BY <1>4, Zenon DEF SchType
    <3> HIDE DEF b
    <3> QED BY <1>7, <3>1, CommittedSet, ZenonT(60)
  <2>5. e.s = t /\ e.out = Append(d.out, b) /\ e.defer = d.defer
    BY <2>3
  <2>6. Append(d.out, b) \in Seq(Block)
    BY <1>1, <1>4
  <2> HIDE DEF m, cs
  <2>7. SchType(t)
    <3> HIDE DEF b
    <3> QED BY <1>1, <1>4, <2>4 DEF SchType
  <2>8. /\ t.meta = m /\ t.sets = d.s.sets /\ t.deferred = d.s.deferred
        /\ t.refused = d.s.refused
    OBVIOUS
  <2> HIDE DEF t, e, b
  <2>9. ASSUME NEW x \in DOMAIN s.meta
        PROVE  /\ m[x].status # "Conflicting"
               /\ m[x].status \in {"Accepted", "ResolvedWinner"} =>
                     x \in d.s.refused \/ Left(x, k + 1) \/ \E p \in d.defer : p[2] = x
               /\ m[x].status = "Deferred" => \E p \in s.deferred : p[2] = x
    <3>1. x \in DOMAIN m
      BY <2>4 DEF TurnInv
    <3>2. CASE x = b
      BY <2>4, <3>1, <3>2
    <3>3. CASE x # b
      <4>1. m[x].status = d.s.meta[x].status
        BY <2>4, <3>1, <3>3, Zenon
      <4> HIDE DEF Left
      <4> QED BY <1>2, <3>3, <4>1, Zenon DEF TurnInv, Left
    <3> QED BY <3>2, <3>3
  <2>10. /\ e.s.meta = m /\ e.s.sets = s.sets /\ e.s.deferred = s.deferred
         /\ e.s.refused = d.s.refused /\ DOMAIN m = DOMAIN s.meta
         /\ SchType(e.s) /\ e.out \in Seq(Block) /\ e.defer = d.defer
         /\ e = [s |-> e.s, out |-> e.out, defer |-> e.defer]
    BY <2>3, <2>4, <2>5, <2>6, <2>7, <2>8, Zenon DEF TurnInv
  <2>11. TurnInv(e, s, k + 1)
    BY <2>9, <2>10, Zenon DEF TurnInv
  <2> QED BY <2>11 DEF e, b
<1>8. CASE \E a : e = Defer(d, a, b)
  <2>1. PICK a : e = Defer(d, a, b)
    BY <1>8
  <2>2. e = [s |-> d.s, out |-> d.out, defer |-> d.defer \cup {<<a, b>>}]
    BY <1>5, <2>1, Zenon DEF Defer
  <2>3. e.s = d.s /\ e.out = d.out /\ e.defer = d.defer \cup {<<a, b>>}
    BY <2>2
  <2>4. <<a, b>> \in e.defer /\ <<a, b>>[2] = b
    BY <2>3
  <2> HIDE DEF e, b
  <2>5. ASSUME NEW x \in DOMAIN s.meta,
               d.s.meta[x].status \in {"Accepted", "ResolvedWinner"}
        PROVE  x \in d.s.refused \/ Left(x, k + 1) \/ \E p \in e.defer : p[2] = x
    <3> HIDE DEF Left
    <3> QED BY <1>2, <2>3, <2>4, <2>5, Zenon DEF TurnInv, Left
  <2> QED BY <2>2, <2>3, <2>5, Zenon DEF TurnInv, e, b
<1>9. CASE e = Drop(d, b)
  <2> DEFINE t == [meta |-> d.s.meta, ready |-> d.s.ready, deferred |-> d.s.deferred,
                   sets |-> d.s.sets, cursors |-> d.s.cursors, committed |-> d.s.committed,
                   refused |-> d.s.refused \cup {b}]
  <2>1. d.s = [meta |-> d.s.meta, ready |-> d.s.ready, deferred |-> d.s.deferred,
               sets |-> d.s.sets, cursors |-> d.s.cursors, committed |-> d.s.committed,
               refused |-> d.s.refused]
    BY <1>4, Zenon DEF SchType
  <2>2. e = [s |-> t, out |-> d.out, defer |-> d.defer]
    BY <1>5, <1>9, <2>1, Zenon DEF Drop
  <2>3. e.s = t /\ e.out = d.out /\ e.defer = d.defer
    BY <2>2
  <2>4. /\ t.meta = d.s.meta /\ t.sets = d.s.sets /\ t.deferred = d.s.deferred
        /\ t.refused = d.s.refused \cup {b}
    OBVIOUS
  <2>5. SchType(t)
    BY <1>4 DEF SchType
  <2> HIDE DEF t, e, b
  <2>6. ASSUME NEW x \in DOMAIN s.meta,
               d.s.meta[x].status \in {"Accepted", "ResolvedWinner"}
        PROVE  x \in t.refused \/ Left(x, k + 1) \/ \E p \in e.defer : p[2] = x
    <3> HIDE DEF Left
    <3> QED BY <1>2, <2>3, <2>4, <2>6, Zenon DEF TurnInv, Left
  <2> QED BY <2>2, <2>3, <2>4, <2>5, <2>6, Zenon DEF TurnInv, e, b
<1>10. \/ e = d /\ (b \notin DOMAIN d.s.meta \/ d.s.meta[b].status \in Over)
       \/ b \in DOMAIN d.s.meta /\ e = HandOut(d, b)
       \/ \E a : e = Defer(d, a, b)
       \/ e = Drop(d, b)
  <2> HIDE DEF b
  <2> QED BY <1>3, TurnCases, Zenon
<1> QED BY <1>6, <1>7, <1>8, <1>9, <1>10, Zenon
\* A drain starts in that state.
LEMMA TurnStart ==
    ASSUME NEW s, GoodSch(s)
    PROVE  TurnInv([s |-> [s EXCEPT !.ready = <<>>], out |-> <<>>, defer |-> {}], s, 0)
<1> DEFINE t == [s EXCEPT !.ready = <<>>]
           d == [s |-> t, out |-> <<>>, defer |-> {}]
<1>1. SchType(s) /\ SchedulerOK(s)
  BY DEF GoodSch
<1>2. t = [meta |-> s.meta, ready |-> <<>>, deferred |-> s.deferred, sets |-> s.sets,
           cursors |-> s.cursors, committed |-> s.committed, refused |-> s.refused]
  BY <1>1 DEF SchType
<1>3. /\ t.meta = s.meta /\ t.ready = <<>> /\ t.deferred = s.deferred /\ t.sets = s.sets
      /\ t.cursors = s.cursors /\ t.committed = s.committed /\ t.refused = s.refused
  <2> HIDE DEF t
  <2> QED BY <1>2
<1>4. d.s = t /\ d.out = <<>> /\ d.defer = {}
  <2> HIDE DEF t
  <2> QED OBVIOUS
<1>5. <<>> \in Seq(Block) /\ Len(s.ready) \in Nat
  BY <1>1 DEF SchType
<1> HIDE DEF t
<1>6. SchType(t)
  BY <1>1, <1>2, <1>3, <1>5, Zenon DEF SchType
<1>7. d = [s |-> d.s, out |-> d.out, defer |-> d.defer]
  OBVIOUS
<1> HIDE DEF d
<1>8. ASSUME NEW b \in DOMAIN s.meta, \E i \in 1..Len(s.ready) : s.ready[i] = b
      PROVE  \E i \in 1..Len(s.ready) : 0 < i /\ s.ready[i] = b
  BY <1>5, <1>8
<1>9. /\ d.s.meta = s.meta /\ d.s.deferred = s.deferred /\ d.s.sets = s.sets
      /\ d.s.refused = s.refused /\ SchType(d.s) /\ d.out \in Seq(Block)
  BY <1>3, <1>4, <1>5, <1>6, Zenon
<1>10. ASSUME NEW b \in DOMAIN s.meta
       PROVE  /\ s.meta[b].status # "Conflicting"
              /\ s.meta[b].status \in {"Accepted", "ResolvedWinner"} =>
                   \/ b \in s.refused
                   \/ \E i \in 1..Len(s.ready) : 0 < i /\ s.ready[i] = b
                   \/ \E p \in d.defer : p[2] = b
              /\ s.meta[b].status = "Deferred" => \E p \in s.deferred : p[2] = b
  BY <1>1, <1>8, Zenon DEF SchedulerOK
<1>11. TurnInv(d, s, 0)
  BY <1>7, <1>9, <1>10, Zenon DEF TurnInv
<1> QED BY <1>11 DEF d, t

\* A drain leaves the scheduler good and hands out blocks.
LEMMA DrainGood ==
    ASSUME NEW s, GoodSch(s), NEW nonces
    PROVE  GoodSch(DrainReady(s, nonces).s) /\ DrainReady(s, nonces).out \in Seq(Block)
<1> DEFINE n == Len(s.ready)
<1>1. n \in Nat
  BY DEF GoodSch, SchType
<1>2. PICK turn : IsTurns(turn, n, s, nonces) /\ DrainReady(s, nonces) = Closed(turn[n])
  BY <1>1, DrainTurns, Zenon
<1> DEFINE S == {k \in Nat : k \in 0..n => TurnInv(turn[k], s, k)}
<1>3. 0 \in S
  <2>1. turn[0] = [s |-> [s EXCEPT !.ready = <<>>], out |-> <<>>, defer |-> {}]
    BY <1>1, <1>2 DEF IsTurns
  <2> QED BY <2>1, TurnStart, Zenon
<1>4. ASSUME NEW k \in Nat, k \in S PROVE k + 1 \in S
  <2>1. SUFFICES ASSUME k + 1 \in 0..n PROVE TurnInv(turn[k + 1], s, k + 1)
    OBVIOUS
  <2>2. k \in 0..n /\ k + 1 \in 1..n /\ (k + 1) - 1 = k /\ k + 1 # 0
    BY <1>1, <2>1
  <2>3. TurnInv(turn[k], s, k)
    BY <1>4, <2>2
  <2>4. turn[k + 1] = DrainOne(turn[k], nonces, s.ready[k + 1])
    BY <1>2, <2>1, <2>2, Zenon DEF IsTurns
  <2> QED BY <2>2, <2>3, <2>4, TurnKeeps, Zenon
<1>5. TurnInv(turn[n], s, n)
  <2> HIDE DEF S
  <2>1. n \in S
    BY <1>1, <1>3, <1>4, SetInduction, Zenon
  <2>2. n \in 0..n
    BY <1>1
  <2> QED BY <2>1, <2>2 DEF S
<1> DEFINE d == turn[n]
           late == {p[2] : p \in d.defer}
           m == [b \in DOMAIN d.s.meta |->
                   IF b \in late THEN [d.s.meta[b] EXCEPT !.status = "Deferred"]
                   ELSE d.s.meta[b]]
           t == [meta |-> m, ready |-> d.s.ready, deferred |-> d.s.deferred \cup d.defer,
                 sets |-> d.s.sets, cursors |-> d.s.cursors, committed |-> d.s.committed,
                 refused |-> d.s.refused]
<1>6. SchType(d.s)
  BY <1>5, Zenon DEF TurnInv
<1>7. Closed(d) = [s |-> t, out |-> d.out]
  <2> DEFINE u == [d.s EXCEPT !.meta = m]
  <2>1. Closed(d) = [s |-> [u EXCEPT !.deferred = d.s.deferred \cup d.defer], out |-> d.out]
    BY Zenon DEF Closed
  <2>2. u = [meta |-> m, ready |-> d.s.ready, deferred |-> d.s.deferred, sets |-> d.s.sets,
             cursors |-> d.s.cursors, committed |-> d.s.committed, refused |-> d.s.refused]
    <3> HIDE DEF d, m
    <3> QED BY <1>6 DEF SchType
  <2>3. [u EXCEPT !.deferred = d.s.deferred \cup d.defer] = t
    <3> HIDE DEF d, m, u
    <3> QED BY <2>2, SMTT(60)
  <2> QED BY <2>1, <2>3, Zenon
<1> HIDE DEF d
<1>8. IsMeta(m) /\ DOMAIN m = DOMAIN d.s.meta
  BY <1>6, Zenon DEF SchType, IsMeta
<1>9. \A b \in DOMAIN m :
        /\ b \in late => m[b].status = "Deferred"
        /\ b \notin late => m[b].status = d.s.meta[b].status
  BY <1>6 DEF SchType, IsMeta
<1>10. \A b \in late : \E p \in d.defer : p[2] = b
  OBVIOUS
<1>11. \A b : (\E p \in d.defer : p[2] = b) => b \in late
  OBVIOUS
<1> HIDE DEF m, late
<1>12. /\ t.meta = m /\ t.ready = d.s.ready /\ t.deferred = d.s.deferred \cup d.defer
       /\ t.sets = d.s.sets /\ t.cursors = d.s.cursors /\ t.committed = d.s.committed
       /\ t.refused = d.s.refused
       /\ t = [meta |-> t.meta, ready |-> t.ready, deferred |-> t.deferred, sets |-> t.sets,
               cursors |-> t.cursors, committed |-> t.committed, refused |-> t.refused]
  OBVIOUS
<1> HIDE DEF t
<1>13. SchType(t)
  BY <1>6, <1>8, <1>12, Zenon DEF SchType
<1>14. SchedulerOK(t)
  <2>1. \A c \in t.sets : c.resolved /\ c.winner = ChooseWinner(c.members)
    BY <1>5, <1>12, ZenonT(60) DEF TurnInv, GoodSch, SchedulerOK, d
  <2>2. ASSUME NEW b \in DOMAIN m
        PROVE  /\ m[b].status # "Conflicting"
               /\ m[b].status \in {"Accepted", "ResolvedWinner"} => b \in t.refused
               /\ m[b].status = "Deferred" => \E p \in t.deferred : p[2] = b
    <3>0. b \in DOMAIN s.meta
      BY <1>5, <1>8, Zenon DEF TurnInv, d
    <3>1. CASE b \in late
      <4>1. m[b].status = "Deferred" /\ \E p \in t.deferred : p[2] = b
        BY <1>9, <1>10, <1>12, <3>1, Zenon
      <4> QED BY <4>1
    <3>2. CASE b \notin late
      <4>1. m[b].status = d.s.meta[b].status
        BY <1>9, <3>2, Zenon
      <4>2. ~ \E i \in 1..Len(s.ready) : n < i /\ s.ready[i] = b
        BY <1>1
      <4>3. ~ \E p \in d.defer : p[2] = b
        BY <1>11, <3>2, Zenon
      <4>4. d.s.deferred = s.deferred
        BY <1>5, Zenon DEF TurnInv, d
      <4> QED BY <1>5, <1>12, <3>0, <4>1, <4>2, <4>3, <4>4, ZenonT(60) DEF TurnInv, d
    <3> QED BY <3>1, <3>2
  <2> QED BY <1>12, <2>1, <2>2, Zenon DEF SchedulerOK
<1>15. DrainReady(s, nonces).s = t /\ DrainReady(s, nonces).out = d.out
  BY <1>2, <1>7 DEF d
<1>16. d.out \in Seq(Block)
  BY <1>5, Zenon DEF TurnInv, d
<1> QED BY <1>13, <1>14, <1>15, <1>16, Zenon DEF GoodSch
\* wake_deferred leaves the scheduler good: what it takes from the deferred blocks
\* it queues.
LEMMA WakeGood ==
    ASSUME NEW s, GoodSch(s), NEW nonces, NEW w \in WakeDeferred(s, nonces)
    PROVE  GoodSch(w)
<1> DEFINE woken == {p[2] : p \in {q \in s.deferred :
                       /\ q[2] \in DOMAIN s.meta
                       /\ <<q[1], Expected(s, nonces, q[1])>> \in ConflictKeys(q[2])}}
           m == [b \in DOMAIN s.meta |->
                   IF b \in woken THEN [s.meta[b] EXCEPT !.status = "Accepted"] ELSE s.meta[b]]
           left == {p \in s.deferred : p[2] \notin woken}
<1>1. SchType(s) /\ SchedulerOK(s)
  BY DEF GoodSch
<1>2. woken \in SUBSET DOMAIN s.meta
  BY Zenon
<1>3. IsFiniteSet(woken) /\ woken \subseteq Block
  <2> HIDE DEF woken
  <2>1. IsFiniteSet(DOMAIN s.meta) /\ DOMAIN s.meta \subseteq Block
    BY <1>1, Zenon DEF SchType
  <2>2. IsFiniteSet(woken)
    BY <1>2, <2>1, FS_Subset, Zenon
  <2> QED BY <1>2, <2>1, <2>2, Zenon
<1>4. PICK o \in Orders(woken) :
        w = [[[s EXCEPT !.meta = m] EXCEPT !.ready = s.ready \o o] EXCEPT !.deferred = left]
  BY Zenon DEF WakeDeferred
<1> HIDE DEF woken
<1>5. IsMeta(m) /\ DOMAIN m = DOMAIN s.meta
  BY <1>1 DEF SchType, IsMeta
<1>6. \A b \in DOMAIN m :
        /\ b \in woken => m[b].status = "Accepted"
        /\ b \notin woken => m[b].status = s.meta[b].status
  BY <1>1 DEF SchType, IsMeta
<1> HIDE DEF m, left
<1>7. w = [meta |-> m, ready |-> s.ready \o o, deferred |-> left, sets |-> s.sets,
           cursors |-> s.cursors, committed |-> s.committed, refused |-> s.refused]
  <2> DEFINE u == [s EXCEPT !.meta = m]
             v == [u EXCEPT !.ready = s.ready \o o]
  <2>1. u = [meta |-> m, ready |-> s.ready, deferred |-> s.deferred, sets |-> s.sets,
             cursors |-> s.cursors, committed |-> s.committed, refused |-> s.refused]
    BY <1>1 DEF SchType
  <2>2. v = [meta |-> m, ready |-> s.ready \o o, deferred |-> s.deferred, sets |-> s.sets,
             cursors |-> s.cursors, committed |-> s.committed, refused |-> s.refused]
    <3> DEFINE q == s.ready \o o
    <3> HIDE DEF u, q
    <3>1. [u EXCEPT !.ready = q] =
            [meta |-> m, ready |-> q, deferred |-> s.deferred, sets |-> s.sets,
             cursors |-> s.cursors, committed |-> s.committed, refused |-> s.refused]
      BY <2>1
    <3> QED BY <3>1 DEF q
  <2>3. w = [v EXCEPT !.deferred = left]
    BY <1>4, Zenon
  <2> HIDE DEF v
  <2> QED BY <2>2, <2>3, Zenon
<1>8. /\ w.meta = m /\ w.ready = s.ready \o o /\ w.deferred = left
      /\ w.sets = s.sets /\ w.cursors = s.cursors /\ w.committed = s.committed
      /\ w.refused = s.refused
      /\ w = [meta |-> w.meta, ready |-> w.ready, deferred |-> w.deferred, sets |-> w.sets,
              cursors |-> w.cursors, committed |-> w.committed, refused |-> w.refused]
  BY <1>7
<1> DEFINE n == Cardinality(woken)
<1>9. n \in Nat /\ o \in [1..n -> woken] /\ \A x \in woken : \E i \in 1..n : o[i] = x
  BY <1>3, OrdersVisitAll, Zenon
<1> HIDE DEF n
<1>10. o \in Seq(Block) /\ Len(o) = n
  BY <1>3, <1>9
<1>11. s.ready \in Seq(Block) /\ s.ready \o o \in Seq(Block)
  BY <1>1, <1>10 DEF SchType
<1>12. ASSUME NEW b, \E i \in 1..Len(s.ready) : s.ready[i] = b
       PROVE  \E i \in 1..Len(w.ready) : w.ready[i] = b
  BY <1>8, <1>10, <1>11, <1>12
<1>13. ASSUME NEW b \in woken
       PROVE  \E i \in 1..Len(w.ready) : w.ready[i] = b
  <2>1. PICK i \in 1..n : o[i] = b
    BY <1>9
  <2>2. /\ Len(s.ready) \in Nat /\ Len(s.ready) + i \in 1..Len(s.ready \o o)
        /\ (s.ready \o o)[Len(s.ready) + i] = o[i]
    BY <1>9, <1>10, <1>11, <2>1
  <2> QED BY <1>8, <2>1, <2>2, Zenon
<1>14. SchType(w)
  BY <1>1, <1>5, <1>8, <1>11, Zenon DEF SchType
<1>15. ASSUME NEW b \in DOMAIN m
       PROVE  /\ m[b].status # "Conflicting"
              /\ m[b].status \in {"Accepted", "ResolvedWinner"} =>
                   b \in s.refused \/ \E i \in 1..Len(w.ready) : w.ready[i] = b
              /\ m[b].status = "Deferred" => \E p \in left : p[2] = b
  <2>1. CASE b \in woken
    BY <1>6, <1>13, <2>1
  <2>2. CASE b \notin woken
    <3>1. m[b].status = s.meta[b].status /\ b \in DOMAIN s.meta
      BY <1>5, <1>6, <2>2, Zenon
    <3>2. (\E p \in s.deferred : p[2] = b) => \E p \in left : p[2] = b
      BY <2>2 DEF left
    <3> QED BY <1>1, <1>12, <3>1, <3>2, Zenon DEF SchedulerOK
  <2> QED BY <2>1, <2>2
<1>16. SchedulerOK(w)
  BY <1>1, <1>8, <1>15, Zenon DEF SchedulerOK
<1> QED BY <1>14, <1>16 DEF GoodSch

\* gc leaves the scheduler good.
LEMMA GcGood ==
    ASSUME NEW s, GoodSch(s), NEW keep
    PROVE  GoodSch(Gc(s, keep))
<1> DEFINE gone == {b \in DOMAIN s.meta : HeightOf[b] < keep /\ s.meta[b].status \in Over}
           left == DOMAIN s.meta \ gone
           m == [b \in left |-> s.meta[b]]
           kept == {c \in s.sets : ~c.resolved \/ c.members \cap left # {}}
           g == Gc(s, keep)
<1>1. SchType(s) /\ SchedulerOK(s)
  BY DEF GoodSch
<1>2. g = [[[s EXCEPT !.meta = m] EXCEPT !.committed = s.committed \ gone] EXCEPT !.sets = kept]
  BY Zenon DEF Gc
<1>3. left \in SUBSET DOMAIN s.meta /\ kept \in SUBSET s.sets
  OBVIOUS
<1> HIDE DEF gone, left, kept
<1>4. IsMeta(m) /\ DOMAIN m = left /\ \A b \in left : m[b].status = s.meta[b].status
  BY <1>1, <1>3 DEF SchType, IsMeta
<1> HIDE DEF m
<1>5. g = [meta |-> m, ready |-> s.ready, deferred |-> s.deferred, sets |-> kept,
           cursors |-> s.cursors, committed |-> s.committed \ gone, refused |-> s.refused]
  <2> DEFINE u == [s EXCEPT !.meta = m]
             v == [u EXCEPT !.committed = s.committed \ gone]
  <2>1. u = [meta |-> m, ready |-> s.ready, deferred |-> s.deferred, sets |-> s.sets,
             cursors |-> s.cursors, committed |-> s.committed, refused |-> s.refused]
    BY <1>1 DEF SchType
  <2>2. v = [meta |-> m, ready |-> s.ready, deferred |-> s.deferred, sets |-> s.sets,
             cursors |-> s.cursors, committed |-> s.committed \ gone, refused |-> s.refused]
    <3> HIDE DEF u
    <3> QED BY <2>1
  <2>3. g = [v EXCEPT !.sets = kept]
    BY <1>2, Zenon
  <2> HIDE DEF v, g
  <2> QED BY <2>2, <2>3
<1> HIDE DEF g
<1>6. /\ g.meta = m /\ g.ready = s.ready /\ g.deferred = s.deferred
      /\ g.sets = kept /\ g.cursors = s.cursors /\ g.committed = s.committed \ gone
      /\ g.refused = s.refused
      /\ g = [meta |-> g.meta, ready |-> g.ready, deferred |-> g.deferred, sets |-> g.sets,
              cursors |-> g.cursors, committed |-> g.committed, refused |-> g.refused]
  BY <1>5
<1>7. IsFiniteSet(left) /\ IsFiniteSet(kept)
  BY <1>1, <1>3, FS_Subset, Zenon DEF SchType
<1>8. SchType(g)
  BY <1>1, <1>3, <1>4, <1>6, <1>7, Zenon DEF SchType
<1>9. SchedulerOK(g)
  <2>1. ASSUME NEW b \in left
        PROVE  b \in DOMAIN s.meta /\ g.meta[b].status = s.meta[b].status
    BY <1>3, <1>4, <1>6
  <2>2. DOMAIN g.meta = left
    BY <1>4, <1>6, Zenon
  <2>3. \A c \in g.sets : c.resolved /\ c.winner = ChooseWinner(c.members)
    BY <1>1, <1>3, <1>6, Zenon DEF SchedulerOK
  <2>4. ASSUME NEW b \in left
        PROVE  /\ g.meta[b].status # "Conflicting"
               /\ g.meta[b].status \in {"Accepted", "ResolvedWinner"} =>
                    b \in g.refused \/ \E i \in 1..Len(g.ready) : g.ready[i] = b
               /\ g.meta[b].status = "Deferred" => \E p \in g.deferred : p[2] = b
    <3>1. g.ready = s.ready /\ g.deferred = s.deferred /\ g.refused = s.refused
      BY <1>6
    <3>2. b \in DOMAIN s.meta /\ g.meta[b].status = s.meta[b].status
      BY <2>1, Zenon
    <3>3. /\ s.meta[b].status # "Conflicting"
          /\ s.meta[b].status \in {"Accepted", "ResolvedWinner"} =>
               b \in s.refused \/ \E i \in 1..Len(s.ready) : s.ready[i] = b
          /\ s.meta[b].status = "Deferred" => \E p \in s.deferred : p[2] = b
      BY <1>1, <3>2, Zenon DEF SchedulerOK
    <3> QED BY <3>1, <3>2, <3>3
  <2> QED BY <2>2, <2>3, <2>4, Zenon DEF SchedulerOK
<1> QED BY <1>8, <1>9 DEF GoodSch, g
\* admit_block in its steps: the keys shared with rivals, the sets they join, the
\* block entered, and the resolution of its sets in an order o.
Shared(s, b) ==
    LET rivals == {e \in DOMAIN s.meta \ {b} : s.meta[e].status \notin Over}
    IN  {pair \in ConflictKeys(b) \X rivals : pair[1] \in ConflictKeys(pair[2])}

Pairs(s, b) == CHOOSE o \in Orders(Shared(s, b)) : TRUE

IsJoining(f, n, s, pairs, b) ==
    f = [k \in 0..n |-> IF k = 0 THEN s
                        ELSE FindOrCreate(f[k - 1], pairs[k][1], pairs[k][2], b)]

Joined(s, b) ==
    (CHOOSE f : IsJoining(f, Cardinality(Shared(s, b)), s, Pairs(s, b), b))
        [Cardinality(Shared(s, b))]

Entered(s, b, diff) ==
    LET s2 == WithMeta(Joined(s, b), b,
                       [status |-> IF Shared(s, b) = {} THEN "Accepted" ELSE "Conflicting",
                        diff |-> diff])
    IN  IF Shared(s, b) = {} THEN [s2 EXCEPT !.ready = Append(@, b)] ELSE s2

IsResolving(f, n, s, o) ==
    f = [k \in 0..n |-> IF k = 0 THEN s ELSE TryResolve(f[k - 1], o[k])]

Resolution(s, mine, o) ==
    (CHOOSE f : IsResolving(f, Cardinality(mine), s, o))[Cardinality(mine)]

\* An admission in these steps.
LEMMA AdmitSteps ==
    ASSUME NEW s, NEW b, NEW diff
    PROVE  AdmitBlock(s, b, diff) =
             IF Known(s, b) THEN {s}
             ELSE {Resolution(Entered(s, b, diff), SetsOf(Joined(s, b), b), o) :
                     o \in Orders(SetsOf(Joined(s, b), b))}
BY Zenon DEF AdmitBlock, Shared, Pairs, IsJoining, Joined, Entered, IsResolving, Resolution

\* The loop over the shared keys is well defined.
LEMMA JoiningDefined ==
    ASSUME NEW s, NEW pairs, NEW b
    PROVE  \A n \in Nat : \E f : IsJoining(f, n, s, pairs, b)
<1> DEFINE B(f, n) == [k \in 0..n |-> IF k = 0 THEN s
                                      ELSE FindOrCreate(f[k - 1], pairs[k][1], pairs[k][2], b)]
           S == {n \in Nat : \E f : f = B(f, n)}
<1>0. \A f, n : IsJoining(f, n, s, pairs, b) <=> f = B(f, n)
  BY Zenon DEF IsJoining
<1>1. 0 \in S
  <2> DEFINE f == [k \in 0..0 |-> s]
  <2>1. f = B(f, 0)
    OBVIOUS
  <2> QED BY <2>1, Zenon
<1>2. ASSUME NEW n \in Nat, n \in S PROVE n + 1 \in S
  <2>1. PICK f : f = B(f, n)
    BY <1>2
  <2> DEFINE g == [k \in 0..(n + 1) |->
                      IF k <= n THEN f[k]
                      ELSE FindOrCreate(f[n], pairs[n + 1][1], pairs[n + 1][2], b)]
  <2>2. ASSUME NEW k \in 0..(n + 1)
        PROVE  g[k] = IF k = 0 THEN s
                      ELSE FindOrCreate(g[k - 1], pairs[k][1], pairs[k][2], b)
    <3>1. CASE k = 0
      BY <2>1, <3>1
    <3>2. CASE k = n + 1
      <4>1. k - 1 = n /\ n \in 0..(n + 1) /\ ~(n + 1 <= n) /\ n <= n
        BY <3>2
      <4>2. g[n] = f[n]
        BY <4>1
      <4> QED BY <3>2, <4>1, <4>2
    <3>3. CASE k # 0 /\ k # n + 1
      <4>1. k \in 0..n /\ k - 1 \in 0..(n + 1) /\ k - 1 <= n /\ k <= n
        BY <3>3
      <4>2. g[k] = f[k] /\ g[k - 1] = f[k - 1]
        BY <4>1
      <4>3. f[k] = FindOrCreate(f[k - 1], pairs[k][1], pairs[k][2], b)
        BY <2>1, <3>3, <4>1
      <4> QED BY <3>3, <4>2, <4>3
    <3> QED BY <3>1, <3>2, <3>3
  <2>3. g = B(g, n + 1)
    BY <2>2
  <2>4. \E h : h = B(h, n + 1)
    BY <2>3, Zenon
  <2> QED BY <2>4
<1> HIDE DEF S
<1>3. \A n \in Nat : n \in S
  BY <1>1, <1>2, SetInduction, Zenon
<1>4. \A n \in Nat : \E f : f = B(f, n)
  BY <1>3, Zenon DEF S
<1> HIDE DEF B
<1> QED BY <1>0, <1>4, Zenon

\* The loop over the block's sets is well defined.
LEMMA ResolvingDefined ==
    ASSUME NEW s, NEW o
    PROVE  \A n \in Nat : \E f : IsResolving(f, n, s, o)
<1> DEFINE B(f, n) == [k \in 0..n |-> IF k = 0 THEN s ELSE TryResolve(f[k - 1], o[k])]
           S == {n \in Nat : \E f : f = B(f, n)}
<1>0. \A f, n : IsResolving(f, n, s, o) <=> f = B(f, n)
  BY Zenon DEF IsResolving
<1>1. 0 \in S
  <2> DEFINE f == [k \in 0..0 |-> s]
  <2>1. f = B(f, 0)
    OBVIOUS
  <2> QED BY <2>1, Zenon
<1>2. ASSUME NEW n \in Nat, n \in S PROVE n + 1 \in S
  <2>1. PICK f : f = B(f, n)
    BY <1>2
  <2> DEFINE g == [k \in 0..(n + 1) |-> IF k <= n THEN f[k] ELSE TryResolve(f[n], o[n + 1])]
  <2>2. ASSUME NEW k \in 0..(n + 1)
        PROVE  g[k] = IF k = 0 THEN s ELSE TryResolve(g[k - 1], o[k])
    <3>1. CASE k = 0
      BY <2>1, <3>1
    <3>2. CASE k = n + 1
      <4>1. k - 1 = n /\ n \in 0..(n + 1) /\ ~(n + 1 <= n) /\ n <= n
        BY <3>2
      <4>2. g[n] = f[n]
        BY <4>1
      <4> QED BY <3>2, <4>1, <4>2
    <3>3. CASE k # 0 /\ k # n + 1
      <4>1. k \in 0..n /\ k - 1 \in 0..(n + 1) /\ k - 1 <= n /\ k <= n
        BY <3>3
      <4>2. g[k] = f[k] /\ g[k - 1] = f[k - 1]
        BY <4>1
      <4>3. f[k] = TryResolve(f[k - 1], o[k])
        BY <2>1, <3>3, <4>1
      <4> QED BY <3>3, <4>2, <4>3
    <3> QED BY <3>1, <3>2, <3>3
  <2>3. g = B(g, n + 1)
    BY <2>2
  <2>4. \E h : h = B(h, n + 1)
    BY <2>3, Zenon
  <2> QED BY <2>4
<1> HIDE DEF S
<1>3. \A n \in Nat : n \in S
  BY <1>1, <1>2, SetInduction, Zenon
<1>4. \A n \in Nat : \E f : f = B(f, n)
  BY <1>3, Zenon DEF S
<1> HIDE DEF B
<1> QED BY <1>0, <1>4, Zenon
\* A set that an admission of b opens: b against a rival, all of them known.
OpenSet(c, s, b) ==
    /\ IsConflictSet(c)
    /\ ~c.resolved
    /\ b \in c.members
    /\ c.members \subseteq DOMAIN s.meta \cup {b}
    /\ \E e \in c.members : e # b

\* While an admission of b joins sets, only sets change, and the ones that were not
\* there before are open.
JoinInv(j, s, b) ==
    /\ SchType(j)
    /\ j.meta = s.meta /\ j.ready = s.ready /\ j.deferred = s.deferred
    /\ j.cursors = s.cursors /\ j.committed = s.committed /\ j.refused = s.refused
    /\ \A c \in j.sets : c \in s.sets \/ OpenSet(c, s, b)

\* A scheduler with other sets.
LEMMA WithSets ==
    ASSUME NEW j, SchType(j), NEW sets, IsFiniteSet(sets),
           \A c \in sets : IsConflictSet(c)
    PROVE  LET r == [j EXCEPT !.sets = sets] IN
           /\ SchType(r) /\ r.sets = sets
           /\ r.meta = j.meta /\ r.ready = j.ready /\ r.deferred = j.deferred
           /\ r.cursors = j.cursors /\ r.committed = j.committed /\ r.refused = j.refused
<1> DEFINE r == [j EXCEPT !.sets = sets]
<1>1. r = [meta |-> j.meta, ready |-> j.ready, deferred |-> j.deferred, sets |-> sets,
           cursors |-> j.cursors, committed |-> j.committed, refused |-> j.refused]
  BY DEF SchType
<1> HIDE DEF r
<1>2. /\ r.sets = sets
      /\ r.meta = j.meta /\ r.ready = j.ready /\ r.deferred = j.deferred
      /\ r.cursors = j.cursors /\ r.committed = j.committed /\ r.refused = j.refused
      /\ r = [meta |-> r.meta, ready |-> r.ready, deferred |-> r.deferred, sets |-> r.sets,
              cursors |-> r.cursors, committed |-> r.committed, refused |-> r.refused]
  BY <1>1
<1>3. SchType(r)
  BY <1>2, Zenon DEF SchType
<1> QED BY <1>2, <1>3, Zenon DEF r

\* find_or_create_conflict_set keeps that, and leaves an open set.
LEMMA JoinKeeps ==
    ASSUME NEW s, GoodSch(s), NEW b, NEW j, JoinInv(j, s, b),
           NEW key, NEW e \in DOMAIN s.meta, e # b
    PROVE  LET r == FindOrCreate(j, key, e, b) IN
           JoinInv(r, s, b) /\ \E c \in r.sets : OpenSet(c, s, b)
<1> DEFINE open == {c \in SetsOf(j, e) : c.key = key /\ ~c.resolved}
           found == CHOOSE c \in open : TRUE
           wider == [found EXCEPT !.members = found.members \cup {b}]
           fresh == [key |-> key, members |-> {e, b}, resolved |-> FALSE, winner |-> b]
           new == IF open # {} THEN wider ELSE fresh
           sets == (IF open # {} THEN j.sets \ {found} ELSE j.sets) \cup {new}
<1>1. FindOrCreate(j, key, e, b) = [j EXCEPT !.sets = sets]
  BY Zenon DEF FindOrCreate
<1>2. OpenSet(new, s, b)
  <2>1. CASE open # {}
    <3>1. found \in open
      BY <2>1, Zenon
    <3>2. found \in j.sets /\ ~found.resolved
      BY <3>1, Zenon DEF SetsOf
    <3>3. OpenSet(found, s, b)
      BY <3>2, Zenon DEF JoinInv, GoodSch, SchedulerOK
    <3> HIDE DEF found
    <3>4. wider = [key |-> found.key, members |-> found.members \cup {b},
                   resolved |-> found.resolved, winner |-> found.winner]
      BY <3>3 DEF OpenSet, IsConflictSet
    <3> HIDE DEF wider
    <3>5. /\ wider.resolved = found.resolved /\ wider.members = found.members \cup {b}
          /\ wider = [key |-> wider.key, members |-> wider.members,
                      resolved |-> wider.resolved, winner |-> wider.winner]
      BY <3>4
    <3>6. OpenSet(wider, s, b)
      BY <3>3, <3>5, Zenon DEF OpenSet, IsConflictSet
    <3> QED BY <2>1, <3>6
  <2>2. CASE open = {}
    <3>1. OpenSet(fresh, s, b)
      BY DEF OpenSet, IsConflictSet
    <3> QED BY <2>2, <3>1
  <2> QED BY <2>1, <2>2
<1>3. \A c \in sets : c \in j.sets \/ c = new
  <2> HIDE DEF new, open, found
  <2> QED OBVIOUS
<1>4. IsFiniteSet(sets)
  <2> HIDE DEF new, open, found
  <2>1. IsFiniteSet(j.sets)
    BY Zenon DEF JoinInv, SchType
  <2>2. IsFiniteSet(j.sets \ {found})
    BY <2>1, FS_RemoveElement, Zenon
  <2>3. IsFiniteSet(IF open # {} THEN j.sets \ {found} ELSE j.sets)
    BY <2>1, <2>2
  <2> QED BY <2>3, FS_AddElement, Zenon
<1>5. new \in sets
  <2> HIDE DEF new, open, found
  <2> QED OBVIOUS
<1> HIDE DEF sets, new
<1>6. \A c \in sets : IsConflictSet(c)
  BY <1>2, <1>3, Zenon DEF JoinInv, SchType, OpenSet
<1> DEFINE r == [j EXCEPT !.sets = sets]
<1>7. /\ SchType(r) /\ r.sets = sets
      /\ r.meta = j.meta /\ r.ready = j.ready /\ r.deferred = j.deferred
      /\ r.cursors = j.cursors /\ r.committed = j.committed /\ r.refused = j.refused
  BY <1>4, <1>6, WithSets, Zenon DEF JoinInv
<1> HIDE DEF r
<1>8. JoinInv(r, s, b)
  BY <1>2, <1>3, <1>7, Zenon DEF JoinInv
<1>9. \E c \in r.sets : OpenSet(c, s, b)
  BY <1>2, <1>5, <1>7, Zenon
<1> QED BY <1>1, <1>8, <1>9, Zenon DEF r
\* A block shares finitely many keys with its rivals, which are known blocks other
\* than itself.
LEMMA SharedFinite ==
    ASSUME NEW s, SchType(s), NEW b \in Block
    PROVE  /\ IsFiniteSet(Shared(s, b))
           /\ \A pair \in Shared(s, b) : pair[2] \in DOMAIN s.meta /\ pair[2] # b
<1> DEFINE rivals == {e \in DOMAIN s.meta \ {b} : s.meta[e].status \notin Over}
<1>1. Shared(s, b) \in SUBSET (ConflictKeys(b) \X rivals)
  BY DEF Shared
<1>2. IsFiniteSet(rivals)
  <2>1. rivals \in SUBSET DOMAIN s.meta /\ IsFiniteSet(DOMAIN s.meta)
    BY DEF SchType
  <2> HIDE DEF rivals
  <2> QED BY <2>1, FS_Subset, Zenon
<1>3. \A e \in rivals : e \in DOMAIN s.meta /\ e # b
  OBVIOUS
<1> HIDE DEF rivals
<1>4. IsFiniteSet(ConflictKeys(b) \X rivals)
  BY <1>2, FiniteKeys, FS_Product, Zenon
<1>5. IsFiniteSet(Shared(s, b))
  BY <1>1, <1>4, FS_Subset, Zenon
<1>6. \A pair \in Shared(s, b) : pair[2] \in rivals
  BY <1>1
<1> QED BY <1>3, <1>5, <1>6, Zenon

\* Joining the sets of an admission.
LEMMA JoinedGood ==
    ASSUME NEW s, GoodSch(s), NEW b \in Block
    PROVE  /\ JoinInv(Joined(s, b), s, b)
           /\ Shared(s, b) # {} => \E c \in Joined(s, b).sets : OpenSet(c, s, b)
<1> DEFINE n == Cardinality(Shared(s, b))
           pairs == Pairs(s, b)
           f == CHOOSE g : IsJoining(g, n, s, pairs, b)
<1>1. IsFiniteSet(Shared(s, b)) /\ n \in Nat
  BY SharedFinite, FS_CardinalityType, Zenon DEF GoodSch
<1>2. IsJoining(f, n, s, pairs, b) /\ Joined(s, b) = f[n]
  BY <1>1, JoiningDefined, Zenon DEF Joined
<1>3. pairs \in [1..n -> Shared(s, b)]
  <2>1. pairs \in Orders(Shared(s, b))
    BY <1>1, OrdersVisitAll, Zenon DEF Pairs
  <2> QED BY <1>1, <2>1, OrdersVisitAll, Zenon
<1> HIDE DEF n, pairs, f
<1>4. ASSUME NEW k \in 1..n, JoinInv(f[k - 1], s, b)
      PROVE  JoinInv(f[k], s, b) /\ \E c \in f[k].sets : OpenSet(c, s, b)
  <2>1. k \in 0..n /\ k # 0
    BY <1>1
  <2>2. f[k] = FindOrCreate(f[k - 1], pairs[k][1], pairs[k][2], b)
    BY <1>2, <2>1, Zenon DEF IsJoining
  <2>3. pairs[k] \in Shared(s, b)
    BY <1>3
  <2>4. pairs[k][2] \in DOMAIN s.meta /\ pairs[k][2] # b
    BY <2>3, SharedFinite, Zenon DEF GoodSch
  <2> QED BY <1>4, <2>2, <2>4, JoinKeeps, Zenon
<1> DEFINE S == {k \in Nat : k \in 0..n => JoinInv(f[k], s, b)}
<1>5. 0 \in S
  <2>1. f[0] = s
    BY <1>1, <1>2 DEF IsJoining
  <2>2. JoinInv(s, s, b)
    BY Zenon DEF JoinInv, GoodSch
  <2> QED BY <2>1, <2>2
<1>6. ASSUME NEW k \in Nat, k \in S PROVE k + 1 \in S
  <2>1. SUFFICES ASSUME k + 1 \in 0..n PROVE JoinInv(f[k + 1], s, b)
    OBVIOUS
  <2>2. k \in 0..n /\ k + 1 \in 1..n /\ (k + 1) - 1 = k
    BY <1>1, <2>1
  <2>3. JoinInv(f[(k + 1) - 1], s, b)
    BY <1>6, <2>2
  <2> QED BY <1>4, <2>2, <2>3
<1>7. \A k \in 0..n : JoinInv(f[k], s, b)
  <2> HIDE DEF S
  <2>1. \A k \in Nat : k \in S
    BY <1>5, <1>6, SetInduction, Zenon
  <2>2. \A k \in 0..n : k \in Nat
    BY <1>1
  <2> QED BY <2>1, <2>2 DEF S
<1>8. ASSUME Shared(s, b) # {} PROVE \E c \in f[n].sets : OpenSet(c, s, b)
  <2>1. n # 0
    BY <1>1, <1>8, FS_EmptySet, Zenon DEF n
  <2>2. n \in 1..n /\ n - 1 \in 0..n
    BY <1>1, <2>1
  <2> QED BY <1>4, <1>7, <2>2, Zenon
<1>9. n \in 0..n
  BY <1>1
<1> QED BY <1>2, <1>7, <1>8, <1>9, Zenon
\* A scheduler with other blocks.
LEMMA WithBlocks ==
    ASSUME NEW j, SchType(j), NEW m, IsMeta(m), DOMAIN m \subseteq Block, IsFiniteSet(DOMAIN m)
    PROVE  LET r == [j EXCEPT !.meta = m] IN
           /\ SchType(r) /\ r.meta = m
           /\ r.sets = j.sets /\ r.ready = j.ready /\ r.deferred = j.deferred
           /\ r.cursors = j.cursors /\ r.committed = j.committed /\ r.refused = j.refused
<1> DEFINE r == [j EXCEPT !.meta = m]
<1>1. r = [meta |-> m, ready |-> j.ready, deferred |-> j.deferred, sets |-> j.sets,
           cursors |-> j.cursors, committed |-> j.committed, refused |-> j.refused]
  BY DEF SchType
<1> HIDE DEF r
<1>2. /\ r.meta = m
      /\ r.sets = j.sets /\ r.ready = j.ready /\ r.deferred = j.deferred
      /\ r.cursors = j.cursors /\ r.committed = j.committed /\ r.refused = j.refused
      /\ r = [meta |-> r.meta, ready |-> r.ready, deferred |-> r.deferred, sets |-> r.sets,
              cursors |-> r.cursors, committed |-> r.committed, refused |-> r.refused]
  BY <1>1
<1>3. SchType(r)
  BY <1>2, Zenon DEF SchType
<1> QED BY <1>2, <1>3, Zenon DEF r

\* A scheduler with another queue.
LEMMA WithQueue ==
    ASSUME NEW j, SchType(j), NEW q \in Seq(Block)
    PROVE  LET r == [j EXCEPT !.ready = q] IN
           /\ SchType(r) /\ r.ready = q
           /\ r.sets = j.sets /\ r.meta = j.meta /\ r.deferred = j.deferred
           /\ r.cursors = j.cursors /\ r.committed = j.committed /\ r.refused = j.refused
<1> DEFINE r == [j EXCEPT !.ready = q]
<1>1. r = [meta |-> j.meta, ready |-> q, deferred |-> j.deferred, sets |-> j.sets,
           cursors |-> j.cursors, committed |-> j.committed, refused |-> j.refused]
  BY DEF SchType
<1> HIDE DEF r
<1>2. /\ r.ready = q
      /\ r.sets = j.sets /\ r.meta = j.meta /\ r.deferred = j.deferred
      /\ r.cursors = j.cursors /\ r.committed = j.committed /\ r.refused = j.refused
      /\ r = [meta |-> r.meta, ready |-> r.ready, deferred |-> r.deferred, sets |-> r.sets,
              cursors |-> r.cursors, committed |-> r.committed, refused |-> r.refused]
  BY <1>1
<1>3. SchType(r)
  BY <1>2, Zenon DEF SchType
<1> QED BY <1>2, <1>3, Zenon DEF r

\* What is in a queue stays in it when a block is appended, and the block is in it.
LEMMA AppendKeeps ==
    ASSUME NEW q \in Seq(Block), NEW w \in Block
    PROVE  /\ Append(q, w) \in Seq(Block)
           /\ \E i \in 1..Len(Append(q, w)) : Append(q, w)[i] = w
           /\ \A e : (\E i \in 1..Len(q) : q[i] = e) =>
                        \E i \in 1..Len(Append(q, w)) : Append(q, w)[i] = e
<1>1. /\ Append(q, w) \in Seq(Block) /\ Len(q) \in Nat /\ Len(Append(q, w)) = Len(q) + 1
      /\ Append(q, w)[Len(q) + 1] = w /\ \A i \in 1..Len(q) : Append(q, w)[i] = q[i]
  OBVIOUS
<1>2. Len(q) + 1 \in 1..Len(Append(q, w)) /\ \A i \in 1..Len(q) : i \in 1..Len(Append(q, w))
  BY <1>1
<1> QED BY <1>1, <1>2, Zenon

InQueue(r, e) == \E i \in 1..Len(r.ready) : r.ready[i] = e

\* While an admission of b resolves its sets in the order o, after the first k of
\* them: the sets left open are among the rest, only b is in conflict and only as
\* long as a set of it is open, and no other block is stranded.
ResolveInv(r, s, b, mine, o, k) ==
    /\ SchType(r)
    /\ DOMAIN r.meta = DOMAIN s.meta \cup {b}
    /\ r.deferred = s.deferred /\ r.refused = s.refused
    /\ \A c \in r.sets : \/ c.resolved /\ c.winner = ChooseWinner(c.members)
                         \/ OpenSet(c, s, b) /\ c \in mine /\ \A i \in 1..k : o[i] # c
    /\ \A e \in DOMAIN r.meta :
          /\ r.meta[e].status = "Conflicting" =>
                e = b /\ \E c \in r.sets : ~c.resolved /\ b \in c.members
          /\ r.meta[e].status \in {"Accepted", "ResolvedWinner"} =>
                e \in r.refused \/ InQueue(r, e)
          /\ r.meta[e].status = "Deferred" => \E p \in r.deferred : p[2] = e

\* The block entered, that holds before the first resolution.
LEMMA EnteredGood ==
    ASSUME NEW s, GoodSch(s), NEW b \in Block, NEW diff, b \notin DOMAIN s.meta, NEW o
    PROVE  ResolveInv(Entered(s, b, diff), s, b, SetsOf(Joined(s, b), b), o, 0)
<1> DEFINE j == Joined(s, b)
           alone == Shared(s, b) = {}
           rec == [status |-> IF alone THEN "Accepted" ELSE "Conflicting", diff |-> diff]
           m == [x \in DOMAIN j.meta \cup {b} |-> IF x = b THEN rec ELSE j.meta[x]]
           u == [j EXCEPT !.meta = m]
           q == Append(u.ready, b)
           v == [u EXCEPT !.ready = q]
           r == Entered(s, b, diff)
<1>1. JoinInv(j, s, b) /\ (~alone => \E c \in j.sets : OpenSet(c, s, b))
  BY JoinedGood, Zenon
<1>2. r = IF alone THEN v ELSE u
  BY Zenon DEF Entered, WithMeta
<1> HIDE DEF j, alone, r
<1>3. SchType(j) /\ j.meta = s.meta /\ IsMeta(j.meta)
  BY <1>1, Zenon DEF JoinInv, SchType
<1>4. /\ IsMeta(m) /\ DOMAIN m = DOMAIN s.meta \cup {b}
      /\ m[b].status = IF alone THEN "Accepted" ELSE "Conflicting"
      /\ \A x \in DOMAIN s.meta : m[x].status = s.meta[x].status
  BY <1>3 DEF IsMeta
<1> HIDE DEF m
<1>5. DOMAIN m \subseteq Block /\ IsFiniteSet(DOMAIN m)
  <2>1. DOMAIN s.meta \subseteq Block /\ IsFiniteSet(DOMAIN s.meta)
    BY Zenon DEF GoodSch, SchType
  <2> QED BY <1>4, <2>1, FS_AddElement, Zenon
<1>6. /\ SchType(u) /\ u.meta = m
      /\ u.sets = j.sets /\ u.ready = j.ready /\ u.deferred = j.deferred
      /\ u.refused = j.refused
  <2>1. IsMeta(m)
    BY <1>4
  <2>2. /\ SchType(u) /\ u.meta = m
        /\ u.sets = j.sets /\ u.ready = j.ready /\ u.deferred = j.deferred
        /\ u.cursors = j.cursors /\ u.committed = j.committed /\ u.refused = j.refused
    BY <1>3, <1>5, <2>1, WithBlocks, Zenon
  <2> QED BY <2>2
<1> HIDE DEF u
<1>7. /\ q \in Seq(Block) /\ \E i \in 1..Len(q) : q[i] = b
      /\ \A e : (\E i \in 1..Len(u.ready) : u.ready[i] = e) => \E i \in 1..Len(q) : q[i] = e
  <2>1. u.ready \in Seq(Block)
    BY <1>6, Zenon DEF SchType
  <2> QED BY <2>1, AppendKeeps, ZenonT(60)
<1> HIDE DEF q
<1>8. /\ SchType(v) /\ v.ready = q /\ v.meta = m
      /\ v.sets = j.sets /\ v.deferred = j.deferred /\ v.refused = j.refused
  <2>1. SchType(u) /\ q \in Seq(Block)
    BY <1>6, <1>7
  <2>2. /\ SchType(v) /\ v.ready = q
        /\ v.sets = u.sets /\ v.meta = u.meta /\ v.deferred = u.deferred
        /\ v.cursors = u.cursors /\ v.committed = u.committed /\ v.refused = u.refused
    BY <2>1, WithQueue, Zenon
  <2> HIDE DEF v
  <2> QED BY <1>6, <2>2, Zenon
<1> HIDE DEF v
<1>9. /\ SchType(r) /\ r.meta = m
      /\ r.sets = j.sets /\ r.deferred = s.deferred /\ r.refused = s.refused
  BY <1>1, <1>2, <1>6, <1>8, Zenon DEF JoinInv
<1>10. \A e : (\E i \in 1..Len(s.ready) : s.ready[i] = e) => InQueue(r, e)
  <2>1. u.ready = s.ready
    BY <1>1, <1>6, Zenon DEF JoinInv
  <2>2. CASE alone
    <3>1. r.ready = q
      BY <1>2, <1>8, <2>2, Zenon
    <3> QED BY <1>7, <2>1, <3>1, Zenon DEF InQueue
  <2>3. CASE ~alone
    <3>1. r.ready = s.ready
      BY <1>2, <2>1, <2>3, Zenon
    <3> QED BY <3>1, Zenon DEF InQueue
  <2> QED BY <2>2, <2>3, Zenon
<1>11. alone => InQueue(r, b)
  BY <1>2, <1>7, <1>8, Zenon DEF InQueue
<1>12. ASSUME NEW c \in r.sets
       PROVE  \/ c.resolved /\ c.winner = ChooseWinner(c.members)
              \/ OpenSet(c, s, b) /\ c \in SetsOf(j, b) /\ \A i \in 1..0 : o[i] # c
  <2>1. \A i \in 1..0 : o[i] # c
    OBVIOUS
  <2>2. c \in s.sets \/ OpenSet(c, s, b)
    BY <1>1, <1>9, Zenon DEF JoinInv
  <2>3. OpenSet(c, s, b) => c \in SetsOf(j, b)
    BY <1>9, Zenon DEF OpenSet, SetsOf
  <2> QED BY <2>1, <2>2, <2>3, Zenon DEF GoodSch, SchedulerOK
<1>13. ASSUME NEW e \in DOMAIN m
       PROVE  /\ m[e].status = "Conflicting" =>
                   e = b /\ \E c \in r.sets : ~c.resolved /\ b \in c.members
              /\ m[e].status \in {"Accepted", "ResolvedWinner"} =>
                   e \in s.refused \/ InQueue(r, e)
              /\ m[e].status = "Deferred" => \E p \in s.deferred : p[2] = e
  <2>1. CASE e = b
    <3>1. ~alone => \E c \in r.sets : ~c.resolved /\ b \in c.members
      BY <1>1, <1>9, Zenon DEF OpenSet
    <3> QED BY <1>4, <1>11, <2>1, <3>1
  <2>2. CASE e # b
    <3>1. e \in DOMAIN s.meta /\ m[e].status = s.meta[e].status
      BY <1>4, <2>2, Zenon
    <3>2. /\ s.meta[e].status # "Conflicting"
          /\ s.meta[e].status \in {"Accepted", "ResolvedWinner"} =>
               e \in s.refused \/ \E i \in 1..Len(s.ready) : s.ready[i] = e
          /\ s.meta[e].status = "Deferred" => \E p \in s.deferred : p[2] = e
      BY <3>1, Zenon DEF GoodSch, SchedulerOK
    <3> QED BY <1>10, <3>1, <3>2, Zenon
  <2> QED BY <2>1, <2>2
<1>14. ResolveInv(r, s, b, SetsOf(j, b), o, 0)
  BY <1>4, <1>9, <1>12, <1>13, Zenon DEF ResolveInv
<1> QED BY <1>14 DEF r, j
\* The winner of a set, the set when it is resolved, and whether no set of the
\* winner is open then.
Winner(c) == ChooseWinner(c.members)

Done(c) == [c EXCEPT !.resolved = TRUE, !.winner = Winner(c)]

Settled(r, c) == \A d \in (r.sets \ {c}) \cup {Done(c)} : Winner(c) \in d.members => d.resolved

Verdicted(r, c, e) ==
    IF e = Winner(c) THEN IF Settled(r, c) THEN "ResolvedWinner" ELSE r.meta[e].status
    ELSE IF e \in c.members THEN "ResolvedLoser"
    ELSE r.meta[e].status

\* try_resolve_conflict_set on an open set: the set is resolved for its canonical
\* winner, which is queued when no other set of it is open, and every other member
\* loses.
LEMMA TryResolveIs ==
    ASSUME NEW s, NEW b \in Block, NEW r, SchType(r), DOMAIN r.meta = DOMAIN s.meta \cup {b},
           NEW c, OpenSet(c, s, b)
    PROVE  /\ Winner(c) \in c.members /\ Winner(c) \in Block
           /\ Done(c).resolved /\ Done(c).winner = Winner(c) /\ Done(c).members = c.members
           /\ SchType(TryResolve(r, c))
           /\ TryResolve(r, c).sets = (r.sets \ {c}) \cup {Done(c)}
           /\ DOMAIN TryResolve(r, c).meta = DOMAIN r.meta
           /\ TryResolve(r, c).deferred = r.deferred
           /\ TryResolve(r, c).refused = r.refused
           /\ TryResolve(r, c).ready = IF Settled(r, c) THEN Append(r.ready, Winner(c)) ELSE r.ready
           /\ \A e \in DOMAIN r.meta : TryResolve(r, c).meta[e].status = Verdicted(r, c, e)
<1> DEFINE w == Winner(c)
           done == Done(c)
           sets == (r.sets \ {c}) \cup {done}
           s1 == [r EXCEPT !.sets = sets]
           settled == \A d \in SetsOf(s1, w) : d.resolved
           m == [e \in DOMAIN s1.meta |->
                   IF e = w THEN IF settled THEN [s1.meta[e] EXCEPT !.status = "ResolvedWinner"]
                                 ELSE s1.meta[e]
                   ELSE IF e \in c.members THEN [s1.meta[e] EXCEPT !.status = "ResolvedLoser"]
                   ELSE s1.meta[e]]
           q == IF settled THEN Append(s1.ready, w) ELSE s1.ready
           u == [s1 EXCEPT !.meta = m]
           t == [u EXCEPT !.ready = q]
<1>1. /\ DOMAIN r.meta \subseteq Block /\ IsFiniteSet(DOMAIN r.meta) /\ IsMeta(r.meta)
      /\ IsFiniteSet(r.sets) /\ (\A d \in r.sets : IsConflictSet(d)) /\ r.ready \in Seq(Block)
  BY Zenon DEF SchType
<1>2. /\ c.members \subseteq DOMAIN r.meta /\ c.members \cap DOMAIN r.meta = c.members
      /\ c.members \subseteq Block /\ c.members # {}
  BY <1>1, Zenon DEF OpenSet
<1>3. w \in c.members /\ w \in Block
  BY <1>2, WinnerExists, Zenon DEF Winner
<1>4. ~(Cardinality(c.members) < 2) /\ ~c.resolved
  <2>1. c.members \in SUBSET DOMAIN r.meta
    BY <1>2, Zenon
  <2>2. IsFiniteSet(c.members)
    BY <1>1, <2>1, FS_Subset, Zenon
  <2> QED BY <2>2, TwoMembers, Zenon DEF OpenSet
<1>5. TryResolve(r, c) = t
  BY <1>2, <1>4, ZenonT(60) DEF TryResolve, Resolve, Winner, Done
<1>6. done = [key |-> c.key, members |-> c.members, resolved |-> TRUE, winner |-> w]
  <2> DEFINE d == [c EXCEPT !.resolved = TRUE]
  <2> HIDE DEF w
  <2>1. d = [key |-> c.key, members |-> c.members, resolved |-> TRUE, winner |-> c.winner]
    <3>1. c = [key |-> c.key, members |-> c.members, resolved |-> c.resolved,
               winner |-> c.winner]
      BY Zenon DEF OpenSet, IsConflictSet
    <3> DEFINE yes == TRUE
    <3> HIDE DEF yes
    <3>2. [c EXCEPT !.resolved = yes] =
             [key |-> c.key, members |-> c.members, resolved |-> yes, winner |-> c.winner]
      BY <3>1
    <3> QED BY <3>2 DEF yes
  <2>2. done = [d EXCEPT !.winner = w]
    BY Zenon DEF Done, w
  <2> HIDE DEF d, done
  <2> QED BY <2>1, <2>2, Zenon
<1> HIDE DEF w, done
<1>7. /\ done.resolved /\ done.winner = w /\ done.members = c.members
      /\ IsConflictSet(done)
  BY <1>6 DEF IsConflictSet
<1>8. IsFiniteSet(sets) /\ \A d \in sets : IsConflictSet(d)
  <2>1. IsFiniteSet(r.sets \ {c})
    BY <1>1, FS_RemoveElement, Zenon
  <2>2. IsFiniteSet(sets)
    BY <2>1, FS_AddElement, Zenon
  <2> QED BY <1>1, <1>7, <2>2, Zenon
<1>9. /\ SchType(s1) /\ s1.sets = sets
      /\ s1.meta = r.meta /\ s1.ready = r.ready /\ s1.deferred = r.deferred
      /\ s1.cursors = r.cursors /\ s1.committed = r.committed /\ s1.refused = r.refused
  <2> HIDE DEF sets
  <2> QED BY <1>8, WithSets, Zenon
<1> HIDE DEF s1
<1>10. settled <=> \A d \in sets : w \in d.members => d.resolved
  BY <1>9, Zenon DEF SetsOf
<1>10a. settled <=> Settled(r, c)
  BY <1>10, Zenon DEF Settled, w, done
<1> HIDE DEF settled
<1>11. IsMeta(m) /\ DOMAIN m = DOMAIN r.meta
  <2>1. s1.meta = r.meta
    BY <1>9
  <2>2. DOMAIN m = DOMAIN r.meta /\ m = [e \in DOMAIN r.meta |-> m[e]]
    BY <2>1
  <2>3. ASSUME NEW e \in DOMAIN r.meta
        PROVE  m[e] = [status |-> m[e].status, diff |-> m[e].diff]
    <3>1. r.meta[e] = [status |-> r.meta[e].status, diff |-> r.meta[e].diff]
      BY <1>1, Zenon DEF IsMeta
    <3>2. \/ m[e] = [r.meta[e] EXCEPT !.status = "ResolvedWinner"]
          \/ m[e] = [r.meta[e] EXCEPT !.status = "ResolvedLoser"]
          \/ m[e] = r.meta[e]
      BY <2>1
    <3> HIDE DEF m
    <3> QED BY <3>1, <3>2
  <2> HIDE DEF m
  <2> QED BY <2>2, <2>3, Zenon DEF IsMeta
<1>12. ASSUME NEW e \in DOMAIN r.meta PROVE m[e].status = Verdicted(r, c, e)
  <2>1. /\ m[e] = IF e = w THEN IF settled THEN [r.meta[e] EXCEPT !.status = "ResolvedWinner"]
                               ELSE r.meta[e]
                  ELSE IF e \in c.members THEN [r.meta[e] EXCEPT !.status = "ResolvedLoser"]
                  ELSE r.meta[e]
    BY <1>9
  <2>2. r.meta[e] = [status |-> r.meta[e].status, diff |-> r.meta[e].diff]
    BY <1>1, Zenon DEF IsMeta
  <2> HIDE DEF m
  <2>3. m[e].status = IF e = w THEN IF settled THEN "ResolvedWinner" ELSE r.meta[e].status
                      ELSE IF e \in c.members THEN "ResolvedLoser" ELSE r.meta[e].status
    BY <2>1, <2>2
  <2> QED BY <1>10a, <2>3, Zenon DEF Verdicted, w
<1> HIDE DEF m
<1>13. q \in Seq(Block) /\ q = IF settled THEN Append(r.ready, w) ELSE r.ready
  BY <1>1, <1>3, <1>9
<1> HIDE DEF q
<1>14. /\ SchType(u) /\ u.meta = m
       /\ u.sets = s1.sets /\ u.ready = s1.ready /\ u.deferred = s1.deferred
       /\ u.cursors = s1.cursors /\ u.committed = s1.committed /\ u.refused = s1.refused
  <2>1. SchType(s1) /\ IsMeta(m) /\ DOMAIN m \subseteq Block /\ IsFiniteSet(DOMAIN m)
    BY <1>1, <1>9, <1>11, Zenon
  <2> QED BY <2>1, WithBlocks, Zenon
<1> HIDE DEF u
<1>15. /\ SchType(t) /\ t.ready = q
       /\ t.sets = u.sets /\ t.meta = u.meta /\ t.deferred = u.deferred
       /\ t.cursors = u.cursors /\ t.committed = u.committed /\ t.refused = u.refused
  <2>1. SchType(u) /\ q \in Seq(Block)
    BY <1>13, <1>14
  <2> QED BY <2>1, WithQueue, Zenon
<1> HIDE DEF t
<1>16. /\ t.sets = sets /\ t.meta = m /\ t.deferred = r.deferred /\ t.refused = r.refused
  BY <1>9, <1>14, <1>15, Zenon
<1>17. t.ready = IF Settled(r, c) THEN Append(r.ready, Winner(c)) ELSE r.ready
  BY <1>10a, <1>13, <1>15, Zenon DEF w
<1> QED BY <1>3, <1>5, <1>7, <1>11, <1>12, <1>15, <1>16, <1>17, Zenon DEF w, done
\* Trying one more of the block's sets keeps ResolveInv.
LEMMA ResolveKeeps ==
    ASSUME NEW s, NEW b \in Block, NEW mine, NEW o, NEW k \in Nat,
           o[k + 1] \in mine, ~o[k + 1].resolved => OpenSet(o[k + 1], s, b),
           NEW r, ResolveInv(r, s, b, mine, o, k)
    PROVE  ResolveInv(TryResolve(r, o[k + 1]), s, b, mine, o, k + 1)
<1> DEFINE c == o[k + 1]
           t == TryResolve(r, c)
<1>1. \A i \in 1..(k + 1) : i \in 1..k \/ i = k + 1
  OBVIOUS
<1>2. CASE c.resolved
  <2>1. t = r
    BY <1>2 DEF TryResolve
  <2>2. ASSUME NEW d \in r.sets
        PROVE  \/ d.resolved /\ d.winner = ChooseWinner(d.members)
               \/ OpenSet(d, s, b) /\ d \in mine /\ \A i \in 1..(k + 1) : o[i] # d
    <3>1. OpenSet(d, s, b) => o[k + 1] # d
      BY <1>2, Zenon DEF OpenSet
    <3> QED BY <1>1, <3>1, Zenon DEF ResolveInv
  <2>3. ResolveInv(r, s, b, mine, o, k + 1)
    BY <2>2, Zenon DEF ResolveInv
  <2> QED BY <2>1, <2>3, Zenon
<1>3. CASE ~c.resolved
  <2> DEFINE w == Winner(c)
  <2>1. OpenSet(c, s, b) /\ SchType(r) /\ DOMAIN r.meta = DOMAIN s.meta \cup {b}
    BY <1>3, Zenon DEF ResolveInv
  <2> HIDE DEF c
  <2>2. /\ w \in c.members /\ w \in Block
        /\ Done(c).resolved /\ Done(c).winner = w /\ Done(c).members = c.members
        /\ SchType(t) /\ t.sets = (r.sets \ {c}) \cup {Done(c)}
        /\ DOMAIN t.meta = DOMAIN r.meta
        /\ t.deferred = r.deferred /\ t.refused = r.refused
        /\ t.ready = IF Settled(r, c) THEN Append(r.ready, w) ELSE r.ready
        /\ \A e \in DOMAIN r.meta : t.meta[e].status = Verdicted(r, c, e)
    BY <2>1, TryResolveIs
  <2> HIDE DEF t
  <2>3. r.ready \in Seq(Block)
    BY <2>1, Zenon DEF SchType
  <2>4. \A e : InQueue(r, e) => InQueue(t, e)
    <3>1. CASE Settled(r, c)
      <4>1. t.ready = Append(r.ready, w)
        BY <2>2, <3>1
      <4>2. \A e : (\E i \in 1..Len(r.ready) : r.ready[i] = e) =>
                     \E i \in 1..Len(Append(r.ready, w)) : Append(r.ready, w)[i] = e
        <5> HIDE DEF w
        <5> QED BY <2>2, <2>3, AppendKeeps, ZenonT(60)
      <4> QED BY <4>1, <4>2, Zenon DEF InQueue
    <3>2. CASE ~Settled(r, c)
      <4>1. t.ready = r.ready
        BY <2>2, <3>2
      <4> QED BY <4>1, Zenon DEF InQueue
    <3> QED BY <3>1, <3>2
  <2>5. Settled(r, c) => InQueue(t, w)
    <3>1. SUFFICES ASSUME Settled(r, c) PROVE InQueue(t, w)
      BY Zenon
    <3>2. t.ready = Append(r.ready, w)
      BY <2>2, <3>1
    <3>3. \E i \in 1..Len(Append(r.ready, w)) : Append(r.ready, w)[i] = w
      <4> HIDE DEF w
      <4> QED BY <2>2, <2>3, AppendKeeps, ZenonT(60)
    <3> QED BY <3>2, <3>3, Zenon DEF InQueue
  <2>6. ASSUME NEW d \in t.sets
        PROVE  \/ d.resolved /\ d.winner = ChooseWinner(d.members)
               \/ OpenSet(d, s, b) /\ d \in mine /\ \A i \in 1..(k + 1) : o[i] # d
    <3>1. CASE d = Done(c)
      BY <2>2, <3>1, Zenon DEF Winner
    <3>2. CASE d # Done(c)
      <4>1. d \in r.sets /\ d # c
        BY <2>2, <3>2, Zenon
      <4>2. \/ d.resolved /\ d.winner = ChooseWinner(d.members)
            \/ OpenSet(d, s, b) /\ d \in mine /\ \A i \in 1..k : o[i] # d
        BY <4>1, Zenon DEF ResolveInv
      <4> QED BY <1>1, <4>1, <4>2, Zenon DEF c
    <3> QED BY <3>1, <3>2
  <2>7. ASSUME NEW e \in DOMAIN r.meta
        PROVE  /\ t.meta[e].status = "Conflicting" =>
                    e = b /\ \E d \in t.sets : ~d.resolved /\ b \in d.members
               /\ t.meta[e].status \in {"Accepted", "ResolvedWinner"} =>
                    e \in t.refused \/ InQueue(t, e)
               /\ t.meta[e].status = "Deferred" => \E p \in t.deferred : p[2] = e
    <3>0. /\ r.meta[e].status = "Conflicting" => e = b
          /\ r.meta[e].status \in {"Accepted", "ResolvedWinner"} =>
                e \in r.refused \/ InQueue(r, e)
          /\ r.meta[e].status = "Deferred" => \E p \in r.deferred : p[2] = e
      BY Zenon DEF ResolveInv
    <3>1. CASE e = w /\ Settled(r, c)
      <4>1. t.meta[e].status = "ResolvedWinner" /\ InQueue(t, e)
        BY <2>2, <2>5, <3>1, Zenon DEF Verdicted
      <4> QED BY <4>1
    <3>2. CASE e = w /\ ~Settled(r, c)
      <4>1. t.meta[e].status = r.meta[e].status
        BY <2>2, <3>2, Zenon DEF Verdicted
      <4>2. \E d \in t.sets : ~d.resolved /\ w \in d.members
        BY <2>2, <3>2, Zenon DEF Settled
      <4>3. /\ e \in r.refused => e \in t.refused
            /\ InQueue(r, e) => InQueue(t, e)
            /\ (\E p \in r.deferred : p[2] = e) => \E p \in t.deferred : p[2] = e
        BY <2>2, <2>4, Zenon
      <4>4. e = b => \E d \in t.sets : ~d.resolved /\ b \in d.members
        BY <3>2, <4>2, Zenon
      <4> QED BY <3>0, <4>1, <4>3, <4>4, SMTT(60)
    <3>3. CASE e # w /\ e \in c.members
      <4>1. t.meta[e].status = "ResolvedLoser"
        BY <2>2, <3>3, Zenon DEF Verdicted
      <4> QED BY <4>1
    <3>4. CASE e # w /\ e \notin c.members
      <4>1. t.meta[e].status = r.meta[e].status /\ e # b
        BY <2>1, <2>2, <3>4, Zenon DEF Verdicted, OpenSet
      <4>3. /\ e \in r.refused => e \in t.refused
            /\ InQueue(r, e) => InQueue(t, e)
            /\ (\E p \in r.deferred : p[2] = e) => \E p \in t.deferred : p[2] = e
        BY <2>2, <2>4, Zenon
      <4> QED BY <3>0, <4>1, <4>3
    <3> QED BY <3>1, <3>2, <3>3, <3>4, Zenon
  <2>8. /\ SchType(t) /\ DOMAIN t.meta = DOMAIN r.meta
        /\ DOMAIN t.meta = DOMAIN s.meta \cup {b}
        /\ t.deferred = s.deferred /\ t.refused = s.refused
    BY <2>1, <2>2, Zenon DEF ResolveInv
  <2>9. ResolveInv(t, s, b, mine, o, k + 1)
    BY <2>6, <2>7, <2>8, Zenon DEF ResolveInv
  <2> QED BY <2>9 DEF t, c
<1> QED BY <1>2, <1>3, Zenon

\* admit_block leaves the scheduler good, in whatever order it visits the sets.
LEMMA AdmitGood ==
    ASSUME NEW s, GoodSch(s), NEW b \in Block, NEW diff, NEW t \in AdmitBlock(s, b, diff)
    PROVE  GoodSch(t)
<1> DEFINE mine == SetsOf(Joined(s, b), b)
           n == Cardinality(mine)
           start == Entered(s, b, diff)
<1>1. SUFFICES ASSUME ~Known(s, b) PROVE GoodSch(t)
  <2>1. Known(s, b) => t = s
    BY AdmitSteps
  <2> QED BY <2>1, Zenon
<1>2. PICK o \in Orders(mine) : t = Resolution(start, mine, o)
  BY <1>1, AdmitSteps, Zenon
<1>3. b \notin DOMAIN s.meta
  BY <1>1, Zenon DEF Known
<1>4. JoinInv(Joined(s, b), s, b)
  BY JoinedGood, Zenon
<1>5. \A c \in mine : ~c.resolved => OpenSet(c, s, b)
  BY <1>4, Zenon DEF SetsOf, JoinInv, GoodSch, SchedulerOK
<1>6. IsFiniteSet(mine)
  <2>1. mine \in SUBSET Joined(s, b).sets
    BY DEF SetsOf
  <2>2. IsFiniteSet(Joined(s, b).sets)
    BY <1>4, Zenon DEF JoinInv, SchType
  <2> HIDE DEF mine
  <2> QED BY <2>1, <2>2, FS_Subset, Zenon
<1>7. ResolveInv(start, s, b, mine, o, 0)
  BY <1>3, EnteredGood, Zenon
<1> HIDE DEF mine, start
<1>8. n \in Nat /\ o \in [1..n -> mine] /\ \A c \in mine : \E i \in 1..n : o[i] = c
  BY <1>6, OrdersVisitAll, Zenon
<1> DEFINE f == CHOOSE g : IsResolving(g, n, start, o)
<1>9. IsResolving(f, n, start, o) /\ t = f[n]
  BY <1>2, <1>8, ResolvingDefined, Zenon DEF Resolution
<1> HIDE DEF f, n
<1> DEFINE S == {k \in Nat : k \in 0..n => ResolveInv(f[k], s, b, mine, o, k)}
<1>10. 0 \in S
  <2>1. f[0] = start
    BY <1>8, <1>9 DEF IsResolving
  <2> QED BY <1>7, <2>1
<1>11. ASSUME NEW k \in Nat, k \in S PROVE k + 1 \in S
  <2>1. SUFFICES ASSUME k + 1 \in 0..n PROVE ResolveInv(f[k + 1], s, b, mine, o, k + 1)
    OBVIOUS
  <2>2. k \in 0..n /\ k + 1 \in 1..n /\ (k + 1) - 1 = k /\ k + 1 # 0
    BY <1>8, <2>1
  <2>3. ResolveInv(f[k], s, b, mine, o, k)
    BY <1>11, <2>2
  <2>4. f[k + 1] = TryResolve(f[k], o[k + 1])
    BY <1>9, <2>1, <2>2 DEF IsResolving
  <2>5. o[k + 1] \in mine
    BY <1>8, <2>2
  <2> QED BY <1>5, <2>3, <2>4, <2>5, ResolveKeeps, Zenon
<1>12. ResolveInv(f[n], s, b, mine, o, n)
  <2> HIDE DEF S
  <2>1. n \in S
    BY <1>8, <1>10, <1>11, SetInduction, Zenon
  <2>2. n \in 0..n
    BY <1>8
  <2> QED BY <2>1, <2>2 DEF S
<1>13. ResolveInv(t, s, b, mine, o, n)
  BY <1>9, <1>12, Zenon
<1>14. \A c \in t.sets : c.resolved /\ c.winner = ChooseWinner(c.members)
  BY <1>8, <1>13, Zenon DEF ResolveInv
<1>15. ASSUME NEW e \in DOMAIN t.meta
       PROVE  /\ t.meta[e].status # "Conflicting"
              /\ t.meta[e].status \in {"Accepted", "ResolvedWinner"} =>
                    e \in t.refused \/ \E i \in 1..Len(t.ready) : t.ready[i] = e
              /\ t.meta[e].status = "Deferred" => \E p \in t.deferred : p[2] = e
  BY <1>13, <1>14, Zenon DEF ResolveInv, InQueue
<1>16. SchedulerOK(t)
  BY <1>14, <1>15, Zenon DEF SchedulerOK
<1>17. SchType(t)
  BY <1>13, Zenon DEF ResolveInv
<1> QED BY <1>16, <1>17 DEF GoodSch

\* An empty scheduler is good.
LEMMA EmptyGood == GoodSch(EmptyScheduler)
<1> DEFINE s == EmptyScheduler
<1>1. /\ s.meta = <<>> /\ s.ready = <<>> /\ s.deferred = {} /\ s.sets = {}
      /\ s.cursors = <<>> /\ s.committed = {} /\ s.refused = {}
      /\ s = [meta |-> s.meta, ready |-> s.ready, deferred |-> s.deferred, sets |-> s.sets,
              cursors |-> s.cursors, committed |-> s.committed, refused |-> s.refused]
  BY DEF EmptyScheduler
<1>2. DOMAIN s.meta = {} /\ IsMeta(s.meta)
  BY <1>1 DEF IsMeta
<1>3. <<>> \in Seq(Block) /\ IsFiniteSet({})
  BY FS_EmptySet
<1> HIDE DEF s
<1>4. SchType(s)
  BY <1>1, <1>2, <1>3, Zenon DEF SchType
<1>5. SchedulerOK(s)
  BY <1>1, <1>2, Zenon DEF SchedulerOK
<1> QED BY <1>4, <1>5, Zenon DEF GoodSch, s
=============================================================================
