------------------------ MODULE CertifiedCommit_proofs ------------------------
(***************************************************************************)
(* Proofs about CertifiedCommit: the indices of the pending table, the     *)
(* stored nonces across commits that do not overlap, and the scheduler     *)
(* between two calls of the tasks that share it.                           *)
(***************************************************************************)
EXTENDS CertifiedCommit, CommitScheduler_proofs

\* A record with exactly the fields of a pending table.
IsTable(t) ==
    t = [entries |-> t.entries, by_hg |-> t.by_hg, by_hgt |-> t.by_hgt,
         committed |-> t.committed]

GoodTable(t) == IsTable(t) /\ TableOK(t)

\* Removing any set of hashes from entries and indices keeps a table good.
LEMMA RemoveGood ==
    ASSUME NEW t, GoodTable(t), NEW hs
    PROVE  GoodTable(Remove(t, hs))
<1> DEFINE r == Remove(t, hs)
<1>0. r = [entries |-> {e \in t.entries : e[1] \notin hs}, by_hg |-> Retain(t.by_hg, hs),
           by_hgt |-> Retain(t.by_hgt, hs), committed |-> t.committed]
  BY DEF GoodTable, IsTable, Remove
<1>1. /\ r.entries = {e \in t.entries : e[1] \notin hs}
      /\ r.by_hg = {p \in t.by_hg : p[2] \notin hs}
      /\ r.by_hgt = {p \in t.by_hgt : p[2] \notin hs}
      /\ IsTable(r)
  BY <1>0 DEF IsTable, Retain
<1>2. \A h : h \in Pending(t) /\ h \notin hs => h \in Pending(r)
  BY <1>1 DEF Pending
<1> HIDE DEF r
<1>3. TableOK(r)
  BY <1>1, <1>2 DEF GoodTable, TableOK
<1> QED BY <1>1, <1>3 DEF GoodTable, r

\* evict_stale_entries keeps the table good, whichever of its oldest entries go.
LEMMA EvictGood ==
    ASSUME NEW t, GoodTable(t), NEW time, NEW k \in EvictStale(t, time)
    PROVE  GoodTable(k)
<1> DEFINE kept == Remove(t, TimedOut(t, time))
<1>1. GoodTable(kept)
  BY RemoveGood
<1>2. k = kept \/ \E hs : k = Remove(kept, hs)
  BY DEF EvictStale
<1> HIDE DEF kept
<1> QED BY <1>1, <1>2, RemoveGood

\* A new block takes its two keys over and keeps the table good.
LEMMA RegisterNewGood ==
    ASSUME NEW t, GoodTable(t), NEW h, h \notin Pending(t), NEW g, NEW time
    PROVE  GoodTable(RegisterNew(t, h, g, time))
<1> DEFINE r == RegisterNew(t, h, g, time)
           kg == <<HeightOf[h], g>>
           kr == <<HeightOf[h], g, RootOf[h]>>
<1>0. r = [entries |-> t.entries \cup {<<h, time>>}, by_hg |-> Insert(t.by_hg, kg, h),
           by_hgt |-> Insert(t.by_hgt, kr, h), committed |-> t.committed]
  BY DEF GoodTable, IsTable, RegisterNew
<1>1. /\ r.entries = t.entries \cup {<<h, time>>}
      /\ r.by_hg = {p \in t.by_hg : p[1] # kg} \cup {<<kg, h>>}
      /\ r.by_hgt = {p \in t.by_hgt : p[1] # kr} \cup {<<kr, h>>}
      /\ IsTable(r)
  BY <1>0 DEF IsTable, Insert, Without
<1>2. /\ \A b \in Pending(t) : b \in Pending(r)
      /\ h \in Pending(r)
  <2>1. <<h, time>> \in r.entries /\ <<h, time>>[1] = h
    BY <1>1
  <2>2. h \in Pending(r)
    BY <2>1, Zenon DEF Pending
  <2>3. \A b \in Pending(t) : b \in Pending(r)
    BY <1>1, Zenon DEF Pending
  <2> QED BY <2>2, <2>3
<1>3. kg[1] = HeightOf[h] /\ kr[1] = HeightOf[h] /\ kr[3] = RootOf[h]
  OBVIOUS
<1> HIDE DEF r, kg, kr
<1>4. \A p \in r.by_hg : p[2] \in Pending(r) /\ p[1][1] = HeightOf[p[2]]
  BY <1>1, <1>2, <1>3, SMTT(60) DEF GoodTable, TableOK
<1>5. \A p \in r.by_hgt :
         p[2] \in Pending(r) /\ p[1][1] = HeightOf[p[2]] /\ p[1][3] = RootOf[p[2]]
  BY <1>1, <1>2, <1>3 DEF GoodTable, TableOK
<1>6. \A p, q \in r.by_hg : p[1] = q[1] <=> p[2] = q[2]
  BY <1>1 DEF GoodTable, TableOK
<1> QED BY <1>1, <1>4, <1>5, <1>6 DEF GoodTable, TableOK, r

\* register_pending_with_group keeps the table good, whatever it evicts first.
LEMMA RegisterGood ==
    ASSUME NEW t, GoodTable(t), NEW h, NEW g, NEW time,
           NEW k \in RegisterPending(t, h, g, time)
    PROVE  GoodTable(k)
BY EvictGood, RegisterNewGood DEF RegisterPending
\* The hash an index gives is one it holds under that key.
LEMMA LookupFound ==
    ASSUME NEW index, NEW key, Lookup(index, key) # NoBlock
    PROVE  \E p \in index : p[1] = key /\ p[2] = Lookup(index, key)
BY Zenon DEF Lookup

\* take_pending keeps the table good.
LEMMA TakePendingGood ==
    ASSUME NEW t, GoodTable(t), NEW h
    PROVE  GoodTable(TakePending(t, h).table)
<1>1. TakePending(t, h).table = Remove(t, {h}) \/ TakePending(t, h).table = t
  BY DEF TakePending
<1> QED BY <1>1, RemoveGood

\* Dropping a key of the root index keeps the table good.
LEMMA DropRootGood ==
    ASSUME NEW t, GoodTable(t), NEW key
    PROVE  GoodTable([t EXCEPT !.by_hgt = Without(@, key)])
<1> DEFINE r == [t EXCEPT !.by_hgt = Without(@, key)]
<1>1. r = [entries |-> t.entries, by_hg |-> t.by_hg, by_hgt |-> Without(t.by_hgt, key),
           committed |-> t.committed]
  BY DEF GoodTable, IsTable
<1>2. /\ r.entries = t.entries
      /\ r.by_hg = t.by_hg
      /\ r.by_hgt = {p \in t.by_hgt : p[1] # key}
      /\ IsTable(r)
  BY <1>1 DEF IsTable, Without
<1> HIDE DEF r
<1>3. TableOK(r)
  BY <1>2 DEF GoodTable, TableOK, Pending
<1> QED BY <1>2, <1>3 DEF GoodTable, r

\* take_pending_by_height_group_tx_root keeps the table good.
LEMMA TakeByRootGood ==
    ASSUME NEW t, GoodTable(t), NEW height, NEW g, NEW root
    PROVE  GoodTable(TakeByRoot(t, height, g, root).table)
<1> DEFINE t1 == [t EXCEPT !.by_hgt = Without(@, <<height, g, root>>)]
           r == TakeByRoot(t, height, g, root).table
<1>1. GoodTable(t1)
  BY DropRootGood
<1>2. r = t1 \/ r = Remove(t1, {Lookup(t.by_hgt, <<height, g, root>>)})
  BY DEF TakeByRoot
<1> HIDE DEF t1
<1> QED BY <1>1, <1>2, RemoveGood

\* Dropping a (height, group) key keeps the table good.
LEMMA DropKeyGood ==
    ASSUME NEW t, GoodTable(t), NEW key
    PROVE  LET r == [t EXCEPT !.by_hg = Without(@, key)] IN
           /\ GoodTable(r)
           /\ r.entries = t.entries
           /\ r.by_hg = {p \in t.by_hg : p[1] # key}
           /\ r.by_hgt = t.by_hgt
<1> DEFINE r == [t EXCEPT !.by_hg = Without(@, key)]
<1>1. r = [entries |-> t.entries, by_hg |-> Without(t.by_hg, key), by_hgt |-> t.by_hgt,
           committed |-> t.committed]
  BY DEF GoodTable, IsTable
<1>2. /\ r.entries = t.entries
      /\ r.by_hg = {p \in t.by_hg : p[1] # key}
      /\ r.by_hgt = t.by_hgt
      /\ IsTable(r)
  BY <1>1 DEF IsTable, Without
<1> HIDE DEF r
<1>3. TableOK(r)
  BY <1>2 DEF GoodTable, TableOK, Pending
<1> QED BY <1>2, <1>3 DEF GoodTable, r

\* The lookup under one key keeps the table good: an index holds a hash under one
\* (height, group) key only, so nothing points to the entry that goes.
LEMMA TakeKeyGood ==
    ASSUME NEW t, GoodTable(t), NEW height, NEW g
    PROVE  GoodTable(TakeKey(t, height, g).table)
<1> DEFINE key == <<height, g>>
           h == Lookup(t.by_hg, key)
           t1 == [t EXCEPT !.by_hg = Without(@, key)]
           r == [entries |-> {e \in t1.entries : e[1] # h}, by_hg |-> t1.by_hg,
                 by_hgt |-> Retain(t1.by_hgt, {h}), committed |-> t1.committed]
<1>1. /\ GoodTable(t1)
      /\ t1.by_hg = {p \in t.by_hg : p[1] # key}
  BY DropKeyGood
<1>2. \/ TakeKey(t, height, g).table = t1
      \/ h # NoBlock /\ TakeKey(t, height, g).table = r
  BY DEF TakeKey
<1>3. ASSUME h # NoBlock PROVE GoodTable(r)
  <2>1. \A p \in t1.by_hg : p[2] # h
    <3>1. PICK q \in t.by_hg : q[1] = key /\ q[2] = h
      BY <1>3, LookupFound
    <3> QED BY <3>1, <1>1 DEF GoodTable, TableOK
  <2>2. /\ r.entries = {e \in t1.entries : e[1] # h}
        /\ r.by_hg = t1.by_hg
        /\ r.by_hgt = {p \in t1.by_hgt : p[2] # h}
        /\ IsTable(r)
    BY DEF IsTable, Retain
  <2> HIDE DEF r, t1, h
  <2>3. \A b : b \in Pending(t1) /\ b # h => b \in Pending(r)
    BY <2>2, Zenon DEF Pending
  <2>4. TableOK(r)
    BY <1>1, <2>1, <2>2, <2>3 DEF GoodTable, TableOK
  <2> QED BY <2>2, <2>4 DEF GoodTable
<1> HIDE DEF t1, r
<1> QED BY <1>1, <1>2, <1>3

\* take_pending_by_height_group keeps the table good.
LEMMA TakeByHeightGroupGood ==
    ASSUME NEW t, GoodTable(t), NEW height, NEW g
    PROVE  GoodTable(TakeByHeightGroup(t, height, g).table)
<1> DEFINE first == TakeKey(t, height, g)
           r == TakeByHeightGroup(t, height, g).table
<1>1. GoodTable(first.table)
  BY TakeKeyGood, Zenon
<1>2. r = t \/ r = first.table \/ r = TakeKey(first.table, height, NoGroup).table
  BY DEF TakeByHeightGroup
<1> HIDE DEF first
<1> QED BY <1>1, <1>2, TakeKeyGood

\* The certificate handler's three lookups keep the table good.
LEMMA TakeCertifiedGood ==
    ASSUME NEW t, GoodTable(t), NEW hash, NEW height, NEW g, NEW root
    PROVE  GoodTable(TakeCertified(t, hash, height, g, root).table)
<1> DEFINE byHash == TakePending(t, hash)
           byRoot == TakeByRoot(byHash.table, height, g, root)
           byKey == TakeByHeightGroup(byRoot.table, height, g)
<1>1. GoodTable(byHash.table)
  BY TakePendingGood
<1>2. GoodTable(byRoot.table)
  BY <1>1, TakeByRootGood
<1>3. GoodTable(byKey.table)
  BY <1>2, TakeByHeightGroupGood
<1>4. \/ TakeCertified(t, hash, height, g, root) = byHash
      \/ TakeCertified(t, hash, height, g, root) = byRoot
      \/ TakeCertified(t, hash, height, g, root) = byKey
  BY Zenon DEF TakeCertified
<1> HIDE DEF byHash, byRoot, byKey
<1> QED BY <1>1, <1>2, <1>3, <1>4, SMTT(60)

\* mark_committed touches neither entries nor indices.
LEMMA MarkGood ==
    ASSUME NEW t, GoodTable(t), NEW h
    PROVE  GoodTable(MarkCommitted(t, h))
<1> DEFINE r == MarkCommitted(t, h)
<1>1. r = [entries |-> t.entries, by_hg |-> t.by_hg, by_hgt |-> t.by_hgt,
           committed |-> t.committed \cup {h}]
  BY DEF GoodTable, IsTable, MarkCommitted
<1>2. r.entries = t.entries /\ r.by_hg = t.by_hg /\ r.by_hgt = t.by_hgt /\ IsTable(r)
  BY <1>1 DEF IsTable
<1> HIDE DEF r
<1> QED BY <1>2 DEF GoodTable, TableOK, Pending, r

-----------------------------------------------------------------------------
\* The invariant behind IndexesPointToPending: every operation of the table keeps
\* it good, whatever the tasks, the scheduler and storage do.
LEMMA TableStep == GoodTable(table) /\ [Next]_vars => GoodTable(table)'
<1> SUFFICES ASSUME GoodTable(table), [Next]_vars PROVE GoodTable(table')
  BY Zenon DEF GoodTable, IsTable, TableOK, Pending
<1>1. ASSUME NEW b, ReceiveBlock(b) \/ RegisterOwn(b) PROVE GoodTable(table')
  BY <1>1, RegisterGood, Zenon DEF ReceiveBlock, RegisterOwn
<1>2. ASSUME NEW m, NEW valid, ReceiveFinal(m, valid) PROVE GoodTable(table')
  BY <1>2 DEF ReceiveFinal
<1>3. ASSUME NEW c, ReceiveCertificate(c) PROVE GoodTable(table')
  <2>1. table' = table \/ table' = TakeCertified(table, c.hash, c.height, c.group, c.root).table
    BY <1>3 DEF ReceiveCertificate
  <2> QED BY <2>1, TakeCertifiedGood, Zenon
<1>4. ASSUME NEW t, Step(t) PROVE GoodTable(table')
  <2>1. CASE \/ Execute(t) \/ ExecuteFails(t) \/ Admit(t) \/ Drain(t) \/ Read(t)
             \/ Write(t) \/ WriteFails(t) \/ Rewrite(t)
    <3>1. table' = table
      BY <2>1, Zenon DEF Execute, ExecuteFails, Admit, Drain, Read, Write, WriteFails, Rewrite
    <3> QED BY <3>1, SMTT(60)
  <2>2. CASE Reregister(t)
    BY <2>2, RegisterGood DEF Reregister
  <2>3. CASE Mark(t)
    <3>1. table' = MarkCommitted(table, tasks[t].block)
      BY <2>3, Zenon DEF Mark
    <3> QED BY <3>1, MarkGood, Zenon
  <2> QED BY <1>4, <2>1, <2>2, <2>3 DEF Step
<1>5. CASE Restart
  BY <1>5, SMTT(60) DEF Restart, EmptyTable, GoodTable, IsTable, TableOK
<1>6. CASE Tick \/ UNCHANGED vars
  BY <1>6 DEF Tick, vars, volatile
<1> QED BY <1>1, <1>2, <1>3, <1>4, <1>5, <1>6, ZenonT(30) DEF Next

\* For any blocks, groups, certificates, clock and table limit, and with any
\* number of tasks, failures and restarts, each index of the certificate table
\* points to pending blocks under their own height and root.
THEOREM IndexesPoint == Spec => []IndexesPointToPending
<1>1. Init => GoodTable(table)
  BY SMTT(60) DEF Init, EmptyTable, GoodTable, IsTable, TableOK
<1>2. GoodTable(table) => IndexesPointToPending
  BY DEF GoodTable, IndexesPointToPending
<1> QED BY <1>1, <1>2, TableStep, PTL DEF Spec
-----------------------------------------------------------------------------
(* Nonces *)

\* A nonempty set of numbers up to K has a largest one.
LEMMA LargestExists ==
    ASSUME NEW K \in Nat, NEW S, S \subseteq 0..K, S # {}
    PROVE  \E n \in S : \A m \in S : m <= n
<1> DEFINE D == {n \in Nat : K - n \in S}
<1>1. PICK s \in S : TRUE
  BY Zenon
<1>2. D \subseteq Nat /\ K - s \in D
  BY <1>1
<1>3. PICK d \in D : \A y \in D : ~(<<y, d>> \in OpToRel(<, Nat))
  BY <1>2, NatLessThanWellFounded, WFMin, Zenon
<1>4. \A y \in D : ~(y < d)
  BY <1>2, <1>3, Zenon DEF OpToRel
<1>5. K - d \in S
  OBVIOUS
<1>6. ASSUME NEW m \in S PROVE m <= K - d
  <2>1. K - m \in D
    OBVIOUS
  <2>2. ~(K - m < d)
    BY <2>1, <1>4, Zenon
  <2> QED BY <2>2
<1> QED BY <1>5, <1>6

\* The nonce an account is left with is past each transfer that debits it, and is
\* the one it had when there is none.
LEMMA AfterIsPast ==
    ASSUME NEW f \in [Account -> Nat], NEW txs, txs \subseteq Transfer, NEW a \in Account
    PROVE  /\ After(f, txs, a) \in Nat
           /\ \A tx \in Debiting(txs) : tx.from = a => tx.nonce < After(f, txs, a)
           /\ (\A tx \in Debiting(txs) : tx.from # a) => After(f, txs, a) = f[a]
<1> DEFINE mine == {tx.nonce : tx \in {x \in Debiting(txs) : x.from = a}}
           top == CHOOSE n \in mine : \A m \in mine : m <= n
<1>1. mine \subseteq 0..MaxNonce
  BY DEF Transfer, Debiting
<1>2. CASE mine = {}
  <2>1. \A tx \in Debiting(txs) : tx.from # a
    BY <1>2
  <2> QED BY <1>2, <2>1 DEF After
<1>3. CASE mine # {}
  <2>1. top \in mine /\ \A m \in mine : m <= top
    BY <1>1, <1>3, LargestExists, BlocksAssumption, Zenon
  <2>2. After(f, txs, a) = 1 + top
    BY <1>3 DEF After
  <2>3. \A tx \in Debiting(txs) : tx.from = a => tx.nonce \in mine
    OBVIOUS
  <2> HIDE DEF mine, top
  <2>4. top \in Nat /\ mine \subseteq Nat
    BY <1>1, <2>1
  <2>5. ASSUME NEW tx \in Debiting(txs), tx.from = a PROVE tx.nonce < 1 + top
    <3>1. tx.nonce \in Nat /\ tx.nonce <= top
      BY <2>1, <2>3, <2>4, <2>5, Zenon
    <3> QED BY <2>4, <3>1
  <2>6. ~ \A tx \in Debiting(txs) : tx.from # a
    BY <1>3 DEF mine
  <2> QED BY <2>2, <2>4, <2>5, <2>6, SMTT(60)
<1> QED BY <1>2, <1>3

\* What a commit holds between its read and its write: every nonce it will write
\* is at least the one it read, and past each transfer it debits, which was not
\* below the nonce read.
ReadOK(task) ==
    /\ task.base \in [Account -> Nat]
    /\ DOMAIN task.overlay \subseteq Account
    /\ \A a \in DOMAIN task.overlay :
           task.overlay[a] \in Nat /\ task.overlay[a] >= task.base[a]
    /\ \A p \in task.debits :
           /\ p[1] \in DOMAIN task.overlay
           /\ p[2] \in Nat
           /\ task.base[p[1]] <= p[2]
           /\ p[2] < task.overlay[p[1]]

\* apply_certified_block_direct establishes it.
LEMMA ReadEstablishes ==
    ASSUME NEW f \in [Account -> Nat], NEW b, NEW short, NEW task,
           task.base = f,
           task.overlay = Overlay(f, AppliedDirect(f, b, short)),
           task.debits = {<<tx.from, tx.nonce>> : tx \in Debiting(AppliedDirect(f, b, short))}
    PROVE  ReadOK(task)
<1> DEFINE txs == AppliedDirect(f, b, short)
<1>1. /\ txs \subseteq Transfer
      /\ \A tx \in txs : tx.from \in Account /\ tx.to \in Account
                         /\ tx.nonce \in Nat /\ tx.nonce >= f[tx.from]
  BY BlocksAssumption, SMTT(60) DEF AppliedDirect, Txs, Transfer
<1> HIDE DEF txs
<1>2. Touched(txs) \subseteq Account /\ \A tx \in txs : tx.from \in Touched(txs)
  BY <1>1, Zenon DEF Touched
<1>3. Debiting(txs) \subseteq txs
  BY Zenon DEF Debiting
<1>4. ASSUME NEW a \in Account PROVE After(f, txs, a) \in Nat /\ After(f, txs, a) >= f[a]
  <2>1. CASE \E tx \in Debiting(txs) : tx.from = a
    <3>1. PICK tx \in Debiting(txs) : tx.from = a
      BY <2>1, Zenon
    <3>2. tx.nonce < After(f, txs, a) /\ After(f, txs, a) \in Nat
      BY <1>1, <3>1, AfterIsPast, ZenonT(60)
    <3> QED BY <1>1, <1>3, <3>1, <3>2
  <2>2. CASE \A tx \in Debiting(txs) : tx.from # a
    BY <1>1, <2>2, AfterIsPast, SMTT(60)
  <2> QED BY <2>1, <2>2, Zenon
<1>5. /\ DOMAIN task.overlay = Touched(txs)
      /\ \A a \in Touched(txs) : task.overlay[a] = After(f, txs, a)
  BY Zenon DEF Overlay, txs
<1>6. ASSUME NEW p \in task.debits
      PROVE  /\ p[1] \in DOMAIN task.overlay
             /\ p[2] \in Nat
             /\ f[p[1]] <= p[2]
             /\ p[2] < task.overlay[p[1]]
  <2>1. PICK tx \in Debiting(txs) : p = <<tx.from, tx.nonce>>
    BY DEF txs
  <2>2. p[1] = tx.from /\ p[2] = tx.nonce
    BY <2>1, Zenon
  <2>3. tx.nonce < After(f, txs, tx.from)
    BY <1>1, <1>3, AfterIsPast
  <2> QED BY <1>1, <1>2, <1>3, <1>5, <2>2, <2>3, SMTT(60)
<1> QED BY <1>2, <1>4, <1>5, <1>6, ZenonT(60) DEF ReadOK
\* No transfer below its account's stored nonce is left to debit, as long as no
\* overlay was written over accounts changed since they were read.
NonceInv ==
    /\ nonces \in [Account -> Nat]
    /\ raced \in BOOLEAN
    /\ ~raced => /\ twice = {}
                 /\ \A p \in debited :
                        p[1] \in Account /\ p[2] \in Nat /\ p[2] < nonces[p[1]]
    /\ tasks = [t \in TaskId |-> tasks[t]]
    /\ \A t \in TaskId : tasks[t].pc \in {"write", "rewrite"} => ReadOK(tasks[t])

\* Writing an overlay over unchanged accounts moves no nonce back and debits only
\* transfers that were not debited before.
LEMMA WriteOverlayKeeps ==
    ASSUME NonceInv, NEW task, ReadOK(task), WriteOverlay(task)
    PROVE  /\ nonces' \in [Account -> Nat]
           /\ raced' \in BOOLEAN
           /\ ~raced' => /\ ~raced
                         /\ twice' = {}
                         /\ \A a \in Account : nonces'[a] >= nonces[a]
                         /\ \A p \in debited' :
                                p[1] \in Account /\ p[2] \in Nat /\ p[2] < nonces'[p[1]]
<1>1. nonces' \in [Account -> Nat]
  BY Zenon DEF NonceInv, ReadOK, WriteOverlay
<1>2. raced' \in BOOLEAN
  BY DEF WriteOverlay, NonceInv
<1>3. ASSUME ~raced'
      PROVE  /\ ~raced
             /\ \A a \in DOMAIN task.overlay : nonces[a] = task.base[a]
  BY <1>3, Zenon DEF WriteOverlay
<1>4. /\ \A a \in Account : nonces[a] \in Nat
      /\ \A a \in DOMAIN task.overlay : a \in Account /\ nonces'[a] = task.overlay[a]
      /\ \A a \in Account : a \notin DOMAIN task.overlay => nonces'[a] = nonces[a]
  BY Zenon DEF NonceInv, ReadOK, WriteOverlay
<1>5. ASSUME ~raced', NEW a \in Account PROVE nonces'[a] >= nonces[a]
  BY <1>3, <1>4, <1>5, SMTT(60) DEF ReadOK
<1>6. ASSUME ~raced', NEW p \in debited'
      PROVE  p[1] \in Account /\ p[2] \in Nat /\ p[2] < nonces'[p[1]]
  <2>1. CASE p \in debited
    BY <1>1, <1>3, <1>4, <1>5, <1>6, <2>1, SMTT(60) DEF NonceInv
  <2>2. CASE p \in task.debits
    BY <1>4, <2>2, Zenon DEF ReadOK
  <2> QED BY <2>1, <2>2, <1>6, Zenon DEF WriteOverlay
<1>7. ASSUME ~raced' PROVE twice' = {}
  <2>1. ASSUME NEW p \in debited \cap task.debits PROVE FALSE
    <3>1. p[2] \in Nat /\ p[2] < nonces[p[1]]
      BY <1>3, <1>7, <2>1, Zenon DEF NonceInv
    <3>2. p[1] \in DOMAIN task.overlay /\ task.base[p[1]] <= p[2]
      BY <2>1 DEF ReadOK
    <3>3. nonces[p[1]] <= p[2]
      BY <1>3, <1>7, <3>2
    <3>4. nonces[p[1]] \in Nat
      BY <1>4, <3>2, Zenon
    <3> QED BY <3>1, <3>3, <3>4
  <2> QED BY <1>3, <1>7, <2>1 DEF WriteOverlay, NonceInv
<1> QED BY <1>1, <1>2, <1>3, <1>5, <1>6, <1>7, Zenon

\* Writing behind the head only raises nonces.
LEMMA WriteBehindKeeps ==
    ASSUME NonceInv, NEW task, ReadOK(task), WriteBehind(task)
    PROVE  /\ nonces' \in [Account -> Nat]
           /\ raced' \in BOOLEAN
           /\ ~raced' => /\ ~raced
                         /\ twice' = {}
                         /\ \A a \in Account : nonces'[a] >= nonces[a]
                         /\ \A p \in debited' :
                                p[1] \in Account /\ p[2] \in Nat /\ p[2] < nonces'[p[1]]
<1>1. nonces' \in [Account -> Nat] /\ \A a \in Account : nonces'[a] >= nonces[a]
  BY DEF NonceInv, ReadOK, WriteBehind
<1>2. debited' = debited /\ twice' = twice /\ raced' = raced
  BY DEF WriteBehind, history
<1>3. \A a \in Account : nonces[a] \in Nat /\ nonces'[a] \in Nat
  BY <1>1 DEF NonceInv
<1> QED BY <1>1, <1>2, <1>3, SMTT(60) DEF NonceInv

\* The part of the invariant about tasks: a step that changes one task into one
\* that is not about to write leaves the others as they are.
LEMMA OtherTasksKeep ==
    ASSUME NonceInv, NEW u \in TaskId, NEW task, tasks' = [tasks EXCEPT ![u] = task],
           task.pc \in {"write", "rewrite"} => ReadOK(task)
    PROVE  /\ tasks' = [t \in TaskId |-> tasks'[t]]
           /\ \A t \in TaskId : tasks'[t].pc \in {"write", "rewrite"} => ReadOK(tasks'[t])
<1>1. tasks' = [t \in TaskId |-> IF t = u THEN task ELSE tasks[t]]
  BY DEF NonceInv
<1> QED BY <1>1, Zenon DEF NonceInv
\* The facts a step has to establish about storage, and about the tasks.
StorageKept ==
    /\ nonces' \in [Account -> Nat]
    /\ raced' \in BOOLEAN
    /\ ~raced' => /\ ~raced
                  /\ twice' = {}
                  /\ \A a \in Account : nonces'[a] >= nonces[a]
                  /\ \A p \in debited' :
                         p[1] \in Account /\ p[2] \in Nat /\ p[2] < nonces'[p[1]]

TasksKept ==
    /\ tasks' = [t \in TaskId |-> tasks'[t]]
    /\ \A t \in TaskId : tasks'[t].pc \in {"write", "rewrite"} => ReadOK(tasks'[t])

\* Leaving storage alone keeps the storage part.
LEMMA SameStorage ==
    ASSUME NonceInv, UNCHANGED <<nonces, history>>
    PROVE  StorageKept
BY DEF NonceInv, StorageKept, history

\* A spawned commit has not read anything yet.
LEMMA SpawnKeeps ==
    ASSUME NonceInv, NEW task, task.pc \notin {"write", "rewrite"}, Spawn(task)
    PROVE  TasksKept
<1> DEFINE free == {t \in TaskId : tasks[t] = Idle}
           u == CHOOSE t \in free : TRUE
<1>1. u \in TaskId /\ tasks' = [tasks EXCEPT ![u] = task]
  BY DEF Spawn
<1> HIDE DEF u
<1> QED BY <1>1, OtherTasksKeep, ZenonT(60) DEF TasksKept

\* Neither has an idle task.
LEMMA IdleReadsNothing == Idle.pc \notin {"write", "rewrite"}
BY Zenon DEF Idle

\* Nor the task that Continue leaves.
LEMMA ContinueReadsNothing ==
    ASSUME NEW task
    PROVE  Continue(task).pc \notin {"write", "rewrite"}
BY SMTT(60) DEF Continue, Idle

\* Every step of the node keeps the invariant and moves no nonce back, unless it
\* is the write of an overlap.
LEMMA NonceStep ==
    ASSUME NonceInv, [Next]_vars
    PROVE  StorageKept /\ TasksKept
<1>1. ASSUME NEW b, ReceiveBlock(b) \/ RegisterOwn(b) PROVE StorageKept /\ TasksKept
  <2>1. UNCHANGED <<nonces, history>> /\ tasks' = tasks
    BY <1>1, Zenon DEF ReceiveBlock, RegisterOwn, storage
  <2> QED BY <2>1, SameStorage, Zenon DEF NonceInv, TasksKept
<1>2. ASSUME NEW m, NEW valid, ReceiveFinal(m, valid) PROVE StorageKept /\ TasksKept
  <2>1. UNCHANGED <<nonces, history>>
    BY <1>2, Zenon DEF ReceiveFinal, storage
  <2>2. \/ tasks' = tasks
        \/ Spawn([pc |-> "read", path |-> "final", block |-> m.block, group |-> m.group,
                  queue |-> <<>>])
    BY <1>2, SMTT(60) DEF ReceiveFinal
  <2> QED BY <2>1, <2>2, SameStorage, SpawnKeeps, Zenon DEF NonceInv, TasksKept
<1>3. ASSUME NEW c, ReceiveCertificate(c) PROVE StorageKept /\ TasksKept
  <2>1. UNCHANGED <<nonces, history>>
    BY <1>3, SMTT(60) DEF ReceiveCertificate, storage
  <2>2. \/ tasks' = tasks
        \/ \E b : Spawn([pc |-> "execute", path |-> "cert", block |-> b, group |-> c.group,
                         queue |-> <<>>])
    BY <1>3, Zenon DEF ReceiveCertificate
  <2> QED BY <2>1, <2>2, SameStorage, SpawnKeeps, Zenon DEF NonceInv, TasksKept
<1>4. ASSUME NEW t \in TaskId, Execute(t) \/ ExecuteFails(t) \/ Admit(t) \/ Drain(t)
      PROVE  StorageKept /\ TasksKept
  <2>1. UNCHANGED <<nonces, history>>
    BY <1>4, Zenon DEF Execute, ExecuteFails, Admit, Drain, storage
  <2>2. \E task : tasks' = [tasks EXCEPT ![t] = task] /\ task.pc \notin {"write", "rewrite"}
    <3>1. CASE Execute(t)
      BY <3>1, Zenon DEF Execute
    <3>2. CASE ExecuteFails(t)
      <4>1. tasks' = [tasks EXCEPT ![t] = Idle]
        BY <3>2, SMTT(60) DEF ExecuteFails
      <4> QED BY <4>1, IdleReadsNothing, Zenon
    <3>3. CASE Admit(t)
      <4> DEFINE task == [pc |-> "drain", path |-> "cert", block |-> tasks[t].block,
                          group |-> tasks[t].group, queue |-> <<>>]
      <4>1. tasks' = [tasks EXCEPT ![t] = task]
        BY <3>3, SMTT(60) DEF Admit
      <4>2. task.pc \notin {"write", "rewrite"}
        BY Zenon
      <4> QED BY <4>1, <4>2, Zenon
    <3>4. CASE Drain(t)
      <4> DEFINE out == DrainReady(sch, nonces).out
                 task == [pc |-> "read", path |-> "cert", block |-> Head(out),
                          group |-> tasks[t].group, queue |-> Tail(out)]
      <4>1. tasks' = [tasks EXCEPT ![t] = Idle] \/ tasks' = [tasks EXCEPT ![t] = task]
        BY <3>4, Zenon DEF Drain
      <4>2. task.pc \notin {"write", "rewrite"}
        BY SMTT(60)
      <4> QED BY <4>1, <4>2, IdleReadsNothing, SMTT(60)
    <3> QED BY <1>4, <3>1, <3>2, <3>3, <3>4, SMTT(60)
  <2> QED BY <2>1, <2>2, SameStorage, OtherTasksKeep, Zenon DEF TasksKept
<1>5. ASSUME NEW t \in TaskId, Read(t) PROVE StorageKept /\ TasksKept
  <2>1. UNCHANGED <<nonces, history>>
    BY <1>5 DEF Read, storage
  <2> DEFINE Applies(short) == AppliedDirect(nonces, tasks[t].block, short)
             Task(short) ==
                 [pc |-> IF tasks[t].pc = "read" THEN "write" ELSE "rewrite",
                  path |-> tasks[t].path, block |-> tasks[t].block, group |-> tasks[t].group,
                  queue |-> tasks[t].queue,
                  debits |-> {<<tx.from, tx.nonce>> : tx \in Debiting(Applies(short))},
                  overlay |-> Overlay(nonces, Applies(short)),
                  base |-> nonces,
                  advance |-> HeightOf[tasks[t].block] > heads[tasks[t].group]]
  <2>2. PICK short : tasks' = [tasks EXCEPT ![t] = Task(short)]
    BY <1>5, Zenon DEF Read
  <2>3. ReadOK(Task(short))
    <3> DEFINE task == Task(short)
    <3>1. /\ task.base = nonces
          /\ task.overlay = Overlay(nonces, AppliedDirect(nonces, tasks[t].block, short))
          /\ task.debits = {<<tx.from, tx.nonce>> :
                                tx \in Debiting(AppliedDirect(nonces, tasks[t].block, short))}
      BY Zenon
    <3> HIDE DEF task
    <3>2. nonces \in [Account -> Nat]
      BY Zenon DEF NonceInv
    <3>3. ReadOK(task)
      BY <3>1, <3>2, ReadEstablishes, SMTT(60)
    <3> QED BY <3>3, Zenon DEF task
  <2> HIDE DEF Task
  <2> QED BY <2>1, <2>2, <2>3, SameStorage, OtherTasksKeep, Zenon DEF TasksKept
<1>6. ASSUME NEW t \in TaskId, Write(t) \/ WriteFails(t) \/ Rewrite(t)
      PROVE  StorageKept /\ TasksKept
  <2>1. ReadOK(tasks[t])
    BY <1>6, Zenon DEF NonceInv, Write, WriteFails, Rewrite
  <2>2. \E task : tasks' = [tasks EXCEPT ![t] = task] /\ task.pc \notin {"write", "rewrite"}
    <3>1. CASE Write(t) \/ WriteFails(t)
      BY <3>1, Zenon DEF Write, WriteFails, AfterWrite
    <3>2. CASE Rewrite(t)
      <4>1. AfterWrite(t, "reregister") \/ tasks' = [tasks EXCEPT ![t] = Idle]
        BY <3>2 DEF Rewrite
      <4>2. CASE AfterWrite(t, "reregister")
        <5> DEFINE task == [pc |-> "reregister", path |-> tasks[t].path,
                            block |-> tasks[t].block, group |-> tasks[t].group,
                            queue |-> tasks[t].queue]
        <5>1. tasks' = [tasks EXCEPT ![t] = task]
          BY <4>2, Zenon DEF AfterWrite
        <5>2. task.pc \notin {"write", "rewrite"}
          OBVIOUS
        <5> QED BY <5>1, <5>2, Zenon
      <4> QED BY <4>1, <4>2, IdleReadsNothing, ZenonT(60)
    <3> QED BY <1>6, <3>1, <3>2, SMTT(60)
  <2>3. WriteOverlay(tasks[t]) \/ WriteBehind(tasks[t]) \/ UNCHANGED <<nonces, history>>
    BY <1>6, Zenon DEF Write, WriteFails, Rewrite, storage
  <2>4. StorageKept
    BY <2>1, <2>3, WriteOverlayKeeps, WriteBehindKeeps, SameStorage, Zenon DEF StorageKept
  <2> QED BY <2>2, <2>4, OtherTasksKeep, Zenon DEF TasksKept
<1>7. ASSUME NEW t \in TaskId, Reregister(t) \/ Mark(t) PROVE StorageKept /\ TasksKept
  <2>1. UNCHANGED <<nonces, history>>
    BY <1>7, ZenonT(60) DEF Reregister, Mark, storage
  <2>2. tasks' = [tasks EXCEPT ![t] = Continue(tasks[t])]
    BY <1>7 DEF Reregister, Mark
  <2> QED BY <2>1, <2>2, SameStorage, OtherTasksKeep, ContinueReadsNothing, Zenon DEF TasksKept
<1>8. CASE Restart
  <2>1. UNCHANGED <<nonces, history>>
    BY <1>8, Zenon DEF Restart, storage
  <2>2. tasks' = [t \in TaskId |-> Idle] /\ Idle.pc = "idle"
    BY <1>8, Zenon DEF Restart, Idle
  <2> QED BY <2>1, <2>2, SameStorage DEF TasksKept
<1>9. CASE Tick \/ UNCHANGED vars
  <2>1. UNCHANGED <<nonces, history>> /\ tasks' = tasks
    BY <1>9 DEF Tick, vars, volatile, storage
  <2> QED BY <2>1, SameStorage, Zenon DEF NonceInv, TasksKept
<1> QED BY <1>1, <1>2, <1>3, <1>4, <1>5, <1>6, <1>7, <1>8, <1>9, ZenonT(30) DEF Next, Step

\* The invariant and its consequence for a step, as formulas.
LEMMA NonceInvStep ==
    NonceInv /\ [Next]_vars =>
        /\ NonceInv'
        /\ [~raced' => \A a \in Account : nonces'[a] >= nonces[a]]_vars
<1> SUFFICES ASSUME NonceInv, [Next]_vars
             PROVE  NonceInv' /\ (~raced' => \A a \in Account : nonces'[a] >= nonces[a])
  OBVIOUS
<1>1. StorageKept /\ TasksKept
  BY NonceStep
<1>2. /\ (nonces \in [Account -> Nat])'
      /\ (raced \in BOOLEAN)'
      /\ (~raced => /\ twice = {}
                    /\ \A p \in debited :
                           p[1] \in Account /\ p[2] \in Nat /\ p[2] < nonces[p[1]])'
      /\ ~raced' => \A a \in Account : nonces'[a] >= nonces[a]
  BY <1>1, Zenon DEF StorageKept
<1>3. /\ (tasks = [t \in TaskId |-> tasks[t]])'
      /\ (\A t \in TaskId : tasks[t].pc \in {"write", "rewrite"} => ReadOK(tasks[t]))'
  <2>1. (tasks = [t \in TaskId |-> tasks[t]])'
    BY <1>1, Zenon DEF TasksKept
  <2>2. ASSUME NEW t \in TaskId, tasks'[t].pc \in {"write", "rewrite"} PROVE ReadOK(tasks[t])'
    BY <1>1, <2>2 DEF TasksKept, ReadOK
  <2> QED BY <2>1, <2>2
<1> QED BY <1>2, <1>3, Zenon DEF NonceInv

\* It holds initially.
LEMMA NonceInit == Init => NonceInv
<1> SUFFICES ASSUME Init PROVE NonceInv
  OBVIOUS
<1>1. /\ nonces \in [Account -> Nat]
      /\ raced \in BOOLEAN
      /\ twice = {} /\ debited = {}
  BY Zenon DEF Init
<1>2. tasks = [t \in TaskId |-> tasks[t]] /\ \A t \in TaskId : tasks[t] = Idle
  BY DEF Init
<1> QED BY <1>1, <1>2, IdleReadsNothing, Zenon DEF NonceInv

\* For any blocks, accounts and schedule of tasks, certificates, failures and
\* restarts: no transfer is debited twice unless two commits overlapped on an
\* account.
THEOREM NoDoubleDebit == Spec => []DebitedOnce
<1>1. NonceInv => DebitedOnce
  BY DEF NonceInv, DebitedOnce
<1> QED BY <1>1, NonceInit, NonceInvStep, PTL DEF Spec

\* And no stored nonce goes back before such an overlap.
THEOREM NoncesNeverGoBack == Spec => NoncesGoForward
BY NonceInit, NonceInvStep, PTL DEF Spec, NoncesGoForward

-----------------------------------------------------------------------------
(* Only blocks of the instance, and a scheduler between two calls *)

\* The table holds blocks of the instance.
TableIn(t) == (\A e \in t.entries : e[1] \in Block) /\ t.committed \subseteq Block

\* What a lookup returns: such a table, and one of its blocks or none.
TakenIn(x) == TableIn(x.table) /\ x.block \in Block \cup {NoBlock}

\* Evictions and lookups remove entries, registering adds one.
LEMMA RemoveIn ==
    ASSUME NEW t, TableIn(t), NEW hs
    PROVE  TableIn(Remove(t, hs))
BY Zenon DEF TableIn, Remove

\* register_pending_with_group adds a block of the instance.
LEMMA RegisterIn ==
    ASSUME NEW t, TableIn(t), NEW h \in Block, NEW g, NEW time,
           NEW r \in RegisterPending(t, h, g, time)
    PROVE  TableIn(r)
<1> DEFINE kept == Remove(t, TimedOut(t, time))
<1>1. TableIn(kept)
  BY RemoveIn
<1>2. PICK k \in EvictStale(t, time) : r = k \/ r = RegisterNew(k, h, g, time)
  BY Zenon DEF RegisterPending
<1>3. k = kept \/ \E hs : k = Remove(kept, hs)
  BY DEF EvictStale
<1> HIDE DEF kept
<1>4. TableIn(k)
  BY <1>1, <1>3, RemoveIn, ZenonT(60)
<1>5. TableIn(RegisterNew(k, h, g, time))
  BY <1>4, SMTT(60) DEF RegisterNew, TableIn
<1> QED BY <1>2, <1>4, <1>5, SMTT(60)

\* A pending block is one of the instance.
LEMMA PendingIn ==
    ASSUME NEW t, TableIn(t), NEW h \in Pending(t)
    PROVE  h \in Block
BY Zenon DEF TableIn, Pending

\* take_pending returns one of the blocks of the table.
LEMMA TakePendingIn ==
    ASSUME NEW t, TableIn(t), NEW h
    PROVE  TakenIn(TakePending(t, h))
BY RemoveIn, PendingIn, Zenon DEF TakePending, TakenIn

\* So does the lookup by (height, group, tx_root).
LEMMA TakeByRootIn ==
    ASSUME NEW t, GoodTable(t), TableIn(t), NEW height, NEW g, NEW root
    PROVE  TakenIn(TakeByRoot(t, height, g, root))
<1> DEFINE h == Lookup(t.by_hgt, <<height, g, root>>)
           without == Without(t.by_hgt, <<height, g, root>>)
           t1 == [t EXCEPT !.by_hgt = without]
<1>1. TakeByRoot(t, height, g, root) =
         IF h # NoBlock /\ h \in Pending(t)
         THEN [table |-> Remove(t1, {h}), block |-> h]
         ELSE [table |-> t1, block |-> NoBlock]
  BY DEF TakeByRoot
<1> HIDE DEF without, h
<1>2. t1.entries = t.entries /\ t1.committed = t.committed
  BY DEF GoodTable, IsTable
<1> HIDE DEF t1
<1>3. TableIn(t1)
  BY <1>2, Zenon DEF TableIn
<1> QED BY <1>1, <1>3, RemoveIn, PendingIn, SMTT(60) DEF TakenIn

\* And the lookup by (height, group).
LEMMA TakeKeyIn ==
    ASSUME NEW t, GoodTable(t), TableIn(t), NEW height, NEW g
    PROVE  TakenIn(TakeKey(t, height, g))
<1> DEFINE h == Lookup(t.by_hg, <<height, g>>)
           without == Without(t.by_hg, <<height, g>>)
           t1 == [t EXCEPT !.by_hg = without]
           t2 == [entries |-> {e \in t1.entries : e[1] # h}, by_hg |-> t1.by_hg,
                  by_hgt |-> Retain(t1.by_hgt, {h}), committed |-> t1.committed]
<1>1. TakeKey(t, height, g) =
         IF h # NoBlock /\ h \in Pending(t)
         THEN [table |-> t2, block |-> h]
         ELSE [table |-> t1, block |-> NoBlock]
  BY Zenon DEF TakeKey
<1> HIDE DEF without, h
<1>2. t1.entries = t.entries /\ t1.committed = t.committed
  BY Zenon DEF GoodTable, IsTable
<1> HIDE DEF t1
<1>3. TableIn(t1)
  BY <1>2, Zenon DEF TableIn
<1>4. TableIn(t2)
  BY <1>3, Zenon DEF TableIn
<1> HIDE DEF t2
<1> QED BY <1>1, <1>3, <1>4, PendingIn, SMTT(60) DEF TakenIn

\* So the three lookups together find a block of the instance or none.
LEMMA TakeCertifiedIn ==
    ASSUME NEW t, GoodTable(t), TableIn(t), NEW hash, NEW height, NEW g, NEW root
    PROVE  TakenIn(TakeCertified(t, hash, height, g, root))
<1> DEFINE byHash == TakePending(t, hash)
           byRoot == TakeByRoot(byHash.table, height, g, root)
           byKey == TakeByHeightGroup(byRoot.table, height, g)
<1>1. TakenIn(byHash) /\ GoodTable(byHash.table)
  BY TakePendingIn, TakePendingGood, ZenonT(60)
<1>2. TakenIn(byRoot) /\ GoodTable(byRoot.table)
  BY <1>1, TakeByRootIn, TakeByRootGood, SMTT(60) DEF TakenIn
<1>3. TakenIn(byKey)
  <2> DEFINE u == byRoot.table
             first == TakeKey(u, height, g)
  <2>0. TableIn(u) /\ GoodTable(u)
    BY <1>2, Zenon DEF TakenIn
  <2> HIDE DEF u, byHash, byRoot
  <2>1. TakenIn(first) /\ GoodTable(first.table)
    BY <2>0, TakeKeyIn, TakeKeyGood, Zenon
  <2>2. TakenIn(TakeKey(first.table, height, NoGroup))
    BY <2>1, TakeKeyIn, SMTT(60) DEF TakenIn
  <2>3. TakenIn([table |-> u, block |-> NoBlock])
    BY <2>0 DEF TakenIn
  <2>4. TakenIn(TakeByHeightGroup(u, height, g))
    BY <2>1, <2>2, <2>3, Zenon DEF TakeByHeightGroup
  <2> QED BY <2>4, Zenon DEF u
<1>4. \/ TakeCertified(t, hash, height, g, root) = byHash
      \/ TakeCertified(t, hash, height, g, root) = byRoot
      \/ TakeCertified(t, hash, height, g, root) = byKey
  BY Zenon DEF TakeCertified
<1> HIDE DEF byHash, byRoot, byKey
<1> QED BY <1>1, <1>2, <1>3, <1>4, SMTT(60)
-----------------------------------------------------------------------------
\* A task works on blocks of the instance: the one it deals with and the ones a
\* drain handed it that still wait their turn.
IsTask(k) ==
    k # Idle => /\ k.block \in Block
                /\ k.path \in {"final", "cert"}
                /\ k.queue \in Seq(Block)

TasksInv ==
    /\ tasks = [t \in TaskId |-> tasks[t]]
    /\ \A t \in TaskId : IsTask(tasks[t])

\* Only a task that is not idle takes steps.
LEMMA BusyTask ==
    ASSUME TasksInv, NEW t \in TaskId, tasks[t].pc # "idle"
    PROVE  /\ tasks[t].block \in Block
           /\ tasks[t].path \in {"final", "cert"}
           /\ tasks[t].queue \in Seq(Block)
<1>1. tasks[t] # Idle
  BY DEF Idle
<1> QED BY <1>1, Zenon DEF TasksInv, IsTask

\* A step that replaces one task by another one of the right kind.
LEMMA OneTask ==
    ASSUME TasksInv, NEW u \in TaskId, NEW task, IsTask(task),
           tasks' = [tasks EXCEPT ![u] = task]
    PROVE  TasksInv'
<1>1. tasks' = [t \in TaskId |-> IF t = u THEN task ELSE tasks[t]]
  BY DEF TasksInv
<1>2. tasks' = [t \in TaskId |-> tasks'[t]] /\ \A t \in TaskId : IsTask(tasks'[t])
  BY <1>1, Zenon DEF TasksInv
<1> QED BY <1>2, Zenon DEF TasksInv, IsTask, Idle

\* A task that ended works on nothing.
LEMMA IdleTask == IsTask(Idle)
BY Zenon DEF IsTask

\* A spawned task takes the place of one that ended.
LEMMA SpawnTask ==
    ASSUME TasksInv, NEW task, IsTask(task), Spawn(task)
    PROVE  TasksInv'
<1> DEFINE free == {t \in TaskId : tasks[t] = Idle}
           u == CHOOSE t \in free : TRUE
<1>1. u \in TaskId /\ tasks' = [tasks EXCEPT ![u] = task]
  BY Zenon DEF Spawn
<1> HIDE DEF u
<1> QED BY <1>1, OneTask, Zenon

\* After a block the task ends, drains again or goes on with the next block.
LEMMA ContinueTask ==
    ASSUME NEW task, task.block \in Block, task.queue \in Seq(Block)
    PROVE  IsTask(Continue(task))
<1>1. CASE task.path = "final"
  BY <1>1, IdleTask, Zenon DEF Continue
<1>2. CASE task.path # "final" /\ task.queue = <<>>
  BY <1>2, Zenon DEF Continue, IsTask
<1>3. CASE task.path # "final" /\ task.queue # <<>>
  <2>1. Head(task.queue) \in Block /\ Tail(task.queue) \in Seq(Block)
    BY <1>3
  <2> QED BY <1>3, <2>1, Zenon DEF Continue, IsTask
<1> QED BY <1>1, <1>2, <1>3, SMTT(60)

\* The tasks keep to blocks of the instance.
LEMMA TasksStep ==
    ASSUME TasksInv, GoodTable(table), TableIn(table), GoodSch(sch), [Next]_vars
    PROVE  TasksInv'
<1>1. CASE tasks' = tasks
  BY <1>1, Zenon DEF TasksInv, IsTask, Idle
<1>2. ASSUME NEW m \in Finals, NEW valid, ReceiveFinal(m, valid) PROVE TasksInv'
  <2> DEFINE task == [pc |-> "read", path |-> "final", block |-> m.block, group |-> m.group,
                      queue |-> <<>>]
  <2>1. tasks' = tasks \/ Spawn(task)
    BY <1>2, Zenon DEF ReceiveFinal
  <2>2. IsTask(task)
    BY CommitAssumption DEF IsTask
  <2> HIDE DEF task
  <2> QED BY <1>1, <2>1, <2>2, SpawnTask, Zenon
<1>3. ASSUME NEW c, ReceiveCertificate(c) PROVE TasksInv'
  <2> DEFINE taken == TakeCertified(table, c.hash, c.height, c.group, c.root)
             task == [pc |-> "execute", path |-> "cert", block |-> taken.block,
                      group |-> c.group, queue |-> <<>>]
  <2>1. tasks' = tasks \/ (taken.block # NoBlock /\ Spawn(task))
    BY <1>3, Zenon DEF ReceiveCertificate
  <2>2. taken.block \in Block \cup {NoBlock}
    BY TakeCertifiedIn, Zenon DEF TakenIn
  <2> HIDE DEF taken
  <2>3. ASSUME taken.block # NoBlock PROVE IsTask(task)
    BY <2>2, <2>3 DEF IsTask
  <2> HIDE DEF task
  <2> QED BY <1>1, <2>1, <2>3, SpawnTask, Zenon
<1>4. ASSUME NEW t \in TaskId, Execute(t) PROVE TasksInv'
  <2>1. tasks[t].block \in Block
    BY <1>4, BusyTask DEF Execute
  <2> DEFINE Task(d) == [pc |-> "admit", path |-> "cert", block |-> tasks[t].block,
                         group |-> tasks[t].group, queue |-> <<>>, diff |-> d]
  <2>2. PICK d : tasks' = [tasks EXCEPT ![t] = Task(d)]
    BY <1>4, Zenon DEF Execute
  <2>3. IsTask(Task(d))
    BY <2>1 DEF IsTask
  <2> HIDE DEF Task
  <2> QED BY <2>2, <2>3, OneTask, ZenonT(60)
<1>5. ASSUME NEW t \in TaskId, ExecuteFails(t) PROVE TasksInv'
  <2>1. tasks' = [tasks EXCEPT ![t] = Idle]
    BY <1>5, Zenon DEF ExecuteFails
  <2> QED BY <2>1, IdleTask, OneTask, Zenon
<1>6. ASSUME NEW t \in TaskId, Admit(t) PROVE TasksInv'
  <2>1. tasks[t].block \in Block
    BY <1>6, BusyTask DEF Admit
  <2> DEFINE task == [pc |-> "drain", path |-> "cert", block |-> tasks[t].block,
                      group |-> tasks[t].group, queue |-> <<>>]
  <2>2. tasks' = [tasks EXCEPT ![t] = task]
    BY <1>6, Zenon DEF Admit
  <2>3. IsTask(task)
    BY <2>1 DEF IsTask
  <2> HIDE DEF task
  <2> QED BY <2>2, <2>3, OneTask, Zenon
<1>7. ASSUME NEW t \in TaskId, Drain(t) PROVE TasksInv'
  <2> DEFINE out == DrainReady(sch, nonces).out
             task == [pc |-> "read", path |-> "cert", block |-> Head(out),
                      group |-> tasks[t].group, queue |-> Tail(out)]
  <2>1. \/ tasks' = [tasks EXCEPT ![t] = Idle]
        \/ out # <<>> /\ tasks' = [tasks EXCEPT ![t] = task]
    BY <1>7, Zenon DEF Drain
  <2>2. out \in Seq(Block)
    BY DrainGood, Zenon
  <2> HIDE DEF out
  <2>3. ASSUME out # <<>> PROVE IsTask(task)
    <3>1. Head(out) \in Block /\ Tail(out) \in Seq(Block)
      BY <2>2, <2>3, SMTT(60)
    <3> QED BY <3>1, SMTT(60) DEF IsTask
  <2> HIDE DEF task
  <2> QED BY <2>1, <2>3, IdleTask, OneTask, Zenon
<1>8. ASSUME NEW t \in TaskId, Read(t) PROVE TasksInv'
  <2>1. /\ tasks[t].block \in Block
        /\ tasks[t].path \in {"final", "cert"}
        /\ tasks[t].queue \in Seq(Block)
    BY <1>8, BusyTask DEF Read
  <2> DEFINE Task(pc, x, y, z) ==
               [pc |-> pc, path |-> tasks[t].path, block |-> tasks[t].block,
                group |-> tasks[t].group, queue |-> tasks[t].queue, debits |-> x,
                overlay |-> y, base |-> nonces, advance |-> z]
             Applies(short) == AppliedDirect(nonces, tasks[t].block, short)
             Reading(short) ==
               Task(IF tasks[t].pc = "read" THEN "write" ELSE "rewrite",
                    {<<tx.from, tx.nonce>> : tx \in Debiting(Applies(short))},
                    Overlay(nonces, Applies(short)),
                    HeightOf[tasks[t].block] > heads[tasks[t].group])
  <2>2. PICK short : tasks' = [tasks EXCEPT ![t] = Reading(short)]
    BY <1>8, ZenonT(60) DEF Read
  <2>3. ASSUME NEW pc, NEW x, NEW y, NEW z PROVE IsTask(Task(pc, x, y, z))
    BY <2>1 DEF IsTask
  <2> HIDE DEF Task
  <2>4. IsTask(Reading(short))
    BY <2>3, Zenon
  <2> HIDE DEF Reading
  <2> QED BY <2>2, <2>4, OneTask, Zenon
<1>9. ASSUME NEW t \in TaskId, NEW pc, AfterWrite(t, pc), tasks[t].pc # "idle" PROVE TasksInv'
  <2>1. /\ tasks[t].block \in Block
        /\ tasks[t].path \in {"final", "cert"}
        /\ tasks[t].queue \in Seq(Block)
    BY <1>9, BusyTask
  <2> DEFINE task == [pc |-> pc, path |-> tasks[t].path, block |-> tasks[t].block,
                      group |-> tasks[t].group, queue |-> tasks[t].queue]
  <2>2. tasks' = [tasks EXCEPT ![t] = task]
    BY <1>9, ZenonT(60) DEF AfterWrite
  <2>3. IsTask(task)
    BY <2>1 DEF IsTask
  <2> HIDE DEF task
  <2> QED BY <2>2, <2>3, OneTask, Zenon
<1>10. ASSUME NEW t \in TaskId, Write(t) \/ WriteFails(t) \/ Rewrite(t) PROVE TasksInv'
  <2>1. tasks[t].pc # "idle"
    BY <1>10, Zenon DEF Write, WriteFails, Rewrite
  <2>2. (\E pc : AfterWrite(t, pc)) \/ tasks' = [tasks EXCEPT ![t] = Idle]
    BY <1>10, Zenon DEF Write, WriteFails, Rewrite
  <2> QED BY <1>9, <2>1, <2>2, IdleTask, OneTask, Zenon
<1>11. ASSUME NEW t \in TaskId, Reregister(t) \/ Mark(t) PROVE TasksInv'
  <2>1. tasks[t].block \in Block /\ tasks[t].queue \in Seq(Block)
    BY <1>11, BusyTask, Zenon DEF Reregister, Mark
  <2>2. tasks' = [tasks EXCEPT ![t] = Continue(tasks[t])]
    BY <1>11, Zenon DEF Reregister, Mark
  <2>3. IsTask(Continue(tasks[t]))
    BY <2>1, ContinueTask, Zenon
  <2> QED BY <2>2, <2>3, OneTask, Zenon
<1>12. CASE Restart
  <2>1. tasks' = [t \in TaskId |-> Idle]
    BY <1>12, Zenon DEF Restart
  <2>2. tasks' = [t \in TaskId |-> tasks'[t]] /\ \A t \in TaskId : IsTask(tasks'[t])
    BY <2>1, IdleTask, ZenonT(60)
  <2> QED BY <2>2, Zenon DEF TasksInv, IsTask, Idle
<1>13. ASSUME NEW b, ReceiveBlock(b) \/ RegisterOwn(b) PROVE TasksInv'
  BY <1>1, <1>13, Zenon DEF ReceiveBlock, RegisterOwn
<1>14. CASE Tick \/ UNCHANGED vars
  BY <1>1, <1>14, Zenon DEF Tick, vars, volatile
<1> QED BY <1>2, <1>3, <1>4, <1>5, <1>6, <1>7, <1>8, <1>10, <1>11, <1>12, <1>13, <1>14,
           ZenonT(60) DEF Next, Step
\* The calls of the tasks leave the scheduler in a state between two calls.
LEMMA SchStep ==
    ASSUME TasksInv, GoodSch(sch), [Next]_vars
    PROVE  GoodSch(sch')
<1>1. ASSUME NEW t \in TaskId, Admit(t) PROVE GoodSch(sch')
  <2>1. tasks[t].block \in Block
    BY <1>1, BusyTask DEF Admit
  <2>2. sch' \in AdmitBlock(sch, tasks[t].block, tasks[t].diff)
    BY <1>1, Zenon DEF Admit
  <2> QED BY <2>1, <2>2, AdmitGood, ZenonT(60)
<1>2. ASSUME NEW t \in TaskId, Drain(t) PROVE GoodSch(sch')
  <2>1. sch' = DrainReady(sch, nonces).s
    BY <1>2, Zenon DEF Drain
  <2> QED BY <2>1, DrainGood, Zenon
<1>3. ASSUME NEW t \in TaskId, Mark(t) PROVE GoodSch(sch')
  <2> DEFINE h == HeightOf[tasks[t].block]
             keep == IF h > GcWindow THEN h - GcWindow ELSE 0
  <2>1. sch' = sch \/ \E s \in WakeDeferred(sch, nonces) : sch' = Gc(s, keep)
    BY <1>3, Zenon DEF Mark
  <2> HIDE DEF keep
  <2> QED BY <2>1, WakeGood, GcGood, Zenon
<1>4. CASE Restart
  BY <1>4, EmptyGood, Zenon DEF Restart
<1>5. CASE sch' = sch
  BY <1>5, Zenon
<1>6. ASSUME NEW t, \/ Execute(t) \/ ExecuteFails(t) \/ Read(t) \/ Write(t) \/ WriteFails(t)
                    \/ Rewrite(t) \/ Reregister(t)
      PROVE  sch' = sch
  BY <1>6, Zenon DEF Execute, ExecuteFails, Read, Write, WriteFails, Rewrite, Reregister
<1>7. ASSUME NEW b, ReceiveBlock(b) \/ RegisterOwn(b) PROVE sch' = sch
  BY <1>7, Zenon DEF ReceiveBlock, RegisterOwn
<1>8. ASSUME NEW m, NEW valid, ReceiveFinal(m, valid) PROVE sch' = sch
  BY <1>8, Zenon DEF ReceiveFinal
<1>9. ASSUME NEW c, ReceiveCertificate(c) PROVE sch' = sch
  BY <1>9, Zenon DEF ReceiveCertificate
<1>10. ASSUME Tick \/ UNCHANGED vars PROVE sch' = sch
  BY <1>10, Zenon DEF Tick, vars, volatile
<1> QED BY <1>1, <1>2, <1>3, <1>4, <1>5, <1>6, <1>7, <1>8, <1>9, <1>10, ZenonT(60) DEF Next, Step

\* The pending table keeps to blocks of the instance.
LEMMA TableInStep ==
    ASSUME TasksInv, GoodTable(table), TableIn(table), [Next]_vars
    PROVE  TableIn(table')
<1>1. ASSUME NEW b \in Block, ReceiveBlock(b) \/ RegisterOwn(b) PROVE TableIn(table')
  BY <1>1, RegisterIn, Zenon DEF ReceiveBlock, RegisterOwn
<1>2. ASSUME NEW c, ReceiveCertificate(c) PROVE TableIn(table')
  <2> DEFINE taken == TakeCertified(table, c.hash, c.height, c.group, c.root)
  <2>1. table' = table \/ table' = taken.table
    BY <1>2, Zenon DEF ReceiveCertificate
  <2>2. TakenIn(taken)
    BY TakeCertifiedIn, Zenon
  <2> HIDE DEF taken
  <2> QED BY <2>1, <2>2, Zenon DEF TakenIn
<1>3. ASSUME NEW t \in TaskId, Reregister(t) PROVE TableIn(table')
  <2>1. tasks[t].block \in Block
    BY <1>3, BusyTask, SMTT(60) DEF Reregister
  <2> QED BY <1>3, <2>1, RegisterIn, Zenon DEF Reregister
<1>4. ASSUME NEW t \in TaskId, Mark(t) PROVE TableIn(table')
  <2>1. tasks[t].block \in Block
    BY <1>4, BusyTask, SMTT(60) DEF Mark
  <2>2. table' = [table EXCEPT !.committed = table.committed \cup {tasks[t].block}]
    BY <1>4, Zenon DEF Mark, MarkCommitted
  <2>3. table'.entries = table.entries /\ table'.committed = table.committed \cup {tasks[t].block}
    BY <2>2 DEF GoodTable, IsTable
  <2> QED BY <2>1, <2>3, ZenonT(60) DEF TableIn
<1>5. CASE Restart
  <2>1. table'.entries = {} /\ table'.committed = {}
    BY <1>5, SMTT(60) DEF Restart, EmptyTable
  <2> QED BY <2>1, ZenonT(60) DEF TableIn
<1>6. ASSUME NEW t, \/ Execute(t) \/ ExecuteFails(t) \/ Admit(t) \/ Drain(t) \/ Read(t)
                    \/ Write(t) \/ WriteFails(t) \/ Rewrite(t)
      PROVE  table' = table
  BY <1>6, Zenon DEF Execute, ExecuteFails, Admit, Drain, Read, Write, WriteFails, Rewrite
<1>7. ASSUME NEW m, NEW valid, ReceiveFinal(m, valid) PROVE table' = table
  BY <1>7, Zenon DEF ReceiveFinal
<1>8. ASSUME Tick \/ UNCHANGED vars PROVE table' = table
  BY <1>8, Zenon DEF Tick, vars, volatile
<1>9. \A b \in OwnBlocks : b \in Block
  BY CommitAssumption, Zenon
<1>10. CASE table' = table
  BY <1>10, Zenon
<1> QED BY <1>1, <1>2, <1>3, <1>4, <1>5, <1>6, <1>7, <1>8, <1>9, <1>10, ZenonT(60) DEF Next, Step

\* Heights of the gossip loop, heads and stored blocks have their types.
LanesInv ==
    /\ heights \subseteq {HeightOf[b] : b \in Block}
    /\ heads \in [Group \cup {NoGroup} -> Nat]
    /\ stored \subseteq Block

\* A height is taken, a head moved and a block stored only for a block of the
\* instance.
LEMMA LanesStep ==
    ASSUME TasksInv, LanesInv, [Next]_vars
    PROVE  LanesInv'
<1>1. CASE UNCHANGED <<heights, heads, stored>>
  BY <1>1, Zenon DEF LanesInv
<1>2. ASSUME NEW m \in Finals, NEW valid, ReceiveFinal(m, valid) PROVE LanesInv'
  <2>1. heights' = heights \cup {HeightOf[m.block]} /\ UNCHANGED <<heads, stored>>
    BY <1>2, ZenonT(60) DEF ReceiveFinal, storage
  <2>2. m.block \in Block
    BY CommitAssumption, Zenon
  <2> QED BY <2>1, <2>2, Zenon DEF LanesInv
<1>3. ASSUME NEW t \in TaskId, Write(t) PROVE LanesInv'
  <2> DEFINE b == tasks[t].block
             h == HeightOf[b]
             g == tasks[t].group
  <2>1. b \in Block
    BY <1>3, BusyTask, Zenon DEF Write
  <2>2. h \in Nat
    BY <2>1, BlocksAssumption, SMTT(60)
  <2>3. /\ heights' = heights
        /\ stored' = stored \/ stored' = stored \cup {b}
        /\ heads' = heads \/ heads' = [heads EXCEPT ![g] = h, ![NoGroup] = h]
    BY <1>3, Zenon DEF Write
  <2> HIDE DEF b, h, g
  <2>4. heads' \in [Group \cup {NoGroup} -> Nat]
    BY <2>2, <2>3, SMTT(60) DEF LanesInv
  <2> QED BY <2>1, <2>3, <2>4, Zenon DEF LanesInv
<1>4. CASE Restart
  <2>1. heights' = {} /\ UNCHANGED <<heads, stored>>
    BY <1>4, ZenonT(60) DEF Restart, storage
  <2> QED BY <2>1, Zenon DEF LanesInv
<1>5. ASSUME NEW t, \/ Execute(t) \/ ExecuteFails(t) \/ Admit(t) \/ Drain(t) \/ Read(t)
                    \/ WriteFails(t) \/ Rewrite(t) \/ Reregister(t) \/ Mark(t)
      PROVE  UNCHANGED <<heights, heads, stored>>
  BY <1>5, ZenonT(60) DEF Execute, ExecuteFails, Admit, Drain, Read, WriteFails, Rewrite,
                     Reregister, Mark, storage
<1>6. ASSUME NEW b, ReceiveBlock(b) \/ RegisterOwn(b) PROVE UNCHANGED <<heights, heads, stored>>
  BY <1>6, ZenonT(60) DEF ReceiveBlock, RegisterOwn, storage
<1>7. ASSUME NEW c, ReceiveCertificate(c) PROVE UNCHANGED <<heights, heads, stored>>
  BY <1>7, Zenon DEF ReceiveCertificate, storage
<1>8. ASSUME Tick \/ UNCHANGED vars PROVE UNCHANGED <<heights, heads, stored>>
  BY <1>8, Zenon DEF Tick, vars, volatile, storage
<1> QED BY <1>1, <1>2, <1>3, <1>4, <1>5, <1>6, <1>7, <1>8, ZenonT(60) DEF Next, Step
-----------------------------------------------------------------------------
\* The inductive invariant of the commit path.
CommitInv ==
    /\ GoodTable(table)
    /\ TableIn(table)
    /\ GoodSch(sch)
    /\ TasksInv
    /\ LanesInv

\* It holds initially.
LEMMA CommitInit == Init => CommitInv
<1> SUFFICES ASSUME Init PROVE CommitInv
  OBVIOUS
<1>1. GoodTable(table) /\ TableIn(table)
  BY Zenon DEF Init, EmptyTable, GoodTable, IsTable, TableOK, TableIn
<1>2. GoodSch(sch)
  BY EmptyGood, Zenon DEF Init
<1>3. TasksInv
  BY IdleTask, ZenonT(60) DEF Init, TasksInv
<1>4. LanesInv
  BY Zenon DEF Init, LanesInv
<1> QED BY <1>1, <1>2, <1>3, <1>4, ZenonT(60) DEF CommitInv

\* Every step of the node keeps it.
LEMMA CommitStep == CommitInv /\ [Next]_vars => CommitInv'
<1> SUFFICES ASSUME CommitInv, [Next]_vars PROVE CommitInv'
  BY Zenon
<1>1. GoodTable(table) /\ TableIn(table) /\ GoodSch(sch) /\ TasksInv /\ LanesInv
  BY Zenon DEF CommitInv
<1>2. GoodTable(table)' /\ TableIn(table)'
  BY <1>1, TableStep, TableInStep, ZenonT(60) DEF TableIn
<1>3. GoodSch(sch)'
  BY <1>1, SchStep, ZenonT(60) DEF GoodSch, SchType, SchedulerOK
<1>4. TasksInv'
  BY <1>1, TasksStep, Zenon
<1>5. LanesInv'
  BY <1>1, LanesStep, Zenon
<1> QED BY <1>2, <1>3, <1>4, <1>5, Zenon DEF CommitInv

\* For any blocks, accounts, certificates and hash orders, and any interleaving
\* of the tasks that share the scheduler, with failures and restarts: between two
\* calls every conflict set is resolved for its canonical winner, and a block
\* that may still commit is in the ready queue or deferred, unless a drain
\* dropped it for a used nonce.
THEOREM NoBlockIsStranded == Spec => []NoBlockStranded
<1>1. CommitInv => NoBlockStranded
  BY Zenon DEF CommitInv, GoodSch, NoBlockStranded
<1> QED BY <1>1, CommitInit, CommitStep, PTL DEF Spec

\* Tables, scheduler, tasks and storage keep their types.
THEOREM CommitTypes == Spec => []TypeOK
<1>1. CommitInv /\ NonceInv => TypeOK
  <2> SUFFICES ASSUME CommitInv, NonceInv PROVE TypeOK
    BY Zenon
  <2>1. Pending(table) \cup table.committed \subseteq Block
    BY PendingIn, Zenon DEF CommitInv, TableIn
  <2>2. DOMAIN sch.meta \cup sch.committed \subseteq Block
    BY Zenon DEF CommitInv, GoodSch, SchType, IsMeta
  <2>3. \A t \in TaskId : tasks[t] # Idle =>
           tasks[t].block \in Block /\ tasks[t].path \in {"final", "cert"}
    BY Zenon DEF CommitInv, TasksInv, IsTask
  <2>4. nonces \in [Account -> Nat]
    BY Zenon DEF NonceInv
  <2> QED BY <2>1, <2>2, <2>3, <2>4, Zenon DEF TypeOK, CommitInv, LanesInv
<1> QED BY <1>1, CommitInit, CommitStep, NonceInit, NonceInvStep, PTL DEF Spec
=============================================================================
