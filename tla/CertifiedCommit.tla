---------------------------- MODULE CertifiedCommit ----------------------------
(***************************************************************************)
(* How a lightnode commits certified blocks (the gossip handlers of        *)
(* savitri-lightnode/src/p2p/network/mod.rs and the commit path of         *)
(* p2p/block.rs).  A block reaches storage along two paths that share      *)
(* nothing but storage: block_final carries block and certificate and      *)
(* spawns a commit at once; a bare certificate takes its block out of the  *)
(* pending table and spawns a task that goes through the commit scheduler. *)
(* Tasks run concurrently on tokio's worker threads.  A commit reads the   *)
(* accounts, computes an overlay and writes it in a later step; no lock is *)
(* held in between.  The mempool's part is in MempoolPipeline.             *)
(***************************************************************************)
EXTENDS PendingBlocks, CommitScheduler, BlockExecution

CONSTANTS
    OwnBlocks,      \* blocks this node produces; the others arrive by gossip
    Finals,         \* messages on block_final: [block, group]
    Certificates,   \* certificates on the cert topic: [hash, height, group, root]
    LocalGroup,     \* the node's own group, under which gossip is registered
    MayLack,        \* transfers whose sender may be short of funds
    TaskId,
    GcWindow,       \* heights the scheduler keeps behind a commit, 100
    MaxTime,        \* bound on the clock
    MaxCerts,       \* bound on the certificates received
    MaxFaults       \* bound on failed commits and restarts

ASSUME CommitAssumption ==
    /\ OwnBlocks \subseteq Block
    /\ \A m \in Finals : m.block \in Block

VARIABLES
    table,      \* certificate_pending
    sch,        \* commit_scheduler
    heights,    \* committed_heights of the gossip loop
    tasks,      \* the spawned commits
    nonces,     \* storage: account nonces
    heads,      \* storage: chain head height of every group's lane
    stored,     \* storage: blocks of the single lane (no group id)
    now,
    certs,      \* certificates received so far
    faults,     \* failed commits and restarts so far
    debited,    \* history: <<account, nonce>> pairs debited by a commit
    twice,      \* history: the ones debited more than once
    raced       \* history: an overlay was written over accounts changed since

volatile == <<table, sch, heights, tasks>>
storage == <<nonces, heads, stored>>
history == <<debited, twice, raced>>
vars == <<volatile, storage, now, certs, faults, history>>

Idle == [pc |-> "idle"]

Init ==
    /\ table = EmptyTable
    /\ sch = EmptyScheduler
    /\ heights = {}
    /\ tasks = [t \in TaskId |-> Idle]
    /\ nonces = [a \in Account |-> 0]
    /\ heads = [g \in Group \cup {NoGroup} |-> 0]
    /\ stored = {}
    /\ now = 0
    /\ certs = 0
    /\ faults = 0
    /\ debited = {}
    /\ twice = {}
    /\ raced = FALSE

-----------------------------------------------------------------------------
(* The gossip loop *)

\* A spawned task takes a free id; which one does not matter.
Spawn(task) ==
    LET free == {t \in TaskId : tasks[t] = Idle} IN
    /\ free # {}
    /\ tasks' = [tasks EXCEPT ![CHOOSE t \in free : TRUE] = task]

\* prepare_remote_block passes over a block that the single lane already has.
Prepared(b) == b \notin stored

\* A block from the block topic: registered under the node's own group.  When
\* the table's lock is busy the block is dropped, like a lost message.
ReceiveBlock(b) ==
    /\ Prepared(b)
    /\ b \notin table.committed
    /\ table' \in RegisterPending(table, b, LocalGroup, now)
    /\ UNCHANGED <<sch, heights, tasks, storage, now, certs, faults, history>>

\* A block this node produced: registered without a group.
RegisterOwn(b) ==
    /\ table' \in RegisterPending(table, b, NoGroup, now)
    /\ UNCHANGED <<sch, heights, tasks, storage, now, certs, faults, history>>

\* BlockWithCertificate: the height is taken before the certificate is looked
\* at, so an invalid first message uses it up.
ReceiveFinal(m, valid) ==
    /\ HeightOf[m.block] \notin heights
    /\ heights' = heights \cup {HeightOf[m.block]}
    /\ IF valid /\ Prepared(m.block)
       THEN Spawn([pc |-> "read", path |-> "final", block |-> m.block, group |-> m.group,
                   queue |-> <<>>])
       ELSE UNCHANGED tasks
    /\ UNCHANGED <<table, sch, storage, now, certs, faults, history>>

\* Mutant of ReceiveCertificate: the commit is spawned although no lookup found
\* a block.
ReceiveCertificateUnchecked(c) ==
    LET taken == TakeCertified(table, c.hash, c.height, c.group, c.root) IN
    /\ certs < MaxCerts
    /\ certs' = certs + 1
    /\ table' = taken.table
    /\ Spawn([pc |-> "execute", path |-> "cert", block |-> taken.block, group |-> c.group,
              queue |-> <<>>])
    /\ UNCHANGED <<sch, heights, storage, now, faults, history>>

\* A valid certificate on the cert topic.
ReceiveCertificate(c) ==
    LET taken == TakeCertified(table, c.hash, c.height, c.group, c.root) IN
    /\ certs < MaxCerts
    /\ certs' = certs + 1
    /\ IF c.hash \in table.committed THEN UNCHANGED <<table, tasks>>
       ELSE /\ table' = taken.table
            /\ IF taken.block = NoBlock THEN UNCHANGED tasks
               ELSE Spawn([pc |-> "execute", path |-> "cert", block |-> taken.block,
                           group |-> c.group, queue |-> <<>>])
    /\ UNCHANGED <<sch, heights, storage, now, faults, history>>

-----------------------------------------------------------------------------
(* The certificate task *)

Fault == faults < MaxFaults /\ faults' = faults + 1

\* Speculative execution against the stored accounts of this moment.
Execute(t) ==
    /\ tasks[t].pc = "execute"
    /\ \E short \in SUBSET (Txs(tasks[t].block) \cap MayLack) :
           tasks' = [tasks EXCEPT ![t] =
               [pc |-> "admit", path |-> "cert", block |-> @.block, group |-> @.group,
                queue |-> <<>>,
                diff |-> Overlay(nonces, Applied(nonces, @.block, short))]]
    /\ UNCHANGED <<table, sch, heights, storage, now, certs, faults, history>>

\* A storage error in the speculative execution ends the task; its block is in
\* no table any more.
ExecuteFails(t) ==
    /\ tasks[t].pc = "execute"
    /\ Fault
    /\ tasks' = [tasks EXCEPT ![t] = Idle]
    /\ UNCHANGED <<table, sch, heights, storage, now, certs, history>>

Admit(t) ==
    /\ tasks[t].pc = "admit"
    /\ sch' \in AdmitBlock(sch, tasks[t].block, tasks[t].diff)
    /\ tasks' = [tasks EXCEPT ![t] =
           [pc |-> "drain", path |-> "cert", block |-> @.block, group |-> @.group,
            queue |-> <<>>]]
    /\ UNCHANGED <<table, heights, storage, now, certs, faults, history>>

\* Mutant of Drain: after an empty drain the task admits its block again.
DrainRetries(t) ==
    LET d == DrainReady(sch, nonces) IN
    /\ tasks[t].pc = "drain"
    /\ sch' = d.s
    /\ tasks' = [tasks EXCEPT ![t] =
           IF d.out = <<>>
           THEN [pc |-> "admit", path |-> "cert", block |-> @.block, group |-> @.group,
                 queue |-> <<>>, diff |-> <<>>]
           ELSE [pc |-> "read", path |-> "cert", block |-> Head(d.out), group |-> @.group,
                 queue |-> Tail(d.out)]]
    /\ UNCHANGED <<table, heights, storage, now, certs, faults, history>>

\* The task commits the blocks a drain hands it, which may be other tasks'
\* blocks, and ends when a drain hands it none.
Drain(t) ==
    LET d == DrainReady(sch, nonces) IN
    /\ tasks[t].pc = "drain"
    /\ sch' = d.s
    /\ tasks' = [tasks EXCEPT ![t] =
           IF d.out = <<>> THEN Idle
           ELSE [pc |-> "read", path |-> "cert", block |-> Head(d.out), group |-> @.group,
                 queue |-> Tail(d.out)]]
    /\ UNCHANGED <<table, heights, storage, now, certs, faults, history>>

\* The task after a block is dealt with.
Continue(task) ==
    IF task.path = "final" THEN Idle
    ELSE IF task.queue = <<>>
    THEN [pc |-> "drain", path |-> "cert", block |-> task.block, group |-> task.group,
          queue |-> <<>>]
    ELSE [pc |-> "read", path |-> "cert", block |-> Head(task.queue), group |-> task.group,
          queue |-> Tail(task.queue)]

-----------------------------------------------------------------------------
(* finalize_remote_block_commit *)

\* The accounts are read and the overlay is built (apply_certified_block_direct).
\* A commit whose write failed comes here again for its fallback.
Read(t) ==
    /\ tasks[t].pc \in {"read", "reread"}
    /\ \E short \in SUBSET (Txs(tasks[t].block) \cap MayLack) :
           LET task == tasks[t]
               applied == AppliedDirect(nonces, task.block, short)
           IN  tasks' = [tasks EXCEPT ![t] =
                   [pc |-> IF task.pc = "read" THEN "write" ELSE "rewrite",
                    path |-> task.path, block |-> task.block, group |-> task.group,
                    queue |-> task.queue,
                    debits |-> {<<tx.from, tx.nonce>> : tx \in Debiting(applied)},
                    overlay |-> Overlay(nonces, applied),
                    base |-> nonces,
                    advance |-> HeightOf[task.block] > heads[task.group]]]
    /\ UNCHANGED <<table, sch, heights, storage, now, certs, faults, history>>

\* The overlay goes to storage and its transfers are debited.
WriteOverlay(task) ==
    /\ nonces' = [a \in Account |-> IF a \in DOMAIN task.overlay THEN task.overlay[a]
                                    ELSE nonces[a]]
    /\ debited' = debited \cup task.debits
    /\ twice' = twice \cup (debited \cap task.debits)
    /\ raced' = (raced \/ \E a \in DOMAIN task.overlay : nonces[a] # task.base[a])

\* A block that does not advance its lane's head moves nonces forward only, and
\* no balance.
WriteBehind(task) ==
    /\ nonces' = [a \in Account |->
           IF a \in DOMAIN task.overlay /\ task.overlay[a] > nonces[a]
           THEN task.overlay[a] ELSE nonces[a]]
    /\ UNCHANGED history

\* Whether the block advances its lane.  The head is read after the accounts and
\* before the write, and seen as it was at either end.
Advances(task) == {task.advance, HeightOf[task.block] > heads[task.group]}

AfterWrite(t, pc) ==
    tasks' = [tasks EXCEPT ![t] =
        [pc |-> pc, path |-> @.path, block |-> @.block, group |-> @.group,
         queue |-> @.queue]]

\* The batch with accounts, block and head is atomic; a group's commit also moves
\* the single lane's head.  The payment of the fees that follows can still fail
\* the commit.
Write(t) ==
    LET task == tasks[t] IN
    /\ task.pc = "write"
    /\ \/ /\ TRUE \in Advances(task)
          /\ WriteOverlay(task)
          /\ heads' = [heads EXCEPT ![task.group] = HeightOf[task.block],
                                    ![NoGroup] = HeightOf[task.block]]
          /\ stored' = IF task.group = NoGroup THEN stored \cup {task.block} ELSE stored
       \/ /\ FALSE \in Advances(task)
          /\ WriteBehind(task)
          /\ UNCHANGED <<heads, stored>>
    /\ \/ AfterWrite(t, "mark") /\ UNCHANGED faults
       \/ AfterWrite(t, "reread") /\ Fault
    /\ UNCHANGED <<table, sch, heights, now, certs>>

\* commit_pending_block fails before it wrote anything.
WriteFails(t) ==
    /\ tasks[t].pc = "write"
    /\ TRUE \in Advances(tasks[t])
    /\ AfterWrite(t, "reread")
    /\ Fault
    /\ UNCHANGED <<table, sch, heights, storage, now, certs, history>>

\* The fallback after a failed commit: the accounts alone are written, or the
\* failure persists and nothing is.
Rewrite(t) ==
    LET task == tasks[t] IN
    /\ task.pc = "rewrite"
    /\ WriteOverlay(task) \/ UNCHANGED <<nonces, history>>
    /\ IF task.path = "cert" THEN AfterWrite(t, "reregister")
       ELSE tasks' = [tasks EXCEPT ![t] = Idle]
    /\ UNCHANGED <<table, sch, heights, heads, stored, now, certs, faults>>

\* The certificate path registers the block again for another certificate.
Reregister(t) ==
    /\ tasks[t].pc = "reregister"
    /\ table' \in RegisterPending(table, tasks[t].block, NoGroup, now)
    /\ tasks' = [tasks EXCEPT ![t] = Continue(@)]
    /\ UNCHANGED <<sch, heights, storage, now, certs, faults, history>>

\* After a successful commit the hash is marked; the certificate path, still
\* holding the table's lock, wakes deferred blocks and collects old ones.
Mark(t) ==
    LET task == tasks[t]
        keep == IF HeightOf[task.block] > GcWindow THEN HeightOf[task.block] - GcWindow ELSE 0
    IN
    /\ task.pc = "mark"
    /\ table' = MarkCommitted(table, task.block)
    /\ IF task.path = "cert"
       THEN \E s \in WakeDeferred(sch, nonces) : sch' = Gc(s, keep)
       ELSE UNCHANGED sch
    /\ tasks' = [tasks EXCEPT ![t] = Continue(@)]
    /\ UNCHANGED <<heights, storage, now, certs, faults, history>>

-----------------------------------------------------------------------------
\* A stop at any moment and a restart: storage survives, nothing else does.
Restart ==
    /\ Fault
    /\ table' = EmptyTable
    /\ sch' = EmptyScheduler
    /\ heights' = {}
    /\ tasks' = [t \in TaskId |-> Idle]
    /\ UNCHANGED <<storage, now, certs, history>>

Tick ==
    /\ now < MaxTime
    /\ now' = now + 1
    /\ UNCHANGED <<volatile, storage, certs, faults, history>>

Step(t) ==
    \/ Execute(t) \/ ExecuteFails(t) \/ Admit(t) \/ Drain(t) \/ Read(t)
    \/ Write(t) \/ WriteFails(t) \/ Rewrite(t) \/ Reregister(t) \/ Mark(t)

Next ==
    \/ \E b \in Block \ OwnBlocks : ReceiveBlock(b)
    \/ \E b \in OwnBlocks : RegisterOwn(b)
    \/ \E m \in Finals, valid \in BOOLEAN : ReceiveFinal(m, valid)
    \/ \E c \in Certificates : ReceiveCertificate(c)
    \/ \E t \in TaskId : Step(t)
    \/ Restart
    \/ Tick

\* The runtime goes on running a spawned task until it ends.  Each step of a task
\* can be taken whenever the task is there and changes it, so this is weak
\* fairness of Step(t).
Runs(t) == []<>(tasks[t] = Idle) \/ []<><<tasks'[t] # tasks[t]>>_tasks

Fairness == \A t \in TaskId : Runs(t)

Spec == Init /\ [][Next]_vars /\ Fairness

-----------------------------------------------------------------------------
(* Properties *)

\* Tables, scheduler and tasks hold blocks of the instance, and storage has
\* nonces and heights.
TypeOK ==
    /\ Pending(table) \cup table.committed \subseteq Block
    /\ DOMAIN sch.meta \cup sch.committed \subseteq Block
    /\ heights \subseteq {HeightOf[b] : b \in Block}
    /\ \A t \in TaskId : tasks[t] # Idle =>
           tasks[t].block \in Block /\ tasks[t].path \in {"final", "cert"}
    /\ nonces \in [Account -> Nat]
    /\ heads \in [Group \cup {NoGroup} -> Nat]
    /\ stored \subseteq Block

\* Whatever order gossip, own blocks, certificates, failed commits, timeouts and
\* the limit of the table come in, each index of the pending table points to a
\* block that is still pending, of the height (and root) in the key.  So a
\* certificate found through an index commits a block of its own height, and the
\* legacy key of take_pending_by_height_group is never tried.
IndexesPointToPending == TableOK(table)

\* Between two calls of the scheduler no conflict set is open and its winner is
\* the canonical one, and no block that may still commit is out of reach of both
\* drain_ready and wake_deferred, except one dropped for a used nonce.
NoBlockStranded == SchedulerOK(sch)

\* Along block_final, certificates, retries, blocks behind the head and restarts,
\* no transfer is debited a second time, unless two commits overlapped and one
\* wrote over accounts the other had changed after they were read.  A transfer to
\* its own sender is never debited: it adds its amount each time it is applied.
DebitedOnce == ~raced => twice = {}

\* A stored nonce goes back only in such an overlap.
NoncesGoForward == [][~raced' => \A a \in Account : nonces'[a] >= nonces[a]]_vars

\* Every commit task ends, although each block it commits can wake others that
\* the same task then drains.
TasksEnd == \A t \in TaskId : tasks[t] # Idle ~> tasks[t] = Idle
=============================================================================
