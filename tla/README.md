# Savitri Network in TLA+

A formal model of the protocols of the Savitri Network code base: the two paths by
which a block or a cell gets a quorum, the certificate that records it and what the
nodes then take to be final; how a lightnode commits certified blocks; the way of a
transaction through its mempool; and how the masternodes elect a leader and approve
the groups. TLC checks the modules on small instances, TLAPS proves the central
properties for every value of the constants.

Abbreviations: LN lightnode, MN masternode, V0.1 the block path (proposal, vote,
certificate, finality), V0.2 the lattice path (cell, attestation, certificate,
commit). Paths below are relative to `src/`.

## 1. Inventory of the system

| part | state it keeps | operations | what is hard |
|---|---|---|---|
| Lattice aggregator `savitri-consensus/src/lattice/aggregator.rs` | pending and certified cells, signers, high-water round, group size | `observe_cell`, `observe_attestation`, `set_group_size`, `gc_old_cells` | attestations before, after and without their cell; two cells in one slot; collection between cell and attestation |
| Commit walker `lattice/commit.rs`, pivot election `lattice/pivot.rs` | none | `try_commit`, `walk_causal_history` | reads a table that other tasks change; observers differ |
| Lattice runtime `savitri-lightnode/src/lattice_runtime.rs` | aggregator behind a lock, last committed cycle | publisher, cell and attestation handlers, commit poller | every message in a task of its own; the cell handler takes the lock twice; the poller's cycle selection |
| Vote aggregator `savitri-masternode/src/vote_aggregator.rs` | vote buckets, issued certificates, group sizes | `add_vote`, `set_group_mn_sizes` | late and repeated votes; group ids that change with the epoch |
| Certificate finality `savitri-masternode/src/libp2p_network.rs` | payload cache and its order, pending certificates, final blocks and heights | `cache_block_payload`, `handle_consensus_certificate`, prune, finalise | certificate and payload race; caches at their limits; TTL |
| MN main loop `savitri-masternode/src/main.rs` | proposal cache, backlog, RocksDB | vote, aggregate, persist | two tasks write one database; crash between broadcast and write |
| Leader election and group approval `group_consensus.rs`, `group_formation.rs` | election state, proposals, votes, approvals, active groups | initiate, process, resolve, reset; propose, vote, approve, sync | three tasks share the state; read, lock released, written later; timeouts looked at only on arrival |
| LN commit path `p2p/certificate.rs`, `p2p/commit_scheduler.rs`, `p2p/block.rs` | blocks awaiting a certificate with two indices; conflict sets, ready queue, nonces; accounts and heads in storage | register, take, evict; admit, drain, wake; execute, write | two paths into storage and concurrent commit tasks; rivals already queued; failed commits |
| Mempool `savitri-mempool/src/mempool/` and the LN's producer | ready queues with an index and round-robin slots, caps, queued pool, in-flight list | admit, queue, promote, drain, restore, commit, evict | a transaction moves between tables over two lock sections; full pools |
| Bonds, cross-shard manager `savitri-storage/src/storage/` | bonds and totals; two-phase transactions | bond, unbond, slash; prepare, commit, abort | partial failure between writes |
| Monolith production, LN intra-group proposer, storage engine, contracts, P2P, RPC, SDK, guardian, ZKP | various | various | see `components` in PROJECT.json |

How they interact: LNs of a group propose V0.1 blocks; every MN votes, every MN
aggregates all votes, and the certificate that an MN broadcasts makes the block
final at the others. Side by side, the LNs of a group gossip V0.2 cells; a cell
that a quorum of the others attests is certified, cells build on the certified
cells of the round before, and every second round a pivot's anchor cell commits
its causal history. Group formation and leader election feed both with
membership; the mempool feeds both with transactions.

What makes each correct: certificates carry a real quorum, and two of them
overlap; a node certifies one cell per slot and finalises one block per height;
nothing final lacks a certificate, also after a crash; a commit rests on a quorum
of followers; no transfer is debited twice; a transaction is in one place and is not
lost silently; leaders and groups rest on votes that were cast; tables stay
consistent and bounded; tasks end.

PROJECT.json lists all parts (`components`) and the places where this code is
hard to test (`hazards`), each with the property that covers it or the reason why
none does.

## 2. Modules

Dependencies run from left to right; `_proofs` modules extend the module of
their name. LatticeCore_proofs is about LatticeAggregator and LatticeDag (the
state machine of a single aggregator is called `ObserverSpec`, so that the two fit in
one module); FinalBlocks_proofs continues BlockFinality_proofs, GroupConsensus_proofs
LeaderElection_proofs, and CertifiedCommit_proofs CommitScheduler_proofs.

    Thresholds -> CellAggregator -> LatticeAggregator
                       |
                  LineageCommit -> LatticeDag          (abstract specification)
                       |               ^ refines
                       +-----------> Lattice -> LatticePoller
    BlockTypes -> VoteAggregator ------+
              \-> CertificateFinality -+-> BlockFinality
    CertifiedBlocks -> PendingBlocks ---+
                   \-> CommitScheduler -+-> CertifiedCommit
                   \-> BlockExecution --+
    QueuedPool -> AdmissionControl -> Mempool -> MempoolPipeline
    LeaderElection -> GroupConsensus

* **Thresholds**: `quorum_for_voters` = ceil(2n/3) and `lattice_quorum` = 2f+1
  with f = (n-1)/3. The two differ unless n = 3f+1.
* **CellAggregator**: the aggregator as operators on a record; **LatticeAggregator**
  is the state machine of a single one. A cell is (round, author, tag); the tag
  stands for its content, so an author can have several cells in a slot (round,
  author). Signatures and hashes are abstract. The signers of pending and certified
  cells share one function.
* **LineageCommit**: `try_commit` as the set of anchors it accepts, and the causal
  history as a least fixed point. The walk's result is ordered by (round, author), so
  the set determines the sequence. It holds no recursion, so it can be proved about.
* **LatticeDag**: what the lattice promises, without messages: published cells,
  attestations, per node a table of quorum certificates, and commits.
* **Lattice**: the group over gossip. `ReceiveCell` and `PublishAttestation` are the two
  lock sections of `process_cell_message`; a lost copy is one never delivered.
  `Commit` runs the walker for any closed cycle; **LatticePoller** restricts it to the
  cycles `commit_poller_loop` really tries and adds fairness.
* **VoteAggregator**, **CertificateFinality**: the MN's aggregator and the finality
  state of its network task, as operators.
* **BlockFinality** composes them: every MN has a network task and a main task that
  share the database only. `HandleVote` broadcasts, `PersistHead`, `PersistBody` and
  `PersistLatest` follow as steps of their own, and `Restart` may fall between any two.
* **PendingBlocks**, **CommitScheduler**, **BlockExecution**: the LN's table of blocks
  awaiting a certificate with its two indices, the scheduler with conflict sets, ready
  queue, nonce cursors and deferral, and the two executors, as operators on records.
  Conflict sets are a set of records: the code numbers them, but only to tell them apart.
* **CertifiedCommit** composes them into the LN's commit path. `block_final` messages and
  bare certificates each spawn a task; a task reads the accounts in one step and writes its
  overlay in a later one, as no lock is held in between. Commits fail, tasks overlap and
  the node restarts.
* **QueuedPool**, **AdmissionControl**, **Mempool**: future-nonce pool, caps and
  de-duplication, ready queues with index and round-robin slots, as operators.
* **MempoolPipeline**: the three entrances (RPC, gossip batch, `add_prevalidated`), the
  producer's drain, shard filter, validation, proposal and restore, own and foreign
  commits, eviction. Each section under one lock is an action.
* **LeaderElection**: one action per handler, in two steps where the code drops the lock
  of the state (`periodic` and `main` hold what each task is about to write).
* **GroupConsensus** adds group proposals, votes, approvals and sync. The periodic and the
  network task exclude each other through the group manager's lock; the main task does not
  take it. Messages stay in sets, so they may be lost, reordered and repeated; only a
  proposal is delivered once per process, as gossipsub drops repeated content. `published` is
  the cache of `publish_masternode_message`: a message whose key it holds is not sent, so a
  proposal or certificate of as many groups under the same proposal id leaves a process once
  until the cache overflows (`MaxDedupe`) or the process restarts. Sync requests and responses
  have no key and are not held back.

Abstractions to know:

* Rounds are unix seconds in the code and small numbers here; `current_lattice_round`
  is one shared clock. A publisher may tick anywhere in a round, twice, or not at all.
* The cap of 16 parents per cell is not reached in the instances and not modelled.
* The code creates every aggregator with `group_size` 5 and never calls
  `set_group_size`. `GroupSize` is a constant, independent of the number of nodes.
* The author's attestation of its own cell, announced by a comment at
  `lattice_runtime.rs:498-500`, is never published; quorums come from the others.
* Voters are committee members: signature and membership checks are assumed to work.
* The body and head that `finalize_with_cached_payload` writes are two puts in the
  code and one step of `FinalizeAt`. No step of the main task can tell the
  difference; a crash between them can, and is not modelled.
* A proposal's own validity is a free choice (`approve`), and so is whether it carries
  its transactions (`inline`).
* A put into RocksDB does not fail, and survives a crash once made.
* The accounts of a batch are written in one step; the write-behind queue and the
  fallback puts of the code go account by account. Balances are reduced to whether a
  transfer can be paid (`MayLack`), and fees are not modelled.
* A transfer to its own sender is admitted like any other. The executor writes the
  recipient's copy last, with the amount added and the old nonce (`block.rs:1743-1749`), so
  such a transfer debits nothing and moves no nonce (`Debiting`).
* `Propose` of BlockFinality stands for the LN proposer's `create_and_propose_block_at_height`
  with all its conditions left out: any proposal of the instance may be sent at any time, which
  includes everything the proposer sends.
* In MempoolPipeline an account exists or not and has a nonce; fee floor, balance,
  signature and rate checks are refusals outside the model.
* RPC and gossip admit with the RPC nonce gap, so in a running LN nothing enters the
  queued pool; it is reached through `add_prevalidated`, whose two callers
  (`dual_token_integration.rs:413`, `hybrid.rs:678`) no node constructs. The model keeps
  that entrance, since the pool's own promises are about it. Replay prevention is not
  consulted, as the pipeline is built without it (`integration.rs:686`).
* The groups of an epoch have the same ids on all MNs and are one entry of the table of
  active groups. Which lightnodes they have, and whether a proposal passes the checks on
  them, is a free choice. All votes approve: an invalid proposal gets an error, no vote.
* Inside one step of GroupConsensus the separate locks of one function are taken
  together (the four of `reset_leader_election`, for instance). Failures of the
  distribution to lightnodes, which end a handler early, are not modelled.

## 3. Runs

Passing runs (TLC explores the whole instance):

| run | instance | question |
|---|---|---|
| `aggregator` | 1 author, 2 contents, 3 attesters, rounds 0-2, retention 1, group size 4 or 5 | do the two tables stay consistent, is a cell certified exactly at quorum, does collection keep what it must |
| `dag` | 4 nodes, quorum 3; a contested slot, or an anchor and three followers | do conflicting certificates share a signer, does a commit rest on a quorum of followers |
| `lattice` | 2 nodes, quorum 1, a whole cycle with two contents per slot | does the runtime over gossip implement LatticeDag, and does no table hold or count what nobody sent |
| `finality` | 3 MNs; two proposals for a height with caches of 1 and TTL 0, or one proposal under an older group id with one restart | quorum in every certificate and overlap of any two, one certificate per proposal and issuer, one final block per height, certified blocks only, no certificate left waiting for a payload that is there, caches bounded |
| `mempool` | 2 senders, one unfunded at first, 5 transactions, all caps at 1 to 3 | is a transaction in one place, do index and counters agree with the queues, is nothing dropped silently |
| `commit` | 2 accounts, 3 blocks (two rivals for a nonce, one of them with a transfer to its own sender and waiting for the third), 2 tasks, table of 1, one fault or tick | do indices and scheduler stay consistent, is nothing debited twice, do nonces go forward, do tasks end |
| `groups` | 3 MNs, 2 or 3 of them up, quorum 2 or 3, two epochs, a publish cache of 2 keys, five plans | are leaders and active groups backed by votes that were cast, does a lagging MN catch up |

Runs in which the code departs from what a document or comment of the repository
says (TLC finds a counterexample; `findings` quotes both sides):

| run | property | what happens |
|---|---|---|
| `commit_agreement` | `CommitAgreement` | the walk skips parents that are not certified at the observer, so two nodes commit different cells for a cycle; 4 nodes, group size 5, retention 64, one attestation late |
| `poller` | `CommittableCyclesCommit` | the poller starts at cycle 0 and stops at the first cycle that does not commit: no later cycle is ever tried |
| `delivery` | `AttestedCellsGetCertified` | an attestation that overtakes its cell is rejected and not delivered again |
| `one_block` | `OneBlockPerHeightPerGroup` | voting has no memory of heights: two blocks of a group at one height both get a certificate |
| `restore` | `ReadyQueuesScheduled` | a transaction put back into a queue that a drain has emptied gets no round-robin slot: no drain reaches it |

**Why the bounds are enough.** A lattice cycle is two rounds, so rounds 2 to 4 hold
one cycle and the round that closes it. Two contents per slot are the least that
conflict. Four nodes are the least with a quorum of 3 when the author does not
attest, and three followers are then exactly the quorum. A cache, table or cap of size 1
or 2 is at its limit after one or two messages; the next one forces eviction, pruning or
refusal, and a TTL of 0 or 1 second expires within the clock's range. Two rivals and
a block that waits for a third are the least that make a conflict set, a deferral and a
wake-up meet. In `mempool` sender 1 funds sender 2, so that promotion happens, and two
transactions bid for one place. In `groups` the active count follows the connections, so
the quorum is 3 at the start and 2 after a tick: two of three MNs may decide. Each plan
grants some MNs forced ticks, a clock step or a restart: a leader that sends its groups
again under one id (in one number or two, so that the publish cache lets two copies out),
two candidates with two or three electors, an epoch that ends before its approval is
everywhere, a voter that restarts. A publish cache of two keys overflows at the third message.

Where an instance is narrower than its question, the theorems fill in:

* All interleavings of a whole cycle through gossip fit only with a quorum of 1; the
  `lattice` run is about order, loss and collection, not about counting. Quorum 3
  through gossip is in `delivery` and `commit_agreement`, and `LatticeImplementsDag`
  holds for every group size.
* `dag` explores a union (`CommitOrContest`): either one cell per author and round, with
  the certificates of round 3 collected by one node only (no cell is built on them, so they
  matter to the commit of their holder only), or two cells in one slot.
  One pivot schedule is used; `CommitsRestOnFollowers` covers any set. That every committed
  cell was attested by a quorum of others (`CommitsAreAttested`) is proved only.
* `finality` explores a union too (`RotationOrDrift`): the network tasks of different MNs
  share nothing, so only m1 finalises; rotation and drift are not mixed. The theorems of
  BlockFinality have neither bound.
* `commit_agreement` lets one cell's traffic finish before the next is published
  (`OneAtATime`). It only removes behaviours, so the counterexample (79 states) is one
  of the unrestricted specification.
* `mempool` (`TimeOrCrowd`) and `commit` (`Budget`) share one budget between inputs, faults
  and the clock; every action happens, not every combination of many of them.
* `groups` does not mix its plans; its four safety properties are proved without them.

**Fairness.** For the two liveness runs of LatticePoller: the clock advances, every gossip
copy is handled, a node that observed a cell goes on to attest it (both happen in one
spawned task), and the poller keeps its interval. Publication and collection get none. This
is the most favourable schedule the code can meet, and the two properties fail even so.
For `TasksEnd`: a spawned task is not abandoned by tokio (`Runs`); messages, time and
faults get none, and `Budget` cuts only arrivals, faults and ticks. For `LagEnds`: the main
task of an MN that is up does not stop, so it writes what it decided, answers the sync
requests that reach it and takes in the answers. Every MN asks again each minute and every MN
that is up and holds the certificate answers, which is why an answer is taken to arrive in the
end. The broadcast of certificates gets no fairness, since the publish cache may hold it back
for ever; neither do elections, votes and proposals.

**Deadlock** is not checked where clocks and inputs are bounded: the instance stops when
both are used up. In `aggregator` collection is always enabled.

Each property of a passing run has a mutant: a plausible slip in the code it is about
(operators commented as mutants) that TLC finds with the property.

## 4. Proofs

| theorem | statement | rests on |
|---|---|---|
| `LatticeCore_proofs!ObserverTypeCorrect`, `TablesStayConsistent`, `PendingStaysUncertified` | types; pending and certified are disjoint, stray signers do not exist, one certificate per slot | lemmas on the four operations of CellAggregator |
| `CertificatesHaveQuorum` | a step that certifies has a quorum of the size in force | `ObserverTypeOK` |
| `NoQuorumLeftPending` | no cell with a quorum stays pending, if the size never changes | `NoStraySigners`: without it a cell could re-enter with old signers |
| `AttestationsAreKept`, `CertifiedSlotsAreRetained` | a cell that stays keeps its attestations; a certified slot is emptied by collection only, and only below the retention window | `ObserverTypeOK`, consistent tables, the same lemmas |
| `ConflictingCertificatesShareASigner` | two certificates of a slot share a signer, if `GroupSize` is the number of nodes and not 3 | `CertificatesSound` and counting |
| `CommitsRestOnFollowers` | `CommitsHaveFollowers` of LatticeDag | `CertificatesSound`, one certificate per slot |
| `CommitsRestOnAttestations` | every cell of a commit, the anchor and what the walk adds, was attested by a quorum of nodes other than its author | `CertificatesSound` |
| `Lattice_proofs!TypeCorrect`, `OnlySentMessages` | types; no table holds or counts what nobody sent | `RefinementInv` |
| `LatticeImplementsDag` | Lattice implements LatticeDag | `RefinementInv` |
| `Lattice_proofs!CommitsRestOnFollowers` | `CommitsHaveFollowers` of Lattice, which no run checks there: with a quorum of 1 it says little | `RefinementInv` |
| `BlockFinality_proofs!TypeCorrect` | types of both tasks, caches and databases | lemmas on sequences and prunes |
| `CertificatesAlwaysCarryQuorum`, `BucketsAlwaysAwaitQuorum` | see the properties | `VoteInv` |
| `CertificatesAlwaysOverlap` | voters of any two certificates share a third of the committee | `VoteInv` and counting |
| `ProposalsAreCertifiedOnce` | one certificate per proposal from an MN that did not restart | `IssuedInv` |
| `FinalBlocks_proofs!FinalBlocksAreUnique`, `NoPayloadIsMissed` | see the properties | `FinalityInv` |
| `FinalityNeedsCertificate` | only certified blocks are final or head | `CertifiedInv` |
| `CachesStayBounded` | `CachesBounded`, for every cache size, cap and TTL | `CacheInv` |
| `CertifiedCommit_proofs!IndexesPoint` | both indices point to pending blocks of the key's height and root | `GoodTable`, a lemma per operation of the table |
| `NoDoubleDebit`, `NoncesNeverGoBack` | without overlapping commits no transfer is debited twice and no nonce goes back; transfers to their own sender are allowed, debit nothing, and may be applied again | `NonceInv` |
| `NoBlockIsStranded` | `NoBlockStranded`: conflict sets resolved for the canonical winner, commit candidates queued or deferred | `CommitInv`; `GoodSch` and a lemma per call of the scheduler in CommitScheduler_proofs |
| `CommitTypes` | types of table, scheduler, tasks and storage; a certificate task never works without a block | `CommitInv`, `NonceInv` |
| `GroupConsensus_proofs!TypeCorrect` | types; the active count stays between minimum and total | - |
| `LeaderElection_proofs!LeadersAreElectedByQuorum` | `ElectedByQuorum` | `ElectionInv` |
| `ActiveGroupsAreApproved` | `ActiveIsApproved` | `ApprovedInv` |
| `CertificatesCountCastVotes` | `QuorumOfVoters` | `BallotInv` |

The inductive invariants and why they are needed:

* **CertificatesSound**: certified cells are published, their signers attested them, are
  a quorum and do not include the author. Excluding the author is what makes two
  quorums of 2f+1 meet among n-1 attesters. For n = 3 the quorum is 1 and
  they need not; the theorem excludes it.
* **RefinementInv**: types, `TablesHoldOnlySentMessages`, consistent tables, an unchanged
  group size, and handled cells were published by someone else. Handling a cell is a
  stutter of LatticeDag; an attestation is an `Attest`, a `Certified` step or a stutter;
  collection is a `Forget` of the oldest rounds or a stutter. That an entry to be
  certified is pending, hence not certified yet, comes from the consistent tables.
* **VoteInv**: every size in the table is absent or the committee's, an aggregator holds
  only votes that were cast, and the two properties. Then all three look-ups of
  `quorum_for_group` (exact id, index alias, fallback) give one quorum, so drift is
  harmless.
* **FinalityInv**: `Consistent(f, {})` for every MN. `Consistent(f, open)` allows the hashes
  in `open` to be cached while a certificate waits: the state inside
  `cache_block_payload` between insertion and drain. It also says that a final block's
  height is recorded and a hash waits once.
* **CertifiedInv**: whatever waits, is final, is head, or is still to be written belongs to
  a published certificate; the last is what carries a crash between broadcast and write.
* **IssuedInv**: a certificate of this process is in its table of issued ones, so the
  bucket of a late vote is not opened again.
* **CacheInv**: the eviction order has no duplicates, which makes its length the number of
  cached blocks, and eviction then drops one of each.
* **GoodSch**: `NoBlockStranded` with the shape of the scheduler's record over blocks of the
  instance, finitely many of them. It holds between two calls, not inside one: `admit_block`
  enters a block into a conflict set per key and then resolves these sets in any order, and
  `drain_ready` runs through the queue. `JoinInv`, `ResolveInv` and `TurnInv` say what holds
  after k turns of these loops (which sets are still open, which blocks of the queue are
  still to come), and are proved by induction over k.
* **CommitInv**: `GoodTable`, `GoodSch`, table and tasks hold blocks of the instance only
  (`TableIn`, `TasksInv`), and storage keeps to its types (`LanesInv`). A task is what carries
  a block from the table to the scheduler and back, over steps in which others run; without
  `TasksInv` a failed commit could register anything.
* **GoodTable** is kept by each operation on the table by itself, so it holds after any
  order of registrations, takes and evictions.
* **NonceInv**: unless commits have raced, every debited nonce lies below the stored one,
  and an overlay about to be written starts from what was read.
* **ElectionInv**: a quorum stands behind an election already when a task decides, before
  it writes; an approver has one certificate per election; and every certificate that is
  counted is the proposer's own, was broadcast, or is about to be. The last covers the
  window between the decision and the broadcast of the answer.
* **ApprovedInv**: kept and travelling approvals were issued. **BallotInv**: counted votes
  were cast, an own vote counts at most once per copy delivered, and a vote that the publish
  cache holds back has been sent before.

Assumptions are the named `ASSUME`s of the modules: finite sets of nodes, rounds and
sizes in Nat, authors are nodes (all of them in Lattice), `Idle`, `Genesis` and `None` are
new values, at least one cache slot, a cap on pending certificates in Nat, hashes ordered
by numbers (`HashOrderAssumption`), own and final blocks among the blocks, a minimum of
masternodes that is positive and not above their number, positive numbers of groups in a
proposal (`ApprovalAssumption`). Of a block (`BlocksAssumption`) its height is positive and it
holds at most one transaction per account and nonce, as the proposer takes them from its
mempool; `NoDoubleDebit` and `NoncesNeverGoBack` rest on it. Otherwise the sets of proposals,
groups, blocks and transfers, the pivot schedules and the publication times are arbitrary.

Only model-checked: the liveness properties (`TasksEnd`, `LagEnds` and the two that fail);
the five properties of the mempool; that mutants break the properties. Liveness under
fairness is beyond the prover. The mempool's operations fold over sequences of transfers,
batches and slots, with several tables changed in each turn; no proof was attempted.

## 5. What is not modelled

PROJECT.json names every part and the reason. Divergences met on the way that no
run shows:

* `lattice_quorum` is said to mirror the V0.1 quorum (`types/lattice.rs:275-283`); it is
  lower than `quorum_for_voters` for most sizes. With the fixed group size 5 the quorum
  is 3 whatever the group is, and from 7 members on two quorums of 3 need not meet.
* A cell should reference a quorum of parents (`types/lattice.rs:96-99`, `173-175`);
  `observe_cell` does not check it.
* `docs/consensus.md` section 5 gives 3 votes for n = 5; the code asks for 4.
* The comment at `aggregator.rs:147-149` speaks of signers that accumulate after
  certification; `observe_attestation` answers `AlreadyCertified`.
* `PIVOT_TENURE_SLOTS` is 1; its comment explains a tenure of 10.
* A certificate issued before the proposal reached the main task writes no body
  (`main.rs:1596`).
* The defaults ask for 4 votes of 5 MNs (`config.rs:79-84`) and a proposer casts none:
  with one MN down, no proposal is approved by distinct voters.
* Two masternodes may follow different leaders at the same time: the earliest eligible
  election is the earliest here and now. The code corrects this through the approval of
  groups, not through the election.
* A quorum completed by a received vote does not reset the election; only the MN's own
  vote or a received approval does. The certificate then travels with the sync interval.
* A certificate has the publish key of its proposal, so the periodic re-broadcast sends it at
  most once, and never from the MN that sent the proposal, until the cache overflows. An MN
  that missed it gets it from a sync response, which does not reset its election.
* `vote_on_proposal` appends the own vote without the duplicate check of `process_vote`;
  `QuorumOfVoters` states exactly when a vote counts twice.
* A block with two consecutive nonces of one sender is always deferred by the commit
  scheduler; a block refused for a used nonce stays in its tables (`sch.refused`), which
  `NoBlockStranded` excepts; a failed commit is registered again, but the scheduler then
  refuses it.
* Gossiped blocks are registered under the local group with a synthetic root, so
  certificates find them by hash or by height and group only; the legacy key of
  `take_pending_by_height_group` is never reached.
* A block behind the head moves nonces and no balances, and its fees are paid.
* A transfer to its own sender adds its amount, and again each time a block applies it, as its
  nonce is not used up (`block.rs:1743-1749`).
* Overlapping commits read and write accounts without a lock: the two properties on
  debits and nonces are stated up to such an overlap (`raced`).

Most of the repository is outside the models: the transport, RPC, SDK, storage engine,
contracts, cryptography, scoring and tools are I/O, encodings, or sequential code whose
state the modelled protocols do not share. The lightnode's proposer election and the
partition heuristics of group formation turn on measured latencies and scores; a faithful
model would be their arithmetic. Monolith production, bonds and the cross-shard manager
have control worth modelling but no concurrent caller in this repository (the last has no
caller at all).
