--------------------------- MODULE GroupConsensus ---------------------------
(***************************************************************************)
(* Group proposals, their votes and approval certificates                  *)
(* (savitri-masternode group_consensus.rs, group_formation.rs) composed    *)
(* with the leader election.  Three tasks of a masternode meet here: the   *)
(* periodic task proposes, the network task handles proposals and votes    *)
(* (the two exclude each other by the lock of the group manager), and the  *)
(* main task handles elections and approval certificates without it.       *)
(* The groups of an epoch share their ids on all masternodes and stand for *)
(* one entry of the table of active groups.  Whether a proposal of this    *)
(* epoch passes the checks on lightnodes, sizes and overlap is a choice.   *)
(***************************************************************************)
EXTENDS LeaderElection

CONSTANTS
    Forming,        \* groups that are formed and not approved
    VoteExpiry,     \* twice vote_timeout_ms, 20 seconds
    MessageAge,     \* age up to which proposals and votes are valid, 300
    MaxDedupe,      \* MAX_DEDUPE_ENTRIES, 10000 keys of all messages
    Connections,    \* bound: the numbers of connected peers that occur
    Budgets         \* bounds: start and ticks of the clock, the masternodes that are up, the
                    \* forced formations and restarts of each, the numbers of groups formed

Bounds == [start : Times, clock : Nat, up : SUBSET Masternode,
           forms : [Masternode -> Nat], restarts : [Masternode -> Nat], counts : SUBSET (Nat \ {0})]

ASSUME ApprovalAssumption ==
    /\ VoteExpiry \in Nat
    /\ MessageAge \in Nat
    /\ MaxDedupe \in Nat
    /\ Connections \subseteq Nat
    /\ Budgets \subseteq Bounds

VARIABLES
    props,          \* active_proposals: proposal ids with the time of the copy held
    votes,          \* proposal_votes
    approved,       \* approved_certificates, by epoch
    groups,         \* active_groups, by epoch
    proposalMsgs,   \* group proposals broadcast
    voteMsgs,       \* group votes broadcast
    approvalMsgs,   \* approval certificates broadcast
    syncMsgs,       \* certificates in sync responses
    seen,           \* proposal messages gossipsub has delivered to this process
    published,      \* masternode_dedupe_cache: the keys this process has published
    issued,         \* history: the certificates created, with their votes
    budget          \* what is left of the bounds

approvalVars == <<props, votes, approved, groups, issued>>
gossip == <<proposalMsgs, voteMsgs, approvalMsgs, syncMsgs, seen, published>>
vars == <<now, active, electionVars, periodic, main, electionMsgs, certMsgs,
          approvalVars, gossip, budget>>

\* proposal_id: epoch, proposer and time, or, from a leader that is creating
\* groups, epoch and election id (again, for every copy it sends).
Ids == [by : Masternode, epoch : Epochs, at : Times, again : BOOLEAN]
Proposals == [id : Ids, count : Nat \ {0}, at : Times]

\* build_masternode_dedupe_key.  A certificate has the key of its proposal; a
\* vote has no count.
Keys == [id : Ids, count : Nat]
Key(p) == [id |-> p.id, count |-> p.count]
VoteKey(id) == [id |-> id, count |-> 0]

\* The votes on a proposal: who voted, and how often the own vote was added
\* once more.
Ballots == [voters : SUBSET Masternode, repeats : Nat]
NoVotes == [voters |-> {}, repeats |-> 0]

Total(ballot) == Cardinality(ballot.voters) + ballot.repeats

\* A table with key bound to val, or without key.
Bind(table, key, val) ==
    [k \in DOMAIN table \cup {key} |-> IF k = key THEN val ELSE table[k]]
Drop(table, key) == [k \in DOMAIN table \ {key} |-> table[k]]

BallotOf(n, id) == IF id \in DOMAIN votes[n] THEN votes[n][id] ELSE NoVotes

\* vote_on_proposal appends the own vote without looking for an earlier one.
AddOwn(n, ballot) ==
    IF n \in ballot.voters
    THEN [ballot EXCEPT !.repeats = @ + 1]
    ELSE [ballot EXCEPT !.voters = @ \cup {n}]

\* Mutant of AddReceived: a second vote of one masternode counts.
AddReceivedAgain(ballot, voter) ==
    IF voter \in ballot.voters
    THEN [ballot EXCEPT !.repeats = @ + 1]
    ELSE [ballot EXCEPT !.voters = @ \cup {voter}]

\* process_vote ignores a second vote of one masternode.
AddReceived(ballot, voter) == [ballot EXCEPT !.voters = @ \cup {voter}]

\* check_proposal_consensus decides when proposal and votes are there and the
\* quorum is met.  All votes approve: a proposal that fails the validation gets
\* none.
Decided(n, id, held, ballot) == id \in DOMAIN held /\ Total(ballot) >= Required(n)

\* Its removal of a proposal that has waited too long for votes.
Expired(n, id, held, ballot) ==
    /\ id \in DOMAIN held
    /\ Total(ballot) < Required(n)
    /\ now - held[id] > VoteExpiry

\* Proposal and votes after check_proposal_consensus.
Tally(n, id, held, ballot) ==
    IF Decided(n, id, held, ballot) \/ Expired(n, id, held, ballot)
    THEN /\ props' = [props EXCEPT ![n] = Drop(held, id)]
         /\ votes' = [votes EXCEPT ![n] = Drop(@, id)]
    ELSE /\ props' = [props EXCEPT ![n] = held]
         /\ votes' = [votes EXCEPT ![n] = Bind(@, id, ballot)]

\* process_approval_certificate: no look at the votes, the last one of an epoch
\* stays.
Enact(n, id) ==
    /\ approved' = [approved EXCEPT ![n][id.epoch] = id]
    /\ groups' = [groups EXCEPT ![n][id.epoch] = id]

\* publish_masternode_message enters a key in the cache, which starts anew when
\* it is full.  A message whose key is there is not sent, whether or not the
\* first one has reached anybody.
Publish(n, key) ==
    published' = [published EXCEPT ![n] =
        IF key \in @ THEN @ ELSE IF Cardinality(@) >= MaxDedupe THEN {key} ELSE @ \cup {key}]

PublishProposal(n, p) ==
    /\ Publish(n, Key(p))
    /\ proposalMsgs' = IF Key(p) \in published[n] THEN proposalMsgs ELSE proposalMsgs \cup {p}

PublishVote(n, v) ==
    /\ Publish(n, VoteKey(v.id))
    /\ voteMsgs' = IF VoteKey(v.id) \in published[n] THEN voteMsgs ELSE voteMsgs \cup {v}

\* The copies of a proposal that were sent; a certificate is about one of them.
Copies(id) == {p \in proposalMsgs : p.id = id}

GroupInit ==
    /\ props = [n \in Masternode |-> <<>>]
    /\ votes = [n \in Masternode |-> <<>>]
    /\ approved = [n \in Masternode |-> [e \in Epochs |-> None]]
    /\ groups = [n \in Masternode |-> [e \in Epochs |-> None]]
    /\ proposalMsgs = {}
    /\ voteMsgs = {}
    /\ approvalMsgs = {}
    /\ syncMsgs = {}
    /\ seen = [n \in Masternode |-> {}]
    /\ published = [n \in Masternode |-> {}]
    /\ issued = {}
    /\ budget \in Budgets
    /\ now = budget.start

Init == ElectionInit /\ GroupInit
-----------------------------------------------------------------------------
(* The periodic task: form_and_distribute_groups.                           *)

\* get_active_groups has groups, all of them approved.
Healthy(n) ==
    /\ \E e \in Epochs : groups[n][e] # None
    /\ \A e \in Epochs : groups[n][e] # Forming

\* Mutant of FormGroups: the groups are active before anyone has voted.
FormActive(n) ==
    groups' = [groups EXCEPT ![n][Epoch] = [by |-> n, epoch |-> Epoch, at |-> now, again |-> FALSE]]

\* form_groups: the new groups enter the table as Forming, over approved ones
\* of this epoch.
FormGroups(n) == groups' = [groups EXCEPT ![n][Epoch] = Forming]

\* create_and_propose_groups and the broadcast.  The proposer adds no vote.
CreateAndPropose(n) ==
    LET id == [by |-> n, epoch |-> Epoch, at |-> now, again |-> FALSE] IN
    /\ ~Healthy(n)
    /\ FormGroups(n)
    /\ props' = [props EXCEPT ![n] = Bind(@, id, now)]
    /\ \E count \in budget.counts : PublishProposal(n, [id |-> id, count |-> count, at |-> now])

\* The start of a tick: the count of active masternodes follows the connections.
UpdateActive(n, connected) ==
    /\ periodic[n] = AtRest
    /\ active' = [active EXCEPT ![n] = ActiveCount(connected)]

\* A tick that is forced by an epoch change, a registration or a failover.
Tick(n, connected) ==
    /\ UpdateActive(n, connected)
    /\ budget.forms[n] > 0
    /\ budget' = [budget EXCEPT !.forms[n] = @ - 1]

\* The coordinator of the epoch proposes, elected or not.
TickCoordinator(n, connected) ==
    /\ Tick(n, connected)
    /\ IsCoordinator(n)
    /\ CreateAndPropose(n)
    /\ UNCHANGED <<now, electionVars, periodic, main, electionMsgs, certMsgs, votes, approved,
                   issued, voteMsgs, approvalMsgs, syncMsgs, seen>>

\* Another one reads the phase, and writes it in a step of its own.
TickReads(n, connected) ==
    /\ Tick(n, connected)
    /\ ~IsCoordinator(n)
    /\ \/ phase[n] = "idle" /\ periodic' = [periodic EXCEPT ![n].todo = "initiate"]
       \/ /\ phase[n] = "elected" /\ elected[n].by = n
          /\ periodic' = [periodic EXCEPT ![n] = [todo |-> "create", election |-> elected[n], answer |-> {}]]
    /\ UNCHANGED <<now, electionVars, main, electionMsgs, certMsgs, approvalVars, gossip>>

\* A leader in the phase of creating groups forms them anew and sends them under
\* the id of its election, unless it has sent as many groups under it before; it
\* does not keep the proposal.
TickCreating(n, connected) ==
    LET id == [by |-> n, epoch |-> Epoch, at |-> elected[n].at, again |-> TRUE] IN
    /\ Tick(n, connected)
    /\ ~IsCoordinator(n)
    /\ phase[n] = "creating" /\ elected[n].by = n
    /\ FormGroups(n)
    /\ \E count \in budget.counts : PublishProposal(n, [id |-> id, count |-> count, at |-> now])
    /\ UNCHANGED <<now, electionVars, periodic, main, electionMsgs, certMsgs, props, votes, approved,
                   issued, voteMsgs, approvalMsgs, syncMsgs, seen>>

\* A tick that does no more than that: throttled, with healthy groups, with an
\* election under way, or with too few lightnodes.
TickIdles(n, connected) ==
    /\ UpdateActive(n, connected)
    /\ UNCHANGED <<now, electionVars, periodic, main, electionMsgs, certMsgs, approvalVars, gossip, budget>>

\* leader_create_and_propose_groups, after its check: the phase is written over
\* whatever the main task has set.
LeaderCreates(n) ==
    /\ periodic[n].todo = "create"
    /\ periodic' = [periodic EXCEPT ![n] = AtRest]
    /\ phase' = [phase EXCEPT ![n] = "creating"]
    /\ elected' = [elected EXCEPT ![n] = periodic[n].election]
    /\ \/ CreateAndPropose(n)
       \/ UNCHANGED <<groups, props, proposalMsgs, published>>
    /\ UNCHANGED <<now, active, eprops, ecerts, started, main, electionMsgs, certMsgs, votes, approved,
                   issued, voteMsgs, approvalMsgs, syncMsgs, seen, budget>>

\* The formation task of GroupFormationManager::start forms groups as well, when
\* the epoch advances or a lightnode registers.
FormationTask(n) ==
    /\ budget.forms[n] > 0
    /\ budget' = [budget EXCEPT !.forms[n] = @ - 1]
    /\ FormGroups(n)
    /\ UNCHANGED <<now, active, electionVars, periodic, main, electionMsgs, certMsgs, props, votes,
                   approved, issued, gossip>>

\* The sync interval: the certificates of this epoch and the one before are
\* queued for broadcast, each under the key of its proposal.
Rebroadcast(n, e) ==
    /\ e \in {Epoch - 1, Epoch} /\ approved[n][e] # None
    /\ \E p \in Copies(approved[n][e]) : Key(p) \notin published[n] /\ Publish(n, Key(p))
    /\ approvalMsgs' = approvalMsgs \cup {[from |-> n, id |-> approved[n][e]]}
    /\ UNCHANGED <<now, active, electionVars, periodic, main, electionMsgs, certMsgs, approvalVars,
                   proposalMsgs, voteMsgs, syncMsgs, seen, budget>>

-----------------------------------------------------------------------------
(* The network task.                                                        *)

\* handle_group_proposal: the manager's checks, then process_proposal, which
\* keeps the proposal whatever the second validation says.
ReceivesProposal(n, p) ==
    /\ p \in proposalMsgs /\ p.id.by # n
    /\ p \notin seen[n]
    /\ seen' = [seen EXCEPT ![n] = @ \cup {p}]
    /\ p.id.epoch >= Epoch
    /\ now - p.at <= MessageAge

RejectProposal(n, p) ==
    /\ ReceivesProposal(n, p)
    /\ props' = [props EXCEPT ![n] = Bind(@, p.id, p.at)]
    /\ UNCHANGED <<now, active, electionVars, periodic, main, electionMsgs, certMsgs, votes, approved,
                   groups, issued, proposalMsgs, voteMsgs, approvalMsgs, syncMsgs, published, budget>>

\* process_proposal and vote_on_proposal: the own vote may complete the quorum,
\* and then the groups become active and the election is reset.
VoteOnProposal(n, p) ==
    LET held == Bind(props[n], p.id, p.at)
        ballot == AddOwn(n, BallotOf(n, p.id))
    IN
    /\ ReceivesProposal(n, p)
    /\ p.id.epoch = Epoch
    /\ Tally(n, p.id, held, ballot)
    /\ IF Decided(n, p.id, held, ballot)
       THEN Enact(n, p.id) /\ Reset(n) /\ issued' = issued \cup {[id |-> p.id, by |-> n, ballot |-> ballot]}
       ELSE UNCHANGED <<approved, groups, issued, electionVars>>
    /\ PublishVote(n, [id |-> p.id, voter |-> n, at |-> now])
    /\ UNCHANGED <<now, active, periodic, main, electionMsgs, certMsgs, proposalMsgs, approvalMsgs,
                   syncMsgs, budget>>

\* handle_vote and process_vote; the election is not reset.
ProcessVote(n, v) ==
    LET ballot == AddReceived(BallotOf(n, v.id), v.voter) IN
    /\ v \in voteMsgs /\ v.voter # n
    /\ now - v.at <= MessageAge
    /\ Tally(n, v.id, props[n], ballot)
    /\ IF Decided(n, v.id, props[n], ballot)
       THEN Enact(n, v.id) /\ issued' = issued \cup {[id |-> v.id, by |-> n, ballot |-> ballot]}
       ELSE UNCHANGED <<approved, groups, issued>>
    /\ UNCHANGED <<now, active, electionVars, periodic, main, electionMsgs, certMsgs, gossip, budget>>

\* handle_sync adds the groups of a certificate, and nothing else.
AddGroups(n, m) ==
    /\ m \in approvalMsgs \cup syncMsgs /\ m.from # n
    /\ groups' = [groups EXCEPT ![n][m.id.epoch] = m.id]
    /\ UNCHANGED <<now, active, electionVars, periodic, main, electionMsgs, certMsgs, props, votes,
                   approved, issued, gossip, budget>>

-----------------------------------------------------------------------------
(* The main task.                                                           *)

\* GroupApprovalCertificate.
ProcessApproval(n, m) ==
    /\ m \in approvalMsgs /\ m.from # n
    /\ main[n] = AtRest
    /\ Enact(n, m.id)
    /\ Reset(n)
    /\ UNCHANGED <<now, active, periodic, main, electionMsgs, certMsgs, props, votes, issued, gossip, budget>>

\* Mutant of AnswerSync: a half-open range of epochs.
AnswerSyncBefore(n, to) ==
    /\ main[n] = AtRest /\ budget.up # {n}
    /\ syncMsgs' = syncMsgs \cup
          {[from |-> n, id |-> approved[n][e]] : e \in {d \in Epochs : d \in (to - 2)..(to - 1) /\ approved[n][d] # None}}
    /\ syncMsgs' # syncMsgs
    /\ UNCHANGED <<now, active, electionVars, periodic, main, electionMsgs, certMsgs, approvalVars,
                   proposalMsgs, voteMsgs, approvalMsgs, seen, published, budget>>

\* GroupSyncRequest for the three epochs up to one, which the sync interval of
\* another masternode sends every time.  Neither request nor response has a key.
AnswerSync(n, to) ==
    /\ main[n] = AtRest /\ budget.up # {n}
    /\ syncMsgs' = syncMsgs \cup
          {[from |-> n, id |-> approved[n][e]] : e \in {d \in Epochs : d \in (to - 2)..to /\ approved[n][d] # None}}
    /\ syncMsgs' # syncMsgs
    /\ UNCHANGED <<now, active, electionVars, periodic, main, electionMsgs, certMsgs, approvalVars,
                   proposalMsgs, voteMsgs, approvalMsgs, seen, published, budget>>

\* GroupSyncResponse: no reset.
ProcessSync(n, m) ==
    /\ m \in syncMsgs /\ m.from # n
    /\ main[n] = AtRest
    /\ Enact(n, m.id)
    /\ UNCHANGED <<now, active, electionVars, periodic, main, electionMsgs, certMsgs, props, votes,
                   issued, gossip, budget>>

-----------------------------------------------------------------------------
\* A restart: nothing of this is kept on disk.
Restart(n) ==
    /\ budget.restarts[n] > 0
    /\ budget' = [budget EXCEPT !.restarts[n] = @ - 1]
    /\ Reset(n)
    /\ active' = [active EXCEPT ![n] = Cardinality(Masternode)]
    /\ periodic' = [periodic EXCEPT ![n] = AtRest]
    /\ main' = [main EXCEPT ![n] = AtRest]
    /\ props' = [props EXCEPT ![n] = <<>>]
    /\ votes' = [votes EXCEPT ![n] = <<>>]
    /\ approved' = [approved EXCEPT ![n] = [e \in Epochs |-> None]]
    /\ groups' = [groups EXCEPT ![n] = [e \in Epochs |-> None]]
    /\ seen' = [seen EXCEPT ![n] = {}]
    /\ published' = [published EXCEPT ![n] = {}]
    /\ UNCHANGED <<now, electionMsgs, certMsgs, proposalMsgs, voteMsgs, approvalMsgs, syncMsgs, issued>>

AdvanceClock ==
    /\ now < MaxTime /\ budget.clock > 0
    /\ budget' = [budget EXCEPT !.clock = @ - 1]
    /\ now' = now + 1
    /\ UNCHANGED <<active, electionVars, periodic, main, electionMsgs, certMsgs, approvalVars, gossip>>

\* A step of the election leaves the groups alone.
ElectionStep(n) ==
    /\ \/ Initiate(n)
       \/ InitiateInVain(n)
       \/ \E e \in electionMsgs, overlap \in BOOLEAN : ProcessElection(n, e, overlap)
       \/ \E c \in certMsgs : ProcessCertificate(n, c)
       \/ Conclude(n)
    /\ UNCHANGED <<approvalVars, gossip, budget>>

PeriodicStep(n) ==
    \/ \E connected \in Connections :
          \/ TickCoordinator(n, connected)
          \/ TickReads(n, connected)
          \/ TickCreating(n, connected)
          \/ TickIdles(n, connected)
    \/ LeaderCreates(n)
    \/ FormationTask(n)
    \/ \E e \in Epochs : Rebroadcast(n, e)

\* The network task takes the write lock of the group manager, which a tick of
\* the periodic task holds for reading.
NetworkStep(n) ==
    /\ periodic[n] = AtRest
    /\ \/ \E p \in proposalMsgs : RejectProposal(n, p) \/ VoteOnProposal(n, p)
       \/ \E v \in voteMsgs : ProcessVote(n, v)
       \/ \E m \in approvalMsgs \cup syncMsgs : AddGroups(n, m)

MainStep(n) ==
    \/ \E m \in approvalMsgs : ProcessApproval(n, m)
    \/ \E to \in 0..Epoch : AnswerSync(n, to)
    \/ \E m \in syncMsgs : ProcessSync(n, m)

Next ==
    \/ \E n \in budget.up :
          ElectionStep(n) \/ PeriodicStep(n) \/ NetworkStep(n) \/ MainStep(n) \/ Restart(n)
    \/ AdvanceClock

\* What a masternode can answer to a request, again and again while it holds
\* the certificate.
Answerable(m) == approved[m.from][m.id.epoch] = m.id

\* What the main task has to do: a decision to write, a request to answer, or an
\* answer with a certificate that is missing.
MainWork(n) ==
    \/ Conclude(n) /\ UNCHANGED <<approvalVars, gossip, budget>>
    \/ AnswerSync(n, Epoch)
    \/ \E m \in syncMsgs : approved[n][m.id.epoch] = None /\ Answerable(m) /\ ProcessSync(n, m)

\* The main task of a masternode that is up does not stop.  Everybody asks again
\* each minute and all that are up answer, so an answer arrives in the end.
\* Nothing is said of the broadcast certificates, which the publish cache lets
\* out at most once.
Fairness == \A n \in Masternode : WF_vars(n \in budget.up /\ MainWork(n))

Spec == Init /\ [][Next]_vars /\ Fairness

-----------------------------------------------------------------------------
Approvals == [from : Masternode, id : Ids]

GroupTypes ==
    /\ DOMAIN props = Masternode /\ DOMAIN votes = Masternode
    /\ \A n \in Masternode : DOMAIN props[n] \subseteq Ids /\ DOMAIN votes[n] \subseteq Ids
    /\ \A n \in Masternode : \A id \in DOMAIN votes[n] : votes[n][id] \in Ballots
    /\ approved \in [Masternode -> [Epochs -> Ids \cup {None}]]
    /\ groups \in [Masternode -> [Epochs -> Ids \cup {None, Forming}]]
    /\ proposalMsgs \subseteq Proposals
    /\ voteMsgs \subseteq [id : Ids, voter : Masternode, at : Times]
    /\ approvalMsgs \subseteq Approvals
    /\ syncMsgs \subseteq Approvals
    /\ seen \in [Masternode -> SUBSET Proposals]
    /\ published \in [Masternode -> SUBSET Keys]
    /\ issued \subseteq [id : Ids, by : Masternode, ballot : Ballots]
    /\ budget \in Bounds

\* The tables of a masternode have the types of their fields; in particular the
\* count of active masternodes stays between the minimum and the total, and a
\* masternode that follows a leader knows which.
TypeOK == ElectionTypes /\ GroupTypes

Certifiers(e) == {e.by} \cup {c.approver : c \in CertsOn(certMsgs, e)}

\* A leader that a masternode follows, or is, was certified in that election by
\* at least min_masternodes masternodes, however proposals, certificates, resets
\* and restarts interleave.
ElectedByQuorum ==
    \A n \in Masternode :
        phase[n] \in {"elected", "creating"} =>
            Cardinality(Certifiers(elected[n])) >= MinMasternodes

\* A certificate counts min_masternodes votes, all of them cast and none by the
\* proposer.  A vote counts more than once only for a proposal that was sent more
\* than once under its id, and then at most once per copy.
QuorumOfVoters ==
    \A c \in issued :
        /\ Total(c.ballot) >= MinMasternodes
        /\ c.ballot.repeats > 0 => c.ballot.repeats < Cardinality(Copies(c.id))
        /\ \A voter \in c.ballot.voters :
              voter # c.id.by /\ \E v \in voteMsgs : v.id = c.id /\ v.voter = voter

\* Active groups are the groups of a certificate that some masternode made for
\* that epoch, whatever other proposals, formations and certificates race it.
ActiveIsApproved ==
    \A n \in Masternode, e \in Epochs :
        groups[n][e] \notin {None, Forming} =>
            groups[n][e].epoch = e /\ \E c \in issued : c.id = groups[n][e]

Lagging(e) ==
    /\ \E n \in budget.up : approved[n][e] # None
    /\ \E n \in budget.up : approved[n][e] = None
    /\ Epoch <= e + 2

\* A masternode that missed the approval of this epoch or of the two before, by a
\* lost message, by a restart or because the publish cache kept the certificate
\* back, does not stay without it while another one has it.
LagEnds == \A e \in Epochs : []<>~Lagging(e)
=============================================================================
