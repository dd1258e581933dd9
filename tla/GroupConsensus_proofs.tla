------------------------ MODULE GroupConsensus_proofs ------------------------
(***************************************************************************)
(* Proofs about the approval of groups, for every set of masternodes,      *)
(* every clock and every bound, on top of what the election guarantees.    *)
(***************************************************************************)
EXTENDS LeaderElection_proofs
(* The tables of the approval.                                              *)

\* process_approval_certificate sets the two entries of its epoch.
LEMMA EnactSets ==
    ASSUME GroupTypes, NEW n \in Masternode, NEW id \in Ids, Enact(n, id)
    PROVE  /\ approved' \in [Masternode -> [Epochs -> Ids \cup {None}]]
           /\ groups' \in [Masternode -> [Epochs -> Ids \cup {None, Forming}]]
           /\ \A m \in Masternode, e \in Epochs :
                 /\ approved'[m][e] = IF m = n /\ e = id.epoch THEN id ELSE approved[m][e]
                 /\ groups'[m][e] = IF m = n /\ e = id.epoch THEN id ELSE groups[m][e]
<1>1. id.epoch \in Epochs
  BY DEF Ids
<1> QED
  BY <1>1, Zenon DEF GroupTypes, Enact

\* form_groups sets the entry of the epoch.
LEMMA FormSets ==
    ASSUME ElectionTypes, GroupTypes, NEW n \in Masternode, FormGroups(n)
    PROVE  /\ groups' \in [Masternode -> [Epochs -> Ids \cup {None, Forming}]]
           /\ \A m \in Masternode, e \in Epochs :
                 groups'[m][e] \in {groups[m][e], Forming}
<1>1. Epoch \in Epochs
  BY EpochType DEF Epoch, ElectionTypes
<1> QED
  BY <1>1, Zenon DEF GroupTypes, FormGroups

\* check_proposal_consensus leaves the votes of other proposals alone.
LEMMA TallySets ==
    ASSUME GroupTypes, NEW n \in Masternode, NEW id \in Ids, NEW held, DOMAIN held \subseteq Ids,
           NEW ballot \in Ballots, Tally(n, id, held, ballot)
    PROVE  /\ DOMAIN props' = Masternode /\ DOMAIN votes' = Masternode
           /\ \A m \in Masternode : DOMAIN props'[m] \subseteq Ids /\ DOMAIN votes'[m] \subseteq Ids
           /\ \A m \in Masternode : \A i \in DOMAIN votes'[m] :
                 \/ m = n /\ i = id /\ votes'[m][i] = ballot
                 \/ i \in DOMAIN votes[m] /\ votes'[m][i] = votes[m][i]
<1>1. CASE /\ props' = [props EXCEPT ![n] = Drop(held, id)]
           /\ votes' = [votes EXCEPT ![n] = Drop(@, id)]
  BY <1>1, ZenonT(60) DEF GroupTypes, Drop
<1>2. CASE /\ props' = [props EXCEPT ![n] = held]
           /\ votes' = [votes EXCEPT ![n] = Bind(@, id, ballot)]
  BY <1>2 DEF GroupTypes, Bind
<1> QED
  BY <1>1, <1>2, Zenon DEF Tally

\* The only ballot a tally may change is the one it counts.
VotesChange(n, id, ballot) ==
    \A m \in Masternode : \A i \in DOMAIN votes'[m] :
        \/ m = n /\ i = id /\ votes'[m][i] = ballot
        \/ i \in DOMAIN votes[m] /\ votes'[m][i] = votes[m][i]

\* check_proposal_consensus changes no other ballot.
LEMMA TallyVotes ==
    ASSUME GroupTypes, NEW n \in Masternode, NEW id \in Ids, NEW held, DOMAIN held \subseteq Ids,
           NEW ballot \in Ballots, Tally(n, id, held, ballot)
    PROVE  VotesChange(n, id, ballot)
  BY TallySets, ZenonT(60) DEF VotesChange

\* The ballots that are tallied are ballots.
LEMMA BallotTypes ==
    ASSUME GroupTypes, NEW n \in Masternode, NEW id
    PROVE  /\ BallotOf(n, id) \in Ballots
           /\ AddOwn(n, BallotOf(n, id)) \in Ballots
           /\ \A voter \in Masternode : AddReceived(BallotOf(n, id), voter) \in Ballots
<1>1. BallotOf(n, id) \in Ballots
  BY Zenon DEF BallotOf, GroupTypes, NoVotes, Ballots
<1>2. AddOwn(n, BallotOf(n, id)) \in Ballots
  BY <1>1 DEF AddOwn, Ballots
<1>3. ASSUME NEW voter \in Masternode PROVE AddReceived(BallotOf(n, id), voter) \in Ballots
  BY <1>1 DEF AddReceived, Ballots
<1> QED
  BY <1>1, <1>2, <1>3

\* The cache of a process holds a key more, at most.
LEMMA PublishSets ==
    ASSUME GroupTypes, NEW n \in Masternode, NEW key \in Keys, Publish(n, key)
    PROVE  /\ published' \in [Masternode -> SUBSET Keys]
           /\ \A m \in Masternode : \A k \in published'[m] : k \in published[m] \/ (m = n /\ k = key)
<1> DEFINE cache == IF key \in published[n] THEN published[n]
                    ELSE IF Cardinality(published[n]) >= MaxDedupe THEN {key} ELSE published[n] \cup {key}
<1>1. published' = [published EXCEPT ![n] = cache]
  BY Zenon DEF Publish
<1>2. cache \subseteq published[n] \cup {key} /\ published[n] \subseteq Keys
  BY Zenon DEF GroupTypes
<1> HIDE DEF cache
<1> QED
  BY <1>1, <1>2, Zenon DEF GroupTypes

\* The key of a proposal is not the key of a vote.
LEMMA KeyType ==
    ASSUME NEW p \in Proposals
    PROVE  Key(p) \in Keys /\ Key(p).count # 0
  BY DEF Key, Keys, Proposals

\* A broadcast proposal, or none, and a key that is not one of a vote.
LEMMA PublishProposalSets ==
    ASSUME GroupTypes, NEW n \in Masternode, NEW p \in Proposals, PublishProposal(n, p)
    PROVE  /\ proposalMsgs' \in {proposalMsgs, proposalMsgs \cup {p}}
           /\ published' \in [Masternode -> SUBSET Keys]
           /\ \A m \in Masternode : \A k \in published'[m] : k \in published[m] \/ k.count # 0
<1>1. Key(p) \in Keys /\ Key(p).count # 0
  BY KeyType
<1>2. Publish(n, Key(p)) /\ proposalMsgs' \in {proposalMsgs, proposalMsgs \cup {p}}
  BY Zenon DEF PublishProposal
<1> QED
  BY <1>1, <1>2, PublishSets, Zenon

\* A new proposal is kept and broadcast under an id of this second.
LEMMA CreateSets ==
    ASSUME ElectionTypes, GroupTypes, InBounds, NEW n \in Masternode, CreateAndPropose(n)
    PROVE  /\ DOMAIN props' = Masternode
           /\ \A m \in Masternode : DOMAIN props'[m] \subseteq Ids
           /\ \E p \in Proposals : PublishProposal(n, p)
<1> DEFINE id == [by |-> n, epoch |-> Epoch, at |-> now, again |-> FALSE]
<1>1. now \in Times /\ Epoch \in Epochs
  BY EpochType, SMTT(60) DEF Epoch, ElectionTypes
<1>2. id \in Ids
  BY <1>1, SMTT(60) DEF Ids
<1>3. PICK count \in budget.counts : PublishProposal(n, [id |-> id, count |-> count, at |-> now])
  BY Zenon DEF CreateAndPropose
<1>4. props' = [props EXCEPT ![n] = Bind(@, id, now)]
  BY Zenon DEF CreateAndPropose
<1>5. count \in Nat \ {0}
  BY <1>3 DEF InBounds, Bounds
<1> HIDE DEF id
<1>6. DOMAIN props' = Masternode /\ \A m \in Masternode : DOMAIN props'[m] \subseteq Ids
  BY <1>2, <1>4 DEF GroupTypes, Bind
<1>7. [id |-> id, count |-> count, at |-> now] \in Proposals
  BY <1>1, <1>2, <1>5 DEF Proposals
<1> QED
  BY <1>3, <1>6, <1>7, Zenon

\* A leader that creates groups sends them under the id of its election.
LEMMA CreatingSets ==
    ASSUME ElectionTypes, GroupTypes, InBounds, NEW n \in Masternode, NEW connected, TickCreating(n, connected)
    PROVE  \E p \in Proposals : PublishProposal(n, p)
<1> DEFINE id == [by |-> n, epoch |-> Epoch, at |-> elected[n].at, again |-> TRUE]
<1>1. now \in Times /\ Epoch \in Epochs
  BY EpochType DEF Epoch, ElectionTypes
<1>2. elected[n] \in Elections
  BY ZenonT(60) DEF TickCreating, ElectionTypes
<1>3. id \in Ids
  BY <1>1, <1>2, SMTT(60) DEF Ids, Elections
<1>4. PICK count \in budget.counts : PublishProposal(n, [id |-> id, count |-> count, at |-> now])
  BY Zenon DEF TickCreating
<1>5. count \in Nat \ {0}
  BY <1>4 DEF InBounds, Bounds
<1> HIDE DEF id
<1>6. [id |-> id, count |-> count, at |-> now] \in Proposals
  BY <1>1, <1>3, <1>5 DEF Proposals
<1> QED
  BY <1>4, <1>6, Zenon

\* A vote is broadcast unless one under its id was.
LEMMA VoteOut ==
    ASSUME NEW n, NEW id, NEW at, PublishVote(n, [id |-> id, voter |-> n, at |-> at])
    PROVE  /\ Publish(n, VoteKey(id))
           /\ \/ voteMsgs' = voteMsgs \cup {[id |-> id, voter |-> n, at |-> at]}
              \/ voteMsgs' = voteMsgs /\ VoteKey(id) \in published[n]
  BY Zenon DEF PublishVote

\* The steps of the periodic task keep the types.
LEMMA PeriodicStepTypes ==
    ASSUME ElectionTypes, GroupTypes, InBounds, InBounds', NEW n \in Masternode, PeriodicStep(n)
    PROVE  GroupTypes'
<1>1. CASE UNCHANGED <<approvalVars, gossip>>
  BY <1>1, Zenon DEF approvalVars, gossip, GroupTypes, InBounds
<1>2. ASSUME CreateAndPropose(n),
             UNCHANGED <<votes, approved, issued, voteMsgs, approvalMsgs, syncMsgs, seen>>
      PROVE  GroupTypes'
  <2>1. FormGroups(n)
    BY <1>2, SMTT(60) DEF CreateAndPropose
  <2>2. groups' \in [Masternode -> [Epochs -> Ids \cup {None, Forming}]]
    BY <2>1, FormSets
  <2>3. /\ DOMAIN props' = Masternode /\ \A m \in Masternode : DOMAIN props'[m] \subseteq Ids
        /\ \E p \in Proposals : PublishProposal(n, p)
    BY <1>2, CreateSets, Zenon
  <2>4. proposalMsgs' \subseteq Proposals /\ published' \in [Masternode -> SUBSET Keys]
    BY <2>3, PublishProposalSets, Zenon DEF GroupTypes
  <2> QED
    BY <1>2, <2>2, <2>3, <2>4, ZenonT(60) DEF GroupTypes, InBounds
<1>3. ASSUME NEW connected \in Connections, TickCreating(n, connected) PROVE GroupTypes'
  <2>1. groups' \in [Masternode -> [Epochs -> Ids \cup {None, Forming}]]
    BY <1>3, FormSets, Zenon DEF TickCreating
  <2>2. PICK p \in Proposals : PublishProposal(n, p)
    BY <1>3, CreatingSets, Zenon
  <2>3. proposalMsgs' \subseteq Proposals /\ published' \in [Masternode -> SUBSET Keys]
    BY <2>2, PublishProposalSets, Zenon DEF GroupTypes
  <2> QED
    BY <1>3, <2>1, <2>3, Zenon DEF GroupTypes, InBounds, TickCreating
<1>4. CASE FormationTask(n)
  <2>1. groups' \in [Masternode -> [Epochs -> Ids \cup {None, Forming}]]
    BY <1>4, FormSets DEF FormationTask
  <2> QED
    BY <1>4, <2>1 DEF GroupTypes, InBounds, FormationTask, gossip
<1>5. ASSUME NEW e \in Epochs, Rebroadcast(n, e) PROVE GroupTypes'
  <2>1. [from |-> n, id |-> approved[n][e]] \in Approvals
    BY <1>5 DEF Rebroadcast, GroupTypes, Approvals
  <2>2. approvalMsgs' \subseteq Approvals
    BY <1>5, <2>1, Zenon DEF Rebroadcast, GroupTypes
  <2>3. PICK p \in Proposals : Publish(n, Key(p))
    BY <1>5, Zenon DEF Rebroadcast, Copies, GroupTypes
  <2>4. published' \in [Masternode -> SUBSET Keys]
    BY <2>3, KeyType, PublishSets, Zenon
  <2> QED
    BY <1>5, <2>2, <2>4, Zenon DEF GroupTypes, InBounds, Rebroadcast, approvalVars
<1>6. CASE LeaderCreates(n)
  BY <1>1, <1>2, <1>6 DEF LeaderCreates, approvalVars, gossip
<1>7. ASSUME NEW connected \in Connections,
             TickCoordinator(n, connected) \/ TickReads(n, connected) \/ TickIdles(n, connected)
      PROVE  GroupTypes'
  BY <1>1, <1>2, <1>7, SMTT(60) DEF TickCoordinator, TickReads, TickIdles
<1> QED
  BY <1>3, <1>4, <1>5, <1>6, <1>7 DEF PeriodicStep

\* So do the steps of the network task.
LEMMA NetworkStepTypes ==
    ASSUME ElectionTypes, GroupTypes, InBounds', NEW n \in Masternode, NetworkStep(n)
    PROVE  GroupTypes'
<1>1. ASSUME NEW p \in proposalMsgs, ReceivesProposal(n, p)
      PROVE  /\ p \in Proposals /\ p.id \in Ids
             /\ seen' \in [Masternode -> SUBSET Proposals]
             /\ DOMAIN Bind(props[n], p.id, p.at) \subseteq Ids
  BY <1>1, Zenon DEF ReceivesProposal, GroupTypes, Proposals, Bind
<1>2. ASSUME NEW p \in proposalMsgs, RejectProposal(n, p) PROVE GroupTypes'
  <2>1. /\ seen' \in [Masternode -> SUBSET Proposals]
        /\ DOMAIN Bind(props[n], p.id, p.at) \subseteq Ids
    BY <1>1, <1>2, Zenon DEF RejectProposal
  <2>2. DOMAIN props' = Masternode /\ \A m \in Masternode : DOMAIN props'[m] \subseteq Ids
    BY <1>2, <2>1, Zenon DEF RejectProposal, GroupTypes
  <2> QED
    BY <1>2, <2>1, <2>2, Zenon DEF GroupTypes, InBounds, RejectProposal
<1>3. ASSUME NEW p \in proposalMsgs, VoteOnProposal(n, p) PROVE GroupTypes'
  <2> DEFINE held == Bind(props[n], p.id, p.at)
             ballot == AddOwn(n, BallotOf(n, p.id))
  <2>1. p.id \in Ids /\ seen' \in [Masternode -> SUBSET Proposals] /\ DOMAIN held \subseteq Ids
    BY <1>1, <1>3, Zenon DEF VoteOnProposal
  <2>2. ballot \in Ballots
    BY BallotTypes
  <2>3. Tally(n, p.id, held, ballot)
    BY <1>3, Zenon DEF VoteOnProposal
  <2>4. /\ \/ Enact(n, p.id) /\ issued' = issued \cup {[id |-> p.id, by |-> n, ballot |-> ballot]}
           \/ UNCHANGED <<approved, groups, issued>>
        /\ voteMsgs' \in {voteMsgs, voteMsgs \cup {[id |-> p.id, voter |-> n, at |-> now]}}
        /\ Publish(n, VoteKey(p.id))
        /\ UNCHANGED <<proposalMsgs, approvalMsgs, syncMsgs>>
    BY <1>3, VoteOut, Zenon DEF VoteOnProposal
  <2> HIDE DEF held, ballot
  <2>5. /\ DOMAIN props' = Masternode /\ DOMAIN votes' = Masternode
        /\ \A m \in Masternode : DOMAIN props'[m] \subseteq Ids /\ DOMAIN votes'[m] \subseteq Ids
        /\ \A m \in Masternode : \A i \in DOMAIN votes'[m] :
                 \/ m = n /\ i = p.id /\ votes'[m][i] = ballot
                 \/ i \in DOMAIN votes[m] /\ votes'[m][i] = votes[m][i]
    BY <2>1, <2>2, <2>3, TallySets, ZenonT(60)
  <2>6. \A m \in Masternode : \A i \in DOMAIN votes'[m] : votes'[m][i] \in Ballots
    BY <2>2, <2>5, Zenon DEF GroupTypes
  <2>7. /\ approved' \in [Masternode -> [Epochs -> Ids \cup {None}]]
        /\ groups' \in [Masternode -> [Epochs -> Ids \cup {None, Forming}]]
        /\ issued' \subseteq [id : Ids, by : Masternode, ballot : Ballots]
    BY <2>1, <2>2, <2>4, EnactSets, SMTT(60) DEF GroupTypes
  <2>8. voteMsgs' \subseteq [id : Ids, voter : Masternode, at : Times]
    BY <2>1, <2>4 DEF GroupTypes, ElectionTypes
  <2>9. published' \in [Masternode -> SUBSET Keys]
    <3>1. VoteKey(p.id) \in Keys
      BY <2>1 DEF VoteKey, Keys
    <3> QED
      BY <2>4, <3>1, PublishSets, Zenon
  <2> QED
    BY <2>1, <2>4, <2>5, <2>6, <2>7, <2>8, <2>9, Zenon DEF GroupTypes, InBounds
<1>4. ASSUME NEW v \in voteMsgs, ProcessVote(n, v) PROVE GroupTypes'
  <2> DEFINE ballot == AddReceived(BallotOf(n, v.id), v.voter)
  <2>1. v.id \in Ids /\ v.voter \in Masternode /\ DOMAIN props[n] \subseteq Ids
    BY Zenon DEF GroupTypes
  <2>2. ballot \in Ballots
    BY <2>1, BallotTypes, Zenon
  <2>3. Tally(n, v.id, props[n], ballot)
    BY <1>4, Zenon DEF ProcessVote
  <2>4. /\ \/ Enact(n, v.id) /\ issued' = issued \cup {[id |-> v.id, by |-> n, ballot |-> ballot]}
           \/ UNCHANGED <<approved, groups, issued>>
        /\ UNCHANGED gossip
    BY <1>4, Zenon DEF ProcessVote
  <2> HIDE DEF ballot
  <2>5. /\ DOMAIN props' = Masternode /\ DOMAIN votes' = Masternode
        /\ \A m \in Masternode : DOMAIN props'[m] \subseteq Ids /\ DOMAIN votes'[m] \subseteq Ids
        /\ \A m \in Masternode : \A i \in DOMAIN votes'[m] :
                 \/ m = n /\ i = v.id /\ votes'[m][i] = ballot
                 \/ i \in DOMAIN votes[m] /\ votes'[m][i] = votes[m][i]
    BY <2>1, <2>2, <2>3, TallySets
  <2>6. \A m \in Masternode : \A i \in DOMAIN votes'[m] : votes'[m][i] \in Ballots
    BY <2>2, <2>5, Zenon DEF GroupTypes
  <2>7. /\ approved' \in [Masternode -> [Epochs -> Ids \cup {None}]]
        /\ groups' \in [Masternode -> [Epochs -> Ids \cup {None, Forming}]]
        /\ issued' \subseteq [id : Ids, by : Masternode, ballot : Ballots]
    BY <2>1, <2>2, <2>4, EnactSets DEF GroupTypes
  <2> QED
    BY <2>4, <2>5, <2>6, <2>7, Zenon DEF GroupTypes, InBounds, gossip
<1>5. ASSUME NEW m \in approvalMsgs \cup syncMsgs, AddGroups(n, m) PROVE GroupTypes'
  <2>1. m.id \in Ids /\ m.id.epoch \in Epochs
    BY Zenon DEF GroupTypes, Approvals, Ids
  <2>2. groups' \in [Masternode -> [Epochs -> Ids \cup {None, Forming}]]
    BY <1>5, <2>1, Zenon DEF AddGroups, GroupTypes
  <2> QED
    BY <1>5, <2>2, Zenon DEF GroupTypes, InBounds, AddGroups, gossip
<1> QED
  BY <1>2, <1>3, <1>4, <1>5 DEF NetworkStep

\* Votes, approvals and groups keep their types.
LEMMA GroupTypesHold == Spec => []GroupTypes
<1>1. Init => GroupTypes
  BY ApprovalAssumption DEF Init, GroupInit, GroupTypes
<1>2. ASSUME ElectionInv, InBounds, InBounds', GroupTypes, [Next]_vars PROVE GroupTypes'
  <2>1. CASE UNCHANGED <<approvalVars, gossip>>
    BY <1>2, <2>1, Zenon DEF approvalVars, gossip, GroupTypes, InBounds
  <2>2. budget.up \subseteq Masternode
    BY <1>2, SMTT(60) DEF InBounds, Bounds
  <2>3. ElectionTypes
    BY <1>2, SMTT(60) DEF ElectionInv
  <2>4. ASSUME NEW n \in Masternode, MainStep(n) PROVE GroupTypes'
    <3>1. ASSUME NEW m \in approvalMsgs, ProcessApproval(n, m) PROVE GroupTypes'
      <4>1. m.id \in Ids
        BY <1>2, ZenonT(60) DEF GroupTypes, Approvals
      <4>2. Enact(n, m.id) /\ UNCHANGED <<props, votes, issued, gossip>>
        BY <3>1, SMTT(60) DEF ProcessApproval
      <4> QED
        BY <1>2, <4>1, <4>2, EnactSets, Zenon DEF GroupTypes, InBounds, gossip
    <3>2. ASSUME NEW to \in 0..Epoch, AnswerSync(n, to) PROVE GroupTypes'
      <4>1. ASSUME NEW e \in Epochs, approved[n][e] # None
            PROVE  [from |-> n, id |-> approved[n][e]] \in Approvals
        BY <1>2, <4>1 DEF GroupTypes, Approvals
      <4>2. syncMsgs' \subseteq Approvals
        BY <1>2, <3>2, <4>1 DEF AnswerSync, GroupTypes
      <4> QED
        BY <1>2, <3>2, <4>2, Zenon DEF GroupTypes, InBounds, AnswerSync, approvalVars
    <3>3. ASSUME NEW m \in syncMsgs, ProcessSync(n, m) PROVE GroupTypes'
      <4>1. m.id \in Ids
        BY <1>2, ZenonT(60) DEF GroupTypes, Approvals
      <4>2. Enact(n, m.id) /\ UNCHANGED <<props, votes, issued, gossip>>
        BY <3>3, Zenon DEF ProcessSync
      <4> QED
        BY <1>2, <4>1, <4>2, EnactSets, Zenon DEF GroupTypes, InBounds, gossip
    <3> QED
      BY <2>4, <3>1, <3>2, <3>3 DEF MainStep
  <2>5. ASSUME NEW n \in Masternode, Restart(n) PROVE GroupTypes'
    BY <1>2, <2>5 DEF Restart, GroupTypes, InBounds
  <2>6. CASE AdvanceClock
    BY <2>1, <2>6, SMTT(60) DEF AdvanceClock
  <2>7. ASSUME NEW n \in Masternode, ElectionStep(n) PROVE GroupTypes'
    BY <2>1, <2>7 DEF ElectionStep
  <2>8. CASE Next
    BY <1>2, <2>2, <2>3, <2>4, <2>5, <2>6, <2>7, <2>8, PeriodicStepTypes, NetworkStepTypes, Zenon DEF Next
  <2>9. CASE UNCHANGED vars
    BY <2>1, <2>9 DEF vars
  <2> QED
    BY <1>2, <2>8, <2>9, SMTT(60)
<1> QED
  BY <1>1, <1>2, BoundsHold, ElectionInvHolds, PTL DEF Spec

\* The tables keep their types; the count of active masternodes stays within its
\* limits whatever the number of connected peers.
THEOREM TypeCorrect == Spec => []TypeOK
<1>1. ElectionInv /\ GroupTypes => TypeOK
  BY DEF TypeOK, ElectionInv
<1> QED
  BY <1>1, ElectionInvHolds, GroupTypesHold, PTL

-----------------------------------------------------------------------------
(* Active groups come from a certificate.                                   *)

Issued(id) == \E c \in issued : c.id = id

\* What makes ActiveIsApproved inductive: the certificates that are kept and
\* those that travel are certificates that were issued.
ApprovedInv ==
    /\ \A n \in Masternode, e \in Epochs :
          approved[n][e] # None => approved[n][e].epoch = e /\ Issued(approved[n][e])
    /\ \A m \in approvalMsgs \cup syncMsgs : Issued(m.id)
    /\ ActiveIsApproved

\* A certificate that is issued, or was, may be enacted.
LEMMA EnactKeeps ==
    ASSUME GroupTypes, ApprovedInv, NEW n \in Masternode, NEW id \in Ids, Enact(n, id),
           issued \subseteq issued', \E c \in issued' : c.id = id,
           UNCHANGED <<approvalMsgs, syncMsgs>>
    PROVE  ApprovedInv'
<1>1. \A m \in Masternode, e \in Epochs :
         /\ approved'[m][e] = IF m = n /\ e = id.epoch THEN id ELSE approved[m][e]
         /\ groups'[m][e] = IF m = n /\ e = id.epoch THEN id ELSE groups[m][e]
  BY EnactSets, ZenonT(60)
<1>2. (\A m \in Masternode, e \in Epochs :
          approved[m][e] # None => approved[m][e].epoch = e /\ Issued(approved[m][e]))'
  BY <1>1, SMTT(60) DEF ApprovedInv, Issued
<1>3. (\A m \in approvalMsgs \cup syncMsgs : Issued(m.id))'
  BY Zenon DEF ApprovedInv, Issued
<1>4. ActiveIsApproved'
  BY <1>1, SMTT(60) DEF ApprovedInv, ActiveIsApproved
<1> QED
  BY <1>2, <1>3, <1>4, Zenon DEF ApprovedInv

\* Groups that are only formed need no certificate.
LEMMA FormKeeps ==
    ASSUME ElectionTypes, GroupTypes, ApprovedInv, NEW n \in Masternode, FormGroups(n),
           UNCHANGED <<approved, issued, approvalMsgs, syncMsgs>>
    PROVE  ApprovedInv'
<1>1. \A m \in Masternode, e \in Epochs : groups'[m][e] \in {groups[m][e], Forming}
  BY FormSets, Zenon
<1>2. ActiveIsApproved'
  BY <1>1 DEF ApprovedInv, ActiveIsApproved
<1> QED
  BY <1>2, Zenon DEF ApprovedInv, Issued

\* Kept and travelling approvals were issued, throughout.
LEMMA ApprovedInvHolds == Spec => []ApprovedInv
<1>1. Init => ApprovedInv
  BY DEF Init, GroupInit, ApprovedInv, ActiveIsApproved
<1>2. ASSUME ElectionInv, GroupTypes, InBounds, ApprovedInv, [Next]_vars PROVE ApprovedInv'
  <2>1. CASE UNCHANGED <<approved, groups, issued, approvalMsgs, syncMsgs>>
    BY <1>2, <2>1 DEF ApprovedInv, ActiveIsApproved, Issued
  <2>2. budget.up \subseteq Masternode
    BY <1>2 DEF InBounds, Bounds
  <2>3. ElectionTypes
    BY <1>2, SMTT(60) DEF ElectionInv
  <2>4. ASSUME NEW n \in Masternode, FormGroups(n), UNCHANGED <<approved, issued, approvalMsgs, syncMsgs>>
        PROVE  ApprovedInv'
    BY <1>2, <2>3, <2>4, FormKeeps
  <2>5. ASSUME NEW n \in Masternode, PeriodicStep(n) PROVE ApprovedInv'
    <3>1. ASSUME NEW e \in Epochs, Rebroadcast(n, e) PROVE ApprovedInv'
      <4>1. approvalMsgs' = approvalMsgs \cup {[from |-> n, id |-> approved[n][e]]} /\ approved[n][e] # None
        BY <3>1, Zenon DEF Rebroadcast
      <4>2. \A m \in approvalMsgs' \cup syncMsgs : Issued(m.id)
        BY <1>2, <2>5, <4>1 DEF ApprovedInv
      <4>3. UNCHANGED <<approved, groups, issued, syncMsgs>>
        BY <3>1, Zenon DEF Rebroadcast, approvalVars
      <4> QED
        BY <1>2, <4>2, <4>3 DEF ApprovedInv, ActiveIsApproved, Issued
    <3>2. ASSUME NEW connected \in Connections,
                 TickCoordinator(n, connected) \/ TickReads(n, connected)
                   \/ TickCreating(n, connected) \/ TickIdles(n, connected)
          PROVE  ApprovedInv'
      BY <2>1, <2>4, <2>5, <3>2 DEF TickCoordinator, TickReads, TickCreating, TickIdles, CreateAndPropose,
         approvalVars, gossip
    <3>3. CASE LeaderCreates(n) \/ FormationTask(n)
      BY <2>1, <2>4, <2>5, <3>3, SMTT(60) DEF LeaderCreates, FormationTask, CreateAndPropose, gossip
    <3> QED
      BY <2>5, <3>1, <3>2, <3>3, Zenon DEF PeriodicStep
  <2>6. ASSUME NEW n \in Masternode, NetworkStep(n) PROVE ApprovedInv'
    <3>1. ASSUME NEW p \in proposalMsgs, VoteOnProposal(n, p) PROVE ApprovedInv'
      <4> DEFINE c == [id |-> p.id, by |-> n, ballot |-> AddOwn(n, BallotOf(n, p.id))]
      <4>1. \/ Enact(n, p.id) /\ issued' = issued \cup {c}
            \/ UNCHANGED <<approved, groups, issued>>
        BY <3>1, Zenon DEF VoteOnProposal
      <4>2. p.id \in Ids /\ c.id = p.id /\ UNCHANGED <<approvalMsgs, syncMsgs>>
        BY <1>2, <3>1, Zenon DEF VoteOnProposal, GroupTypes, Proposals
      <4> HIDE DEF c
      <4> QED
        BY <1>2, <2>1, <4>1, <4>2, EnactKeeps, Zenon
    <3>2. ASSUME NEW v \in voteMsgs, ProcessVote(n, v) PROVE ApprovedInv'
      <4> DEFINE c == [id |-> v.id, by |-> n, ballot |-> AddReceived(BallotOf(n, v.id), v.voter)]
      <4>1. \/ Enact(n, v.id) /\ issued' = issued \cup {c}
            \/ UNCHANGED <<approved, groups, issued>>
        BY <3>2, Zenon DEF ProcessVote
      <4>2. v.id \in Ids /\ c.id = v.id /\ UNCHANGED <<approvalMsgs, syncMsgs>>
        BY <1>2, <3>2, Zenon DEF ProcessVote, GroupTypes, gossip
      <4> HIDE DEF c
      <4> QED
        BY <1>2, <2>1, <4>1, <4>2, EnactKeeps, Zenon
    <3>3. ASSUME NEW m \in approvalMsgs \cup syncMsgs, AddGroups(n, m) PROVE ApprovedInv'
      <4>1. m.id.epoch \in Epochs /\ Issued(m.id)
        BY <1>2, Zenon DEF GroupTypes, Approvals, Ids, ApprovedInv
      <4>2. \A k \in Masternode, e \in Epochs :
               groups'[k][e] = IF k = n /\ e = m.id.epoch THEN m.id ELSE groups[k][e]
        BY <1>2, <3>3, <4>1, ZenonT(60) DEF AddGroups, GroupTypes
      <4>3. UNCHANGED <<approved, issued, approvalMsgs, syncMsgs>>
        BY <3>3, Zenon DEF AddGroups, gossip
      <4>4. ActiveIsApproved'
        BY <1>2, <4>1, <4>2, <4>3 DEF ApprovedInv, ActiveIsApproved, Issued
      <4> QED
        BY <1>2, <4>3, <4>4, Zenon DEF ApprovedInv, Issued
    <3>4. ASSUME NEW p \in proposalMsgs, RejectProposal(n, p) PROVE ApprovedInv'
      BY <2>1, <3>4 DEF RejectProposal
    <3> QED
      BY <2>6, <3>1, <3>2, <3>3, <3>4 DEF NetworkStep
  <2>7. ASSUME NEW n \in Masternode, MainStep(n) PROVE ApprovedInv'
    <3>1. ASSUME NEW m \in approvalMsgs \cup syncMsgs, Enact(n, m.id), UNCHANGED <<issued, gossip>>
          PROVE  ApprovedInv'
      <4>1. m.id \in Ids /\ Issued(m.id)
        BY <1>2, Zenon DEF GroupTypes, Approvals, ApprovedInv
      <4> QED
        BY <1>2, <3>1, <4>1, EnactKeeps, Zenon DEF Issued, gossip
    <3>2. ASSUME NEW to \in 0..Epoch, AnswerSync(n, to) PROVE ApprovedInv'
      <4>1. syncMsgs' = syncMsgs \cup
               {[from |-> n, id |-> approved[n][e]] : e \in {d \in Epochs : d \in (to - 2)..to /\ approved[n][d] # None}}
        BY <3>2, Zenon DEF AnswerSync
      <4>2. \A m \in approvalMsgs \cup syncMsgs' : Issued(m.id)
        BY <1>2, <2>7, <4>1 DEF ApprovedInv
      <4>3. UNCHANGED <<approved, groups, issued, approvalMsgs>>
        BY <3>2, Zenon DEF AnswerSync, approvalVars
      <4> QED
        BY <1>2, <4>2, <4>3 DEF ApprovedInv, ActiveIsApproved, Issued
    <3> QED
      BY <2>7, <3>1, <3>2, Zenon DEF MainStep, ProcessApproval, ProcessSync
  <2>8. ASSUME NEW n \in Masternode, Restart(n) PROVE ApprovedInv'
    <3>1. \A m \in Masternode, e \in Epochs :
             /\ approved'[m][e] = IF m = n THEN None ELSE approved[m][e]
             /\ groups'[m][e] = IF m = n THEN None ELSE groups[m][e]
      BY <1>2, <2>8 DEF Restart, GroupTypes
    <3>2. UNCHANGED <<issued, approvalMsgs, syncMsgs>>
      BY <2>8, Zenon DEF Restart
    <3>3. ActiveIsApproved'
      BY <1>2, <3>1, <3>2 DEF ApprovedInv, ActiveIsApproved
    <3> QED
      BY <1>2, <3>1, <3>2, <3>3 DEF ApprovedInv, Issued
  <2>9. ASSUME NEW n \in Masternode, ElectionStep(n) PROVE ApprovedInv'
    BY <2>1, <2>9 DEF ElectionStep, approvalVars, gossip
  <2>10. CASE AdvanceClock \/ UNCHANGED vars
    BY <2>1, <2>10, SMTT(60) DEF AdvanceClock, vars, approvalVars, gossip
  <2>11. CASE Next
    BY <2>2, <2>5, <2>6, <2>7, <2>8, <2>9, <2>10, <2>11, Zenon DEF Next
  <2> QED
    BY <1>2, <2>10, <2>11, Zenon
<1> QED
  BY <1>1, <1>2, BoundsHold, ElectionInvHolds, GroupTypesHold, PTL DEF Spec

\* No masternode holds groups active that no masternode has certified, whatever
\* path the certificate took and whatever it raced.
THEOREM ActiveGroupsAreApproved == Spec => []ActiveIsApproved
<1>1. ApprovedInv => ActiveIsApproved
  BY DEF ApprovedInv
<1> QED
  BY <1>1, ApprovedInvHolds, PTL
-----------------------------------------------------------------------------
(* Certificates count votes that were cast.                                 *)

CopiesIn(msgs, id) == {p \in msgs : p.id = id}

\* The votes of a ballot were broadcast, and none is the proposer's.
Cast(id, ballot) ==
    \A voter \in ballot.voters : voter # id.by /\ \E v \in voteMsgs : v.id = id /\ v.voter = voter

\* The own vote is added once per copy of the proposal that was delivered.
Counted(n, id, ballot) ==
    /\ ballot.repeats > 0 => n \in ballot.voters
    /\ n \in ballot.voters => ballot.repeats < Cardinality(CopiesIn(seen[n], id))

GoodCertificate(c) ==
    /\ Total(c.ballot) >= MinMasternodes
    /\ c.ballot.repeats > 0 => c.ballot.repeats < Cardinality(Copies(c.id))
    /\ Cast(c.id, c.ballot)

\* The key of a vote of n stands for a vote that was broadcast.
VoteOf(n, k) == k.count = 0 => \E v \in voteMsgs : v.id = k.id /\ v.voter = n

\* What makes QuorumOfVoters inductive: what is so far on the ballots is cast and
\* counted, and a vote whose key is in the publish cache was broadcast.
BallotInv ==
    /\ IsFiniteSet(proposalMsgs)
    /\ \A n \in Masternode : \A k \in published[n] : VoteOf(n, k)
    /\ \A n \in Masternode : seen[n] \subseteq proposalMsgs
    /\ \A v \in voteMsgs : v.voter # v.id.by
    /\ \A n \in Masternode : \A id \in DOMAIN votes[n] :
          Cast(id, votes[n][id]) /\ Counted(n, id, votes[n][id])
    /\ \A c \in issued : GoodCertificate(c)

\* More copies are at least as many.
LEMMA CopiesGrow ==
    ASSUME NEW more, IsFiniteSet(more), NEW msgs \in SUBSET more, NEW id
    PROVE  /\ Cardinality(CopiesIn(msgs, id)) \in Nat
           /\ Cardinality(CopiesIn(more, id)) \in Nat
           /\ Cardinality(CopiesIn(msgs, id)) <= Cardinality(CopiesIn(more, id))
<1>1. CopiesIn(more, id) \subseteq more /\ CopiesIn(msgs, id) \subseteq CopiesIn(more, id)
  BY SMTT(60) DEF CopiesIn
<1>2. IsFiniteSet(CopiesIn(more, id))
  BY <1>1, FS_Subset, SMTT(60)
<1>3. IsFiniteSet(CopiesIn(msgs, id)) /\ Cardinality(CopiesIn(msgs, id)) <= Cardinality(CopiesIn(more, id))
  BY <1>1, <1>2, FS_Subset
<1> QED
  BY <1>2, <1>3, FS_CardinalityType, Zenon

\* The own vote on a delivered copy keeps the count.
LEMMA AddOwnCounts ==
    ASSUME NEW n \in Masternode, NEW id, NEW b \in Ballots, NEW delivered, IsFiniteSet(delivered),
           NEW p, p \notin delivered, p.id = id,
           b.repeats > 0 => n \in b.voters,
           n \in b.voters => b.repeats < Cardinality(CopiesIn(delivered, id))
    PROVE  AddOwn(n, b).repeats < Cardinality(CopiesIn(delivered \cup {p}, id))
<1>1. CopiesIn(delivered \cup {p}, id) = CopiesIn(delivered, id) \cup {p} /\ p \notin CopiesIn(delivered, id)
  BY SMTT(60) DEF CopiesIn
<1>2. CopiesIn(delivered, id) \subseteq delivered
  BY DEF CopiesIn
<1>3. IsFiniteSet(CopiesIn(delivered, id))
  BY <1>2, FS_Subset, Zenon
<1>4. Cardinality(CopiesIn(delivered \cup {p}, id)) = Cardinality(CopiesIn(delivered, id)) + 1
  BY <1>1, <1>3, FS_AddElement, Zenon
<1>5. Cardinality(CopiesIn(delivered, id)) \in Nat
  BY <1>3, FS_CardinalityType, Zenon
<1>6. b.repeats \in Nat
  BY Zenon DEF Ballots
<1>7. CASE n \in b.voters
  <2>1. AddOwn(n, b).repeats = b.repeats + 1
    BY <1>7, Zenon DEF AddOwn, Ballots
  <2> QED
    BY <1>4, <1>5, <1>6, <1>7, <2>1
<1>8. CASE n \notin b.voters
  <2>1. AddOwn(n, b).repeats = b.repeats /\ b.repeats = 0
    BY <1>6, <1>8 DEF AddOwn, Ballots
  <2> QED
    BY <1>4, <1>5, <2>1
<1> QED
  BY <1>7, <1>8, ZenonT(60)
\* A certificate stays good when more is broadcast.
LEMMA CertificatesKeep ==
    ASSUME BallotInv, IsFiniteSet(proposalMsgs'), proposalMsgs \subseteq proposalMsgs',
           voteMsgs \subseteq voteMsgs', GroupTypes, NEW c \in issued
    PROVE  GoodCertificate(c)'
<1>1. GoodCertificate(c) /\ c.ballot.repeats \in Nat
  BY ZenonT(60) DEF BallotInv, GroupTypes, Ballots
<1>2. /\ Cardinality(CopiesIn(proposalMsgs, c.id)) \in Nat
      /\ Cardinality(CopiesIn(proposalMsgs', c.id)) \in Nat
      /\ Cardinality(CopiesIn(proposalMsgs, c.id)) <= Cardinality(CopiesIn(proposalMsgs', c.id))
  BY CopiesGrow, Zenon
<1>3. c.ballot.repeats > 0 => c.ballot.repeats < Cardinality(CopiesIn(proposalMsgs', c.id))
  BY <1>1, <1>2 DEF GoodCertificate, Copies, CopiesIn
<1>4. Cast(c.id, c.ballot)'
  BY <1>1, ZenonT(60) DEF GoodCertificate, Cast
<1> QED
  BY <1>1, <1>3, <1>4, Zenon DEF GoodCertificate, Copies, CopiesIn

\* So does a ballot, when more is delivered.
LEMMA BallotsKeep ==
    ASSUME BallotInv, GroupTypes, NEW n \in Masternode, NEW id \in DOMAIN votes[n],
           IsFiniteSet(seen'[n]), seen[n] \subseteq seen'[n], voteMsgs \subseteq voteMsgs'
    PROVE  /\ \A voter \in votes[n][id].voters :
                 voter # id.by /\ \E v \in voteMsgs' : v.id = id /\ v.voter = voter
           /\ votes[n][id].repeats > 0 => n \in votes[n][id].voters
           /\ n \in votes[n][id].voters => votes[n][id].repeats < Cardinality(CopiesIn(seen'[n], id))
<1>1. Cast(id, votes[n][id]) /\ Counted(n, id, votes[n][id]) /\ votes[n][id].repeats \in Nat
  BY Zenon DEF BallotInv, GroupTypes, Ballots
<1>2. /\ Cardinality(CopiesIn(seen[n], id)) \in Nat
      /\ Cardinality(CopiesIn(seen'[n], id)) \in Nat
      /\ Cardinality(CopiesIn(seen[n], id)) <= Cardinality(CopiesIn(seen'[n], id))
  BY CopiesGrow, Zenon
<1> QED
  BY <1>1, <1>2 DEF Cast, Counted

\* A step that adds proposals and leaves the ballots alone keeps the invariant.
LEMMA ProposalsKeep ==
    ASSUME BallotInv, GroupTypes, UNCHANGED <<votes, issued, voteMsgs, seen>>,
           proposalMsgs' = proposalMsgs \/ \E p \in Proposals : proposalMsgs' = proposalMsgs \cup {p},
           \A n \in Masternode : \A k \in published'[n] : k \in published[n] \/ k.count # 0
    PROVE  BallotInv'
<1>1. IsFiniteSet(proposalMsgs') /\ proposalMsgs \subseteq proposalMsgs'
  BY FS_AddElement, Zenon DEF BallotInv
<1>2. \A n \in Masternode : \A k \in published'[n] : VoteOf(n, k)'
  BY Zenon DEF BallotInv, VoteOf
<1>3. \A c \in issued' : GoodCertificate(c)'
  BY <1>1, CertificatesKeep, Zenon
<1>4. \A n \in Masternode : \A id \in DOMAIN votes'[n] :
         Cast(id, votes[n][id])' /\ Counted(n, id, votes[n][id])'
  BY DEF BallotInv, Cast, Counted
<1> QED
  BY <1>1, <1>2, <1>3, <1>4, Zenon DEF BallotInv
\* A tally over a ballot that is cast and counted keeps the invariant, whether it
\* issues a certificate or not.
LEMMA TallyKeeps ==
    ASSUME BallotInv, GroupTypes, ElectionTypes, NEW n \in Masternode, NEW id \in Ids,
           NEW held, DOMAIN held \subseteq Ids, NEW ballot \in Ballots, Tally(n, id, held, ballot),
           proposalMsgs' = proposalMsgs, voteMsgs \subseteq voteMsgs',
           \A v \in voteMsgs' : v.voter # v.id.by,
           \A m \in Masternode : \A k \in published'[m] : VoteOf(m, k)',
           \A m \in Masternode : seen[m] \subseteq seen'[m] /\ seen'[m] \subseteq proposalMsgs,
           \A voter \in ballot.voters : voter # id.by /\ \E v \in voteMsgs' : v.id = id /\ v.voter = voter,
           ballot.repeats > 0 => n \in ballot.voters,
           n \in ballot.voters => ballot.repeats < Cardinality(CopiesIn(seen'[n], id)),
           \/ issued' = issued
           \/ /\ issued' = issued \cup {[id |-> id, by |-> n, ballot |-> ballot]}
              /\ Total(ballot) >= Required(n)
    PROVE  BallotInv'
<1>1. IsFiniteSet(proposalMsgs) /\ \A m \in Masternode : IsFiniteSet(seen'[m])
  BY FS_Subset, Zenon DEF BallotInv
<1>2. VotesChange(n, id, ballot)
  BY TallyVotes, Zenon
<1>3. ASSUME NEW m \in Masternode, NEW i \in DOMAIN votes'[m]
      PROVE  (Cast(i, votes[m][i]) /\ Counted(m, i, votes[m][i]))'
  <2>1. CASE m = n /\ i = id /\ votes'[m][i] = ballot
    BY <2>1, Zenon DEF Cast, Counted
  <2>2. CASE i \in DOMAIN votes[m] /\ votes'[m][i] = votes[m][i]
    <3>1. /\ \A voter \in votes[m][i].voters :
                voter # i.by /\ \E v \in voteMsgs' : v.id = i /\ v.voter = voter
          /\ votes[m][i].repeats > 0 => m \in votes[m][i].voters
          /\ m \in votes[m][i].voters => votes[m][i].repeats < Cardinality(CopiesIn(seen'[m], i))
      BY <1>1, <2>2, BallotsKeep, Zenon
    <3> QED
      BY <2>2, <3>1, Zenon DEF Cast, Counted
  <2> QED
    BY <1>2, <2>1, <2>2, Zenon DEF VotesChange
<1>4. ASSUME NEW c \in issued PROVE GoodCertificate(c)'
  BY <1>1, CertificatesKeep, Zenon
<1>5. ASSUME Total(ballot) >= Required(n)
      PROVE  GoodCertificate([id |-> id, by |-> n, ballot |-> ballot])'
  <2>1. ballot.repeats \in Nat /\ ballot.voters \subseteq Masternode
    BY Zenon DEF Ballots
  <2>2. IsFiniteSet(ballot.voters)
    BY <2>1, FS_Subset, ElectionAssumption, ZenonT(60)
  <2>3. Total(ballot) >= MinMasternodes
    <3>1. Cardinality(ballot.voters) \in Nat
      BY <2>2, FS_CardinalityType, Zenon
    <3>2. Total(ballot) \in Nat
      BY <2>1, <3>1 DEF Total
    <3>3. Required(n) \in Nat /\ Required(n) >= MinMasternodes
      BY RequiredBound, Zenon DEF ElectionTypes
    <3> QED
      BY <1>5, <3>2, <3>3, ElectionAssumption
  <2>4. ballot.repeats > 0 => ballot.repeats < Cardinality(CopiesIn(proposalMsgs, id))
    <3>1. /\ Cardinality(CopiesIn(seen'[n], id)) \in Nat
          /\ Cardinality(CopiesIn(proposalMsgs, id)) \in Nat
          /\ Cardinality(CopiesIn(seen'[n], id)) <= Cardinality(CopiesIn(proposalMsgs, id))
      BY <1>1, CopiesGrow, Zenon
    <3> QED
      BY <2>1, <3>1
  <2> QED
    BY <2>3, <2>4, Zenon DEF GoodCertificate, Cast, Copies, CopiesIn
<1>6. \A c \in issued' : GoodCertificate(c)'
  BY <1>4, <1>5, Zenon
<1> QED
  BY <1>1, <1>3, <1>6, Zenon DEF BallotInv

\* The ballot a masternode holds on a proposal, counted so far: an empty one if
\* it holds none.
LEMMA BallotStands ==
    ASSUME BallotInv, NEW n \in Masternode, NEW id
    PROVE  LET b == BallotOf(n, id) IN
           /\ \A voter \in b.voters : voter # id.by /\ \E v \in voteMsgs : v.id = id /\ v.voter = voter
           /\ b.repeats > 0 => n \in b.voters
           /\ n \in b.voters => b.repeats < Cardinality(CopiesIn(seen[n], id))
<1>1. CASE id \in DOMAIN votes[n]
  <2>1. Cast(id, votes[n][id]) /\ Counted(n, id, votes[n][id])
    BY <1>1, Zenon DEF BallotInv
  <2> QED
    BY <1>1, <2>1, Zenon DEF BallotOf, Cast, Counted
<1>2. CASE id \notin DOMAIN votes[n]
  BY <1>2 DEF BallotOf, NoVotes
<1> QED
  BY <1>1, <1>2, Zenon

\* vote_on_proposal keeps the invariant.
LEMMA VoteKeeps ==
    ASSUME BallotInv, GroupTypes, ElectionTypes, NEW n \in Masternode,
           NEW p \in proposalMsgs, VoteOnProposal(n, p)
    PROVE  BallotInv'
<1> DEFINE held == Bind(props[n], p.id, p.at)
           b == BallotOf(n, p.id)
           ballot == AddOwn(n, b)
           vote == [id |-> p.id, voter |-> n, at |-> now]
<1>1. p.id \in Ids /\ p.id.by # n /\ DOMAIN held \subseteq Ids
  BY Zenon DEF GroupTypes, Proposals, Bind, VoteOnProposal, ReceivesProposal
<1>2. b \in Ballots /\ ballot \in Ballots
  BY BallotTypes, Zenon
<1>3. /\ Tally(n, p.id, held, ballot) /\ proposalMsgs' = proposalMsgs
      /\ \/ voteMsgs' = voteMsgs \cup {vote}
         \/ voteMsgs' = voteMsgs /\ VoteKey(p.id) \in published[n]
      /\ Publish(n, VoteKey(p.id))
      /\ seen' = [seen EXCEPT ![n] = @ \cup {p}] /\ p \notin seen[n]
  BY VoteOut, Zenon DEF VoteOnProposal, ReceivesProposal
<1>4. \/ issued' = issued
      \/ /\ issued' = issued \cup {[id |-> p.id, by |-> n, ballot |-> ballot]}
         /\ Total(ballot) >= Required(n)
  BY Zenon DEF VoteOnProposal, Decided
<1>5. vote.id = p.id /\ vote.voter = n
  BY Zenon
<1> HIDE DEF held, vote
<1>6. \A v \in voteMsgs' : v.voter # v.id.by
  BY <1>1, <1>3, <1>5, Zenon DEF BallotInv
<1>7. seen'[n] = seen[n] \cup {p}
      /\ \A m \in Masternode : seen[m] \subseteq seen'[m] /\ seen'[m] \subseteq proposalMsgs
  BY <1>3, Zenon DEF GroupTypes, BallotInv
<1>8. /\ \A voter \in b.voters : voter # p.id.by /\ \E v \in voteMsgs : v.id = p.id /\ v.voter = voter
      /\ b.repeats > 0 => n \in b.voters
      /\ n \in b.voters => b.repeats < Cardinality(CopiesIn(seen[n], p.id))
  BY BallotStands, Zenon
<1>9. ballot.voters = b.voters \cup {n}
  BY <1>2 DEF AddOwn, Ballots
<1>10. IsFiniteSet(seen[n])
  BY FS_Subset, Zenon DEF BallotInv
<1> HIDE DEF b
<1>11. ballot.repeats < Cardinality(CopiesIn(seen'[n], p.id))
  <2> DEFINE id == p.id
             D == seen[n]
  <2>1. p.id = id /\ p \notin D
    BY <1>3
  <2>2. IsFiniteSet(D) /\ (b.repeats > 0 => n \in b.voters)
        /\ (n \in b.voters => b.repeats < Cardinality(CopiesIn(D, id)))
    BY <1>8, <1>10, Zenon
  <2>3. CopiesIn(seen'[n], id) = CopiesIn(D \cup {p}, id)
    BY <1>7, Zenon
  <2> HIDE DEF id, D
  <2>4. AddOwn(n, b).repeats < Cardinality(CopiesIn(D \cup {p}, id))
    BY <1>2, <2>1, <2>2, AddOwnCounts, Zenon
  <2> QED
    BY <2>3, <2>4, ZenonT(60) DEF id
<1>12. VoteKey(p.id) \in Keys /\ VoteKey(p.id).id = p.id /\ VoteKey(p.id).count = 0
  BY <1>1 DEF VoteKey, Keys
<1>13. \E v \in voteMsgs' : v.id = p.id /\ v.voter = n
  <2>1. CASE VoteKey(p.id) \in published[n] /\ voteMsgs' = voteMsgs
    <3>1. VoteOf(n, VoteKey(p.id))
      BY <2>1, Zenon DEF BallotInv
    <3> QED
      BY <1>12, <2>1, <3>1 DEF VoteOf
  <2>2. CASE voteMsgs' = voteMsgs \cup {vote}
    BY <1>5, <2>2, Zenon
  <2> QED
    BY <1>3, <2>1, <2>2, Zenon
<1>14. \A m \in Masternode : \A k \in published'[m] : VoteOf(m, k)'
  <2>1. \A m \in Masternode : \A k \in published'[m] : k \in published[m] \/ (m = n /\ k = VoteKey(p.id))
    BY <1>3, <1>12, PublishSets, Zenon
  <2>2. VoteOf(n, VoteKey(p.id))'
    BY <1>12, <1>13, Zenon DEF VoteOf, VoteKey
  <2>3. ASSUME NEW m \in Masternode, NEW k \in published[m] PROVE VoteOf(m, k)'
    BY <1>3, Zenon DEF BallotInv, VoteOf
  <2> QED
    BY <2>1, <2>2, <2>3, Zenon
<1>15. \A voter \in ballot.voters : voter # p.id.by /\ \E v \in voteMsgs' : v.id = p.id /\ v.voter = voter
  BY <1>1, <1>3, <1>8, <1>9, <1>13, Zenon
<1>16. n \in ballot.voters /\ voteMsgs \subseteq voteMsgs'
  BY <1>3, <1>9, Zenon
<1> HIDE DEF ballot
<1> QED
  BY <1>1, <1>2, <1>3, <1>4, <1>6, <1>7, <1>11, <1>16, <1>14, <1>15, TallyKeeps, ZenonT(60)

\* process_vote keeps the invariant.
LEMMA ProcessVoteKeeps ==
    ASSUME BallotInv, GroupTypes, ElectionTypes, NEW n \in Masternode,
           NEW v \in voteMsgs, ProcessVote(n, v)
    PROVE  BallotInv'
<1> DEFINE b == BallotOf(n, v.id)
           ballot == AddReceived(b, v.voter)
<1>1. v.id \in Ids /\ v.voter \in Masternode /\ v.voter # n /\ v.voter # v.id.by /\ DOMAIN props[n] \subseteq Ids
  BY Zenon DEF GroupTypes, BallotInv, ProcessVote
<1>2. b \in Ballots /\ ballot \in Ballots
  BY <1>1, BallotTypes, Zenon
<1>3. Tally(n, v.id, props[n], ballot) /\ UNCHANGED <<proposalMsgs, voteMsgs, seen, published>>
  BY Zenon DEF ProcessVote, gossip
<1>4. \/ issued' = issued
      \/ /\ issued' = issued \cup {[id |-> v.id, by |-> n, ballot |-> ballot]}
         /\ Total(ballot) >= Required(n)
  BY Zenon DEF ProcessVote, Decided
<1>5. /\ \A voter \in b.voters : voter # v.id.by /\ \E w \in voteMsgs : w.id = v.id /\ w.voter = voter
      /\ b.repeats > 0 => n \in b.voters
      /\ n \in b.voters => b.repeats < Cardinality(CopiesIn(seen[n], v.id))
  BY BallotStands, Zenon
<1>6. ballot.voters = b.voters \cup {v.voter} /\ ballot.repeats = b.repeats
  BY <1>2, Zenon DEF AddReceived, Ballots
<1> HIDE DEF b
<1>7. /\ \A voter \in ballot.voters : voter # v.id.by /\ \E w \in voteMsgs' : w.id = v.id /\ w.voter = voter
      /\ ballot.repeats > 0 => n \in ballot.voters
      /\ n \in ballot.voters => ballot.repeats < Cardinality(CopiesIn(seen'[n], v.id))
  BY <1>1, <1>3, <1>5, <1>6, Zenon
<1>8. /\ \A w \in voteMsgs' : w.voter # w.id.by
      /\ \A m \in Masternode : seen[m] \subseteq seen'[m] /\ seen'[m] \subseteq proposalMsgs
      /\ voteMsgs \subseteq voteMsgs'
      /\ \A m \in Masternode : \A k \in published'[m] : VoteOf(m, k)'
  BY <1>3, Zenon DEF BallotInv, VoteOf
<1> HIDE DEF ballot
<1> QED
  BY <1>1, <1>2, <1>3, <1>4, <1>7, <1>8, TallyKeeps, Zenon

\* Counted votes were cast, throughout.
LEMMA BallotInvHolds == Spec => []BallotInv
<1>1. Init => BallotInv
  <2> SUFFICES ASSUME Init PROVE BallotInv
    OBVIOUS
  <2>1. IsFiniteSet(proposalMsgs)
    BY FS_EmptySet DEF Init, GroupInit
  <2> QED
    BY <2>1 DEF Init, GroupInit, BallotInv
<1>2. ASSUME ElectionInv, GroupTypes, InBounds, BallotInv, [Next]_vars PROVE BallotInv'
  <2>1. CASE UNCHANGED <<votes, issued, proposalMsgs, voteMsgs, seen, published>>
    BY <1>2, <2>1, ProposalsKeep, ZenonT(60)
  <2>2. budget.up \subseteq Masternode
    BY <1>2 DEF InBounds, Bounds
  <2>3. ElectionTypes
    BY <1>2 DEF ElectionInv
  <2>4. ASSUME NEW n \in Masternode, CreateAndPropose(n), UNCHANGED <<votes, issued, voteMsgs, seen>>
        PROVE  BallotInv'
    <3>1. PICK p \in Proposals : PublishProposal(n, p)
      BY <1>2, <2>3, <2>4, CreateSets, Zenon
    <3> QED
      BY <1>2, <2>4, <3>1, PublishProposalSets, ProposalsKeep, Zenon
  <2>5. ASSUME NEW n \in Masternode, PeriodicStep(n) PROVE BallotInv'
    <3>1. ASSUME NEW connected \in Connections, TickCreating(n, connected) PROVE BallotInv'
      <4>1. PICK p \in Proposals : PublishProposal(n, p)
        BY <1>2, <2>3, <2>5, <3>1, CreatingSets, Zenon
      <4>2. UNCHANGED <<votes, issued, voteMsgs, seen>>
        BY <3>1 DEF TickCreating
      <4> QED
        BY <1>2, <2>5, <4>1, <4>2, PublishProposalSets, ProposalsKeep, Zenon
    <3>2. ASSUME NEW connected \in Connections,
                 TickCoordinator(n, connected) \/ TickReads(n, connected) \/ TickIdles(n, connected)
          PROVE  BallotInv'
      BY <2>1, <2>4, <2>5, <3>2 DEF TickCoordinator, TickReads, TickIdles, approvalVars, gossip
    <3>3. CASE LeaderCreates(n) \/ FormationTask(n)
      BY <2>1, <2>4, <2>5, <3>3 DEF LeaderCreates, FormationTask, gossip
    <3>4. ASSUME NEW e \in Epochs, Rebroadcast(n, e) PROVE BallotInv'
      <4>1. PICK p \in Proposals : Publish(n, Key(p))
        BY <1>2, <3>4, Zenon DEF Rebroadcast, Copies, GroupTypes
      <4>2. \A m \in Masternode : \A k \in published'[m] : k \in published[m] \/ k.count # 0
        BY <1>2, <2>5, <4>1, KeyType, PublishSets, Zenon
      <4>3. UNCHANGED <<votes, issued, proposalMsgs, voteMsgs, seen>>
        BY <3>4, Zenon DEF Rebroadcast, approvalVars
      <4> QED
        BY <1>2, <4>2, <4>3, ProposalsKeep, Zenon
    <3> QED
      BY <2>5, <3>1, <3>2, <3>3, <3>4, Zenon DEF PeriodicStep
  <2>6. ASSUME NEW n \in Masternode, NetworkStep(n) PROVE BallotInv'
    <3>1. ASSUME NEW p \in proposalMsgs, RejectProposal(n, p) PROVE BallotInv'
      <4>1. UNCHANGED <<votes, issued, proposalMsgs, voteMsgs, published>>
        BY <3>1 DEF RejectProposal
      <4>2. \A m \in Masternode : seen[m] \subseteq seen'[m] /\ seen'[m] \subseteq proposalMsgs
        BY <1>2, <3>1, Zenon DEF RejectProposal, ReceivesProposal, GroupTypes, BallotInv
      <4>3. \A m \in Masternode : IsFiniteSet(seen'[m])
        BY <1>2, <4>2, FS_Subset, Zenon DEF BallotInv
      <4>4. ASSUME NEW m \in Masternode, NEW i \in DOMAIN votes[m]
            PROVE  (Cast(i, votes[m][i]) /\ Counted(m, i, votes[m][i]))'
        <5>1. /\ \A voter \in votes[m][i].voters :
                    voter # i.by /\ \E v \in voteMsgs' : v.id = i /\ v.voter = voter
              /\ votes[m][i].repeats > 0 => m \in votes[m][i].voters
              /\ m \in votes[m][i].voters => votes[m][i].repeats < Cardinality(CopiesIn(seen'[m], i))
          BY <1>2, <4>1, <4>2, <4>3, BallotsKeep, Zenon
        <5> QED
          BY <4>1, <5>1, Zenon DEF Cast, Counted
      <4>5. \A c \in issued : GoodCertificate(c)'
        BY <1>2, <4>1, CertificatesKeep, Zenon DEF BallotInv
      <4> QED
        BY <1>2, <4>1, <4>2, <4>4, <4>5, Zenon DEF BallotInv, VoteOf
    <3>2. ASSUME NEW m \in approvalMsgs \cup syncMsgs, AddGroups(n, m) PROVE BallotInv'
      BY <2>1, <3>2 DEF AddGroups, gossip
    <3> QED
      BY <1>2, <2>3, <2>6, <3>1, <3>2, VoteKeeps, ProcessVoteKeeps, Zenon DEF NetworkStep
  <2>7. ASSUME NEW n \in Masternode, MainStep(n) PROVE BallotInv'
    BY <2>1, <2>7 DEF MainStep, ProcessApproval, AnswerSync, ProcessSync, approvalVars, gossip
  <2>8. ASSUME NEW n \in Masternode, Restart(n) PROVE BallotInv'
    <3>1. UNCHANGED <<issued, proposalMsgs, voteMsgs>>
      BY <2>8 DEF Restart
    <3>2. \A m \in Masternode : /\ seen'[m] = IF m = n THEN {} ELSE seen[m]
                                /\ votes'[m] = IF m = n THEN <<>> ELSE votes[m]
                                /\ published'[m] = IF m = n THEN {} ELSE published[m]
      BY <1>2, <2>8, ZenonT(60) DEF Restart, GroupTypes
    <3>3. ASSUME NEW m \in Masternode, NEW i \in DOMAIN votes'[m]
          PROVE  (Cast(i, votes[m][i]) /\ Counted(m, i, votes[m][i]))'
      <4>1. m # n
        BY <3>2, <3>3, SMTT(60)
      <4> QED
        BY <1>2, <3>1, <3>2, <3>3, <4>1, SMTT(60) DEF BallotInv, Cast, Counted
    <3>4. \A c \in issued : GoodCertificate(c)'
      BY <1>2, <3>1, CertificatesKeep, Zenon DEF BallotInv
    <3>5. \A m \in Masternode : \A k \in published'[m] : VoteOf(m, k)'
      BY <1>2, <3>1, <3>2, Zenon DEF BallotInv, VoteOf
    <3> QED
      BY <1>2, <3>1, <3>2, <3>3, <3>4, <3>5, Zenon DEF BallotInv
  <2>9. ASSUME NEW n \in Masternode, ElectionStep(n) PROVE BallotInv'
    BY <2>1, <2>9 DEF ElectionStep, approvalVars, gossip
  <2>10. CASE AdvanceClock \/ UNCHANGED vars
    BY <2>1, <2>10, Zenon DEF AdvanceClock, vars, approvalVars, gossip
  <2>11. CASE Next
    BY <2>2, <2>5, <2>6, <2>7, <2>8, <2>9, <2>10, <2>11, SMTT(60) DEF Next
  <2> QED
    BY <1>2, <2>10, <2>11
<1> QED
  BY <1>1, <1>2, BoundsHold, ElectionInvHolds, GroupTypesHold, PTL DEF Spec

\* Every approval certificate counts votes that were cast, min_masternodes of
\* them, none by the proposer; a vote counts again at most once for every further
\* copy of the proposal under its id.
THEOREM CertificatesCountCastVotes == Spec => []QuorumOfVoters
<1>1. BallotInv => QuorumOfVoters
  BY Zenon DEF BallotInv, GoodCertificate, Cast, QuorumOfVoters
<1> QED
  BY <1>1, BallotInvHolds, PTL
=============================================================================
