--------------------------- MODULE VoteAggregator ---------------------------
(***************************************************************************)
(* The block-vote aggregator of a masternode (savitri-masternode           *)
(* vote_aggregator.rs), as operators on its state.  A proposal key is the  *)
(* tuple (height, round, hash, group) the votes are bucketed by.           *)
(* Signatures are abstract: a vote names the masternode that signed it.    *)
(* cleanup_old_votes has no caller and is left out.                        *)
(***************************************************************************)
EXTENDS Naturals, FiniteSets, BlockTypes, Thresholds

CONSTANTS
    Masternode,  \* the voters
    IndexOf,     \* group_index_from_id: the epoch-stable index of a group id
    NoIndex      \* its None, for a malformed id

ProposalKey == [height : Height, round : RoundId, hash : Hash, group : Group]
VoteType == {"Approve", "Reject"}
Vote == [key : ProposalKey, voter : Masternode, type : VoteType]

\* votes holds the buckets of all keys: the vote's own key says which.  sizes
\* is group_mn_sizes, 0 for a group without an entry.
Aggregator == [votes : SUBSET Vote, issued : SUBSET ProposalKey, sizes : [Group -> Nat]]

NewAggregator == [votes |-> {}, issued |-> {}, sizes |-> [g \in Group |-> 0]]

\* Mutant of SetGroupMnSizes: leader and backup only, the formula main.rs
\* replaced.
SetGroupMnSizesOfLeaders(a, groups, n) == 
    [a EXCEPT !.sizes = [g \in Group |-> IF g \in groups THEN 1 ELSE 0]]

\* set_group_mn_sizes as the sync task of main.rs calls it: every active group
\* gets the size of the whole committee.  The index aliases follow the ids.
SetGroupMnSizes(a, groups, n) ==
    [a EXCEPT !.sizes = [g \in Group |-> IF g \notin groups THEN 0
                                         ELSE IF n = 0 THEN 1 ELSE n]]

\* The entries found under the index alias of g.
Aliases(a, g) ==
    {h \in Group : a.sizes[h] # 0 /\ IndexOf[g] # NoIndex /\ IndexOf[h] = IndexOf[g]}

\* quorum_for_group: exact id, then index alias, then the fallback.
QuorumForGroup(a, g, fallback) ==
    IF a.sizes[g] # 0 THEN QuorumForVoters(a.sizes[g])
    ELSE IF Aliases(a, g) # {} THEN QuorumForVoters(a.sizes[CHOOSE h \in Aliases(a, g) : TRUE])
    ELSE QuorumForVoters(fallback)

\* The distinct voters of a bucket's approve_votes.
Approvals(votes, k) == {v.voter : v \in {w \in votes : w.key = k /\ w.type = "Approve"}}

\* add_vote returns a certificate.
Completes(a, v, fallback) ==
    /\ v.key \notin a.issued
    /\ Cardinality(Approvals(a.votes \cup {v}, v.key)) >= QuorumForGroup(a, v.key.group, fallback)

\* Mutant of AddVote: the certificate is not remembered in issued_certs.
AddVoteForgetsIssued(a, v, fallback) ==
    IF v.key \in a.issued THEN a
    ELSE IF Completes(a, v, fallback)
         THEN [a EXCEPT !.votes = {w \in @ : w.key # v.key}]
         ELSE [a EXCEPT !.votes = @ \cup {v}]

\* Mutant of AddVote: the bucket outlives its certificate.
AddVoteKeepsBucket(a, v, fallback) ==
    IF v.key \in a.issued THEN a
    ELSE [a EXCEPT !.votes = @ \cup {v},
                   !.issued = IF Completes(a, v, fallback) THEN @ \cup {v.key} ELSE @]

\* add_vote: a vote for a certified key is dropped; the vote that completes the
\* quorum removes the bucket and marks the key; any other vote is kept once.
AddVote(a, v, fallback) ==
    IF v.key \in a.issued THEN a
    ELSE IF Completes(a, v, fallback)
         THEN [a EXCEPT !.votes = {w \in @ : w.key # v.key}, !.issued = @ \cup {v.key}]
         ELSE [a EXCEPT !.votes = @ \cup {v}]
=============================================================================
