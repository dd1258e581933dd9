--------------------------- MODULE LeaderElection ---------------------------
(***************************************************************************)
(* The leader election of the masternodes (savitri-masternode              *)
(* group_consensus.rs).  The periodic task starts elections; the main task *)
(* handles the proposals and certificates of the others.  Both read the    *)
(* state, release its lock and write it later, so each is two steps here.  *)
(* Messages stay in sets: they may be lost, reordered and delivered again. *)
(* Signatures are sound, and whether the lightnodes suffice and the lists  *)
(* of two masternodes overlap is a free choice.                            *)
(***************************************************************************)
EXTENDS Integers, FiniteSets, Sequences

CONSTANTS
    Masternode,         \* total_masternodes of them
    Ordered,            \* ordered_masternode_ids, the sorted static validator list
    MinMasternodes,     \* min_masternodes
    None,               \* no election, no proposal
    MaxTime,            \* bound on the clock
    EpochLength,        \* seconds per epoch of the scheduler
    ElectionTimeout,    \* leader_election_timeout_secs, 10
    LeaderMessageAge    \* age up to which an election proposal is valid, 60

ASSUME ElectionAssumption ==
    /\ IsFiniteSet(Masternode)
    /\ None \notin Masternode
    /\ Ordered \in Seq(Masternode)
    /\ MinMasternodes \in Nat \ {0}
    /\ MinMasternodes <= Cardinality(Masternode)
    /\ MaxTime \in Nat
    /\ EpochLength \in Nat \ {0}
    /\ ElectionTimeout \in Nat
    /\ LeaderMessageAge \in Nat

VARIABLES
    now,            \* wall clock, in seconds
    active,         \* active_masternodes_count
    phase,          \* leader_election_state
    elected,        \* the election that phases "elected" and "creating" carry
    eprops,         \* leader_proposals
    ecerts,         \* leader_certificates, as pairs election, certificate
    started,        \* leader_election_start_time
    periodic,       \* what the periodic task is about to write
    main,           \* what the main task is about to write and to broadcast
    electionMsgs,   \* election proposals broadcast
    certMsgs        \* election certificates broadcast

Times == 0..MaxTime
EpochOf(t) == t \div EpochLength
Epoch == EpochOf(now)
Epochs == 0..EpochOf(MaxTime)

\* LeaderElectionProposal; election_id is made of the epoch, by and at.
Elections == [by : Masternode, at : Times]

\* LeaderElectionCertificate, with the election it is about.
Certificates == [election : Elections, approver : Masternode, at : Times]

\* Mutant of ActiveCount: only the peers count, without a floor.
ActivePeers(connected) ==
    IF connected > Cardinality(Masternode) THEN Cardinality(Masternode) ELSE connected

\* update_active_masternodes_count for a number of connected peers.
ActiveCount(connected) ==
    LET raw == connected + 1
        floored == IF raw < MinMasternodes THEN MinMasternodes ELSE raw
        total == Cardinality(Masternode)
    IN  IF floored > total THEN total ELSE floored

\* calculate_dynamic_quorum: ceil(active * 0.67), at least min_masternodes.  Its
\* None is out of reach, as the count never falls below the minimum.
Required(n) ==
    LET share == (67 * active[n] + 99) \div 100
    IN  IF share < MinMasternodes THEN MinMasternodes ELSE share

\* am_i_coordinator_for_current_epoch.
IsCoordinator(n) ==
    Ordered # <<>> /\ Ordered[(Epoch % Len(Ordered)) + 1] = n

CertsOn(certs, e) == {c \in certs : c.election = e}

\* A certificate enters its list unless its approver is there already.
Approve(certs, c) ==
    IF \E d \in CertsOn(certs, c.election) : d.approver = c.approver
    THEN certs ELSE certs \cup {c}

\* Mutant of Eligible: the proposer counts besides its own certificate.
EligibleWithProposer(n, props, certs) ==
    {e \in props : Cardinality(CertsOn(certs, e)) + 1 >= Required(n)}

\* The elections with a quorum of certificates at n.
Eligible(n, props, certs) ==
    {e \in props : Cardinality(CertsOn(certs, e)) >= Required(n)}

\* The earliest of them; equal timestamps are in the order of a hash map.
Winners(n, props, certs) ==
    LET eligible == Eligible(n, props, certs)
    IN  {e \in eligible : \A f \in eligible : e.at <= f.at}

\* What a task has read and is about to write.
AtRest == [todo |-> "rest", election |-> None, answer |-> {}]

\* reset_leader_election.
Reset(n) ==
    /\ phase' = [phase EXCEPT ![n] = "idle"]
    /\ elected' = [elected EXCEPT ![n] = None]
    /\ eprops' = [eprops EXCEPT ![n] = {}]
    /\ ecerts' = [ecerts EXCEPT ![n] = {}]
    /\ started' = [started EXCEPT ![n] = None]

electionVars == <<phase, elected, eprops, ecerts, started>>

\* What try_resolve_leader_election decides over the given tables, up to the
\* release of their locks, when the certificates of answer are to be broadcast
\* afterwards.
Resolve(n, ph, props, certs, start, answer) ==
    LET winners == Winners(n, props, certs)
        late == start # None /\ now - start > ElectionTimeout
    IN  IF ph = "collecting" /\ winners # {}
        THEN {[todo |-> "elect", election |-> e, answer |-> answer] : e \in winners}
        ELSE IF ph = "collecting" /\ late
             THEN {[todo |-> "reset", election |-> None, answer |-> answer]}
             ELSE {AtRest}

\* The decision waits to be written; without one the answer goes out at once.
Decide(n, decision, answer) ==
    /\ main' = [main EXCEPT ![n] = decision]
    /\ certMsgs' = IF decision = AtRest THEN certMsgs \cup answer ELSE certMsgs

ElectionInit ==
    /\ now \in Times
    /\ active = [n \in Masternode |-> Cardinality(Masternode)]
    /\ phase = [n \in Masternode |-> "idle"]
    /\ elected = [n \in Masternode |-> None]
    /\ eprops = [n \in Masternode |-> {}]
    /\ ecerts = [n \in Masternode |-> {}]
    /\ started = [n \in Masternode |-> None]
    /\ periodic = [n \in Masternode |-> AtRest]
    /\ main = [n \in Masternode |-> AtRest]
    /\ electionMsgs = {}
    /\ certMsgs = {}

\* initiate_leader_election after its check: the proposal, the phase, the start
\* and the self-certificate are written over whatever the main task has set.
Initiate(n) ==
    LET e == [by |-> n, at |-> now] IN
    /\ periodic[n].todo = "initiate"
    /\ periodic' = [periodic EXCEPT ![n] = AtRest]
    /\ eprops' = [eprops EXCEPT ![n] = @ \cup {e}]
    /\ phase' = [phase EXCEPT ![n] = "collecting"]
    /\ elected' = [elected EXCEPT ![n] = None]
    /\ started' = [started EXCEPT ![n] = now]
    /\ ecerts' = [ecerts EXCEPT ![n] = @ \cup {[election |-> e, approver |-> n, at |-> now]}]
    /\ electionMsgs' = electionMsgs \cup {e}
    /\ UNCHANGED <<now, active, main, certMsgs>>

\* initiate_leader_election with too few lightnodes.
InitiateInVain(n) ==
    /\ periodic[n].todo = "initiate"
    /\ periodic' = [periodic EXCEPT ![n] = AtRest]
    /\ UNCHANGED <<now, active, electionVars, main, electionMsgs, certMsgs>>

\* validate_leader_proposal.
ValidElection(e) == EpochOf(e.at) = Epoch /\ now - e.at <= LeaderMessageAge

\* process_leader_election_proposal, with the lists overlapping or not.
ProcessElection(n, e, overlap) ==
    LET c == [election |-> e, approver |-> n, at |-> now]
        props == eprops[n] \cup {e}
        ph == IF phase[n] = "idle" THEN "collecting" ELSE phase[n]
        start == IF phase[n] = "idle" THEN now ELSE started[n]
        certs == IF overlap THEN Approve(ecerts[n], c) ELSE ecerts[n]
    IN
    /\ e \in electionMsgs /\ e.by # n
    /\ main[n] = AtRest
    /\ ValidElection(e)
    /\ eprops' = [eprops EXCEPT ![n] = props]
    /\ phase' = [phase EXCEPT ![n] = ph]
    /\ started' = [started EXCEPT ![n] = start]
    /\ ecerts' = [ecerts EXCEPT ![n] = certs]
    /\ \/ overlap /\ \E d \in Resolve(n, ph, props, certs, start, {c}) : Decide(n, d, {c})
       \/ ~overlap /\ UNCHANGED <<main, certMsgs>>
    /\ UNCHANGED <<now, active, elected, periodic, electionMsgs>>

\* process_leader_election_certificate.
ProcessCertificate(n, c) ==
    LET certs == Approve(ecerts[n], c) IN
    /\ c \in certMsgs /\ c.approver # n
    /\ main[n] = AtRest
    /\ ecerts' = [ecerts EXCEPT ![n] = certs]
    /\ \E d \in Resolve(n, phase[n], eprops[n], certs, started[n], {}) : Decide(n, d, {})
    /\ UNCHANGED <<now, active, phase, elected, eprops, started, periodic, electionMsgs>>

\* The rest of try_resolve_leader_election, and the broadcast of the certificate
\* its caller got.
Conclude(n) ==
    /\ main[n] # AtRest
    /\ main' = [main EXCEPT ![n] = AtRest]
    /\ certMsgs' = certMsgs \cup main[n].answer
    /\ \/ /\ main[n].todo = "elect"
          /\ phase' = [phase EXCEPT ![n] = "elected"]
          /\ elected' = [elected EXCEPT ![n] = main[n].election]
          /\ UNCHANGED <<eprops, ecerts, started>>
       \/ main[n].todo = "reset" /\ Reset(n)
    /\ UNCHANGED <<now, active, periodic, electionMsgs>>

Todos == [todo : {"rest", "initiate", "create", "elect", "reset"},
          election : Elections \cup {None}, answer : SUBSET Certificates]

\* The types of the election's tables.
ElectionTypes ==
    /\ now \in Times
    /\ active \in [Masternode -> MinMasternodes..Cardinality(Masternode)]
    /\ phase \in [Masternode -> {"idle", "collecting", "elected", "creating"}]
    /\ elected \in [Masternode -> Elections \cup {None}]
    /\ \A n \in Masternode : phase[n] \in {"elected", "creating"} => elected[n] \in Elections
    /\ eprops \in [Masternode -> SUBSET Elections]
    /\ ecerts \in [Masternode -> SUBSET Certificates]
    /\ started \in [Masternode -> Times \cup {None}]
    /\ periodic \in [Masternode -> Todos]
    /\ main \in [Masternode -> Todos]
    /\ electionMsgs \subseteq Elections
    /\ certMsgs \subseteq Certificates
=============================================================================
