----------------------- MODULE LeaderElection_proofs -----------------------
(***************************************************************************)
(* Proofs about the leader election, for every set of masternodes, every   *)
(* clock and every bound.  The steps are those of GroupConsensus: the      *)
(* election runs interleaved with the approval of the groups.              *)
(***************************************************************************)
EXTENDS GroupConsensus, FiniteSetTheorems, TLAPS

\* The number of masternodes is a natural number.
LEMMA TotalType == Cardinality(Masternode) \in Nat
  BY ElectionAssumption, FS_CardinalityType

\* The epoch of a time within the bound is within the bound.
LEMMA EpochType == ASSUME NEW t \in Times PROVE EpochOf(t) \in Epochs
<1>1. EpochLength \in Nat \ {0} /\ MaxTime \in Nat /\ t \in Nat /\ t <= MaxTime
  BY ElectionAssumption DEF Times
<1> DEFINE p == t \div EpochLength
           q == MaxTime \div EpochLength
<1>2. p \in Int /\ q \in Int /\ 0 <= p
  BY <1>1
<1>3. EpochLength * p <= t /\ MaxTime < EpochLength * (q + 1)
  BY <1>1, Z3T(30)
<1>4. p <= q
  <2> HIDE DEF p, q
  <2> QED
  BY <1>1, <1>2, <1>3, Z3T(30)
<1> QED
  BY <1>1, <1>2, <1>4 DEF EpochOf, Epochs

\* update_active_masternodes_count stays between the minimum and the total.
LEMMA CountType ==
    ASSUME NEW k \in Nat
    PROVE  ActiveCount(k) \in MinMasternodes..Cardinality(Masternode)
  BY TotalType, ElectionAssumption DEF ActiveCount

\* calculate_dynamic_quorum is at least min_masternodes.
LEMMA RequiredBound ==
    ASSUME NEW n \in Masternode, active \in [Masternode -> MinMasternodes..Cardinality(Masternode)]
    PROVE  Required(n) \in Nat /\ Required(n) >= MinMasternodes
<1> DEFINE a == active[n]
<1>1. a \in Nat
  BY TotalType, ElectionAssumption
<1>2. (67 * a + 99) \div 100 \in Nat
  <2> HIDE DEF a
  <2> QED
  BY <1>1
<1> QED
  BY <1>2, ElectionAssumption DEF Required

\* What try_resolve_leader_election may leave to write.
LEMMA ResolveIs ==
    ASSUME NEW n, NEW ph, NEW ps, NEW cs, NEW start, NEW answer,
           NEW d \in Resolve(n, ph, ps, cs, start, answer)
    PROVE  \/ d = AtRest
           \/ d = [todo |-> "reset", election |-> None, answer |-> answer]
           \/ \E e \in Winners(n, ps, cs) : d = [todo |-> "elect", election |-> e, answer |-> answer]
  BY DEF Resolve

\* A task at rest has nothing to write and nothing to broadcast.
LEMMA RestFacts == AtRest \in Todos /\ AtRest.todo = "rest" /\ AtRest.answer = {}
  BY DEF AtRest, Todos

\* What a decision of try_resolve_leader_election carries.
LEMMA DecisionFacts ==
    ASSUME NEW W \in SUBSET Elections, NEW answer \in SUBSET Certificates, NEW d,
           \/ d = AtRest
           \/ d = [todo |-> "reset", election |-> None, answer |-> answer]
           \/ \E e \in W : d = [todo |-> "elect", election |-> e, answer |-> answer]
    PROVE  /\ d \in Todos /\ d.todo # "create"
           /\ d.answer = IF d = AtRest THEN {} ELSE answer
           /\ d.todo = "elect" => d.election \in W
<1>1. CASE d = AtRest
  BY <1>1, RestFacts
<1>2. CASE d = [todo |-> "reset", election |-> None, answer |-> answer]
  BY <1>2 DEF Todos, AtRest
<1>3. ASSUME NEW e \in W, d = [todo |-> "elect", election |-> e, answer |-> answer]
      PROVE  /\ d \in Todos /\ d.todo # "create"
             /\ d.answer = IF d = AtRest THEN {} ELSE answer
             /\ d.todo = "elect" => d.election \in W
  BY <1>3 DEF Todos, AtRest
<1> QED
  BY <1>1, <1>2, <1>3

-----------------------------------------------------------------------------
(* The bounds.                                                              *)

InBounds == budget \in Bounds

\* The bounds keep their type, so that the masternodes that take steps are some
\* of the masternodes.
LEMMA BoundsHold == Spec => []InBounds
<1>1. Init => InBounds
  BY ApprovalAssumption DEF Init, GroupInit, InBounds
<1>2. ASSUME InBounds, [Next]_vars PROVE InBounds'
  <2> USE DEF InBounds
  <2>1. CASE budget' = budget
    BY <2>1, <1>2
  <2>2. ASSUME NEW n \in Masternode, budget.forms[n] > 0, budget' = [budget EXCEPT !.forms[n] = @ - 1]
        PROVE  InBounds'
    BY <2>2, <1>2 DEF Bounds
  <2>4. ASSUME NEW n \in Masternode, budget.restarts[n] > 0, budget' = [budget EXCEPT !.restarts[n] = @ - 1]
        PROVE  InBounds'
    BY <2>4, <1>2 DEF Bounds
  <2>5. ASSUME budget.clock > 0, budget' = [budget EXCEPT !.clock = @ - 1]
        PROVE  InBounds'
    BY <2>5, <1>2 DEF Bounds
  <2>6. budget.up \subseteq Masternode
    BY <1>2, Zenon DEF Bounds
  <2>7. ASSUME NEW n \in Masternode, PeriodicStep(n) PROVE InBounds'
    BY <2>7, <2>1, <2>2, Zenon DEF PeriodicStep, TickCoordinator, TickReads, TickCreating, TickIdles, Tick,
       LeaderCreates, FormationTask, Rebroadcast
  <2>8. ASSUME NEW n \in Masternode, NetworkStep(n) PROVE InBounds'
    BY <2>8, <2>1 DEF NetworkStep, RejectProposal, VoteOnProposal, ProcessVote, AddGroups
  <2>9. ASSUME NEW n \in Masternode, MainStep(n) PROVE InBounds'
    BY <2>9, <2>1 DEF MainStep, ProcessApproval, AnswerSync, ProcessSync
  <2>10. CASE Next
    BY <2>10, <2>1, <2>4, <2>5, <2>6, <2>7, <2>8, <2>9 DEF Next, ElectionStep, Restart, AdvanceClock
  <2>11. CASE UNCHANGED vars
    BY <2>11, <2>1 DEF vars
  <2> QED
    BY <1>2, <2>10, <2>11
<1> QED
  BY <1>1, <1>2, PTL DEF Spec

-----------------------------------------------------------------------------
(* The election.                                                            *)

\* The masternodes that certified e in the messages msgs, its proposer among them.
CertifiersIn(msgs, e) == {e.by} \cup {c.approver : c \in CertsOn(msgs, e)}
Quorate(msgs, e) == Cardinality(CertifiersIn(msgs, e)) >= MinMasternodes

\* Certificates that travel are those of others than the proposer.
Foreign(msgs) == \A c \in msgs : c.approver # c.election.by

OneEach(certs) ==
    \A c, d \in certs : c.election = d.election /\ c.approver = d.approver => c = d

\* A certificate is the proposer's own or one that is or will be broadcast.
Traced(certs, msgs) ==
    \A c \in certs : IF c.approver = c.election.by THEN c.at = c.election.at ELSE c \in msgs

\* What makes ElectedByQuorum inductive: a leader is backed by a quorum from the
\* moment a task decides on it, and the certificates a masternode counts are one
\* per approver and known to the network.
Backed(m) ==
    /\ phase[m] \in {"elected", "creating"} => elected[m] \in Elections /\ Quorate(certMsgs, elected[m])
    /\ periodic[m].todo = "create" =>
          periodic[m].election \in Elections /\ Quorate(certMsgs, periodic[m].election)
    /\ main[m].todo = "elect" =>
          /\ main[m].election \in Elections
          /\ Quorate(certMsgs \cup main[m].answer, main[m].election)
    /\ OneEach(ecerts[m])
    /\ Traced(ecerts[m], certMsgs \cup main[m].answer)
    /\ Foreign(main[m].answer)

ElectionInv ==
    /\ ElectionTypes
    /\ Foreign(certMsgs)
    /\ \A m \in Masternode : Backed(m)

\* A quorum stays one when more certificates are broadcast.
LEMMA QuorateGrows ==
    ASSUME NEW more \in SUBSET Certificates, NEW msgs \in SUBSET more, NEW e \in Elections,
           Quorate(msgs, e)
    PROVE  Quorate(more, e)
<1>1. CertifiersIn(more, e) \subseteq Masternode
  BY DEF CertifiersIn, CertsOn, Certificates, Elections
<1>2. IsFiniteSet(CertifiersIn(more, e))
  BY <1>1, FS_Subset, ElectionAssumption
<1>3. CertifiersIn(msgs, e) \subseteq CertifiersIn(more, e)
  BY DEF CertifiersIn, CertsOn
<1>4. /\ IsFiniteSet(CertifiersIn(msgs, e))
      /\ Cardinality(CertifiersIn(msgs, e)) <= Cardinality(CertifiersIn(more, e))
  BY <1>2, <1>3, FS_Subset
<1>5. Cardinality(CertifiersIn(msgs, e)) \in Nat /\ Cardinality(CertifiersIn(more, e)) \in Nat
  BY <1>2, <1>4, FS_CardinalityType
<1> QED
  BY <1>4, <1>5, ElectionAssumption DEF Quorate

\* An election that try_resolve_leader_election picks is backed by a quorum.
LEMMA WinnersAreQuorate ==
    ASSUME ElectionTypes, NEW n \in Masternode,
           NEW ps \in SUBSET Elections, NEW cs \in SUBSET Certificates,
           NEW msgs \in SUBSET Certificates,
           OneEach(cs), Traced(cs, msgs), NEW e \in Winners(n, ps, cs)
    PROVE  e \in Elections /\ Quorate(msgs, e)
<1> DEFINE S == CertsOn(cs, e)
           T == CertifiersIn(msgs, e)
           f == [c \in S |-> c.approver]
<1>1. e \in Elections /\ Cardinality(S) >= Required(n)
  BY DEF Winners, Eligible
<1>2. T \subseteq Masternode
  BY <1>1 DEF CertifiersIn, CertsOn, Certificates, Elections
<1>3. IsFiniteSet(T)
  BY <1>2, FS_Subset, ElectionAssumption
<1>4. \A c \in S : c.approver \in T
  BY DEF CertsOn, Traced, CertifiersIn
<1>5. f \in Injection(S, T)
  <2>1. f \in [S -> T]
    BY <1>4
  <2>2. \A c, d \in S : f[c] = f[d] => c = d
    BY DEF OneEach, CertsOn
  <2> QED
    BY <2>1, <2>2 DEF Injection, IsInjective
<1>6. IsFiniteSet(S) /\ Cardinality(S) <= Cardinality(T)
  BY <1>3, <1>5, FS_Injection
<1>7. Cardinality(S) \in Nat /\ Cardinality(T) \in Nat
  BY <1>3, <1>6, FS_CardinalityType
<1>8. Required(n) \in Nat /\ Required(n) >= MinMasternodes
  BY RequiredBound, Zenon DEF ElectionTypes
<1> QED
  BY <1>1, <1>6, <1>7, <1>8, ElectionAssumption DEF Quorate
\* A masternode whose own state stays keeps its backing while others broadcast.
LEMMA OthersKeep ==
    ASSUME ElectionTypes, ElectionTypes', certMsgs \subseteq certMsgs',
           NEW m \in Masternode, Backed(m),
           phase'[m] = phase[m], elected'[m] = elected[m], ecerts'[m] = ecerts[m],
           periodic'[m] = periodic[m], main'[m] = main[m]
    PROVE  Backed(m)'
<1>1. certMsgs' \subseteq Certificates /\ main[m].answer \subseteq Certificates
  BY Zenon DEF ElectionTypes, Todos
<1>2. ASSUME NEW e \in Elections, Quorate(certMsgs, e) PROVE Quorate(certMsgs', e)
  BY <1>1, <1>2, QuorateGrows, Zenon
<1>3. ASSUME NEW e \in Elections, Quorate(certMsgs \cup main[m].answer, e)
      PROVE  Quorate(certMsgs' \cup main[m].answer, e)
  <2>1. certMsgs \cup main[m].answer \subseteq certMsgs' \cup main[m].answer
    BY Zenon
  <2>2. certMsgs' \cup main[m].answer \subseteq Certificates
    BY <1>1, SMTT(60)
  <2> QED
    BY <1>3, <2>1, <2>2, QuorateGrows, Zenon
<1>4. Traced(ecerts[m], certMsgs' \cup main[m].answer)
  BY DEF Backed, Traced
<1> QED
  BY <1>2, <1>3, <1>4, Zenon DEF Backed

\* reset_leader_election leaves nothing that would need a backing.
LEMMA ResetKeeps ==
    ASSUME ElectionInv, NEW n \in Masternode, Reset(n),
           UNCHANGED <<now, active, periodic, main, electionMsgs, certMsgs>>
    PROVE  ElectionInv'
<1>1. ElectionTypes'
  BY DEF ElectionInv, ElectionTypes, Reset
<1>2. Foreign(certMsgs)'
  BY SMTT(60) DEF ElectionInv
<1>3. Backed(n)'
  BY Zenon DEF ElectionInv, ElectionTypes, Backed, Reset, OneEach, Traced
<1>4. ASSUME NEW m \in Masternode, m # n PROVE Backed(m)'
  BY <1>1, <1>4, OthersKeep, SMTT(60) DEF ElectionInv, ElectionTypes, Reset
<1> QED
  BY <1>1, <1>2, <1>3, <1>4, SMTT(60) DEF ElectionInv

\* initiate_leader_election adds the proposer's own certificate.
LEMMA InitiateKeeps ==
    ASSUME ElectionInv, NEW n \in Masternode, Initiate(n)
    PROVE  ElectionInv'
<1> DEFINE e == [by |-> n, at |-> now]
           own == [election |-> e, approver |-> n, at |-> now]
<1>1. e \in Elections /\ own \in Certificates
  BY Zenon DEF ElectionInv, ElectionTypes, Elections, Certificates
<1>2. ElectionTypes'
  <2>1. AtRest \in Todos
    BY RestFacts, Zenon
  <2> HIDE DEF e, own
  <2>2. /\ eprops' \in [Masternode -> SUBSET Elections]
        /\ ecerts' \in [Masternode -> SUBSET Certificates]
        /\ electionMsgs' \subseteq Elections
    BY <1>1, SMTT(60) DEF Initiate, ElectionInv, ElectionTypes, e, own
  <2> QED
    BY <2>1, <2>2, ZenonT(60) DEF Initiate, ElectionInv, ElectionTypes
<1>3. Foreign(certMsgs)'
  BY Zenon DEF ElectionInv, Initiate
<1>4. Backed(n)'
  <2>1. ecerts'[n] = ecerts[n] \cup {own} /\ main' = main /\ certMsgs' = certMsgs
    BY DEF Initiate, ElectionInv, ElectionTypes
  <2>2. Backed(n)
    BY SMTT(60) DEF ElectionInv
  <2>3. ASSUME NEW c \in ecerts[n], c.election = e, c.approver = n PROVE c = own
    <3>1. c.at = now
      BY <2>2, <2>3 DEF Backed, Traced
    <3>2. c \in Certificates
      BY Zenon DEF ElectionInv, ElectionTypes
    <3> QED
      BY <3>1, <3>2, <2>3, Zenon DEF Certificates
  <2>4. OneEach(ecerts[n] \cup {own})
    <3>1. own.election = e /\ own.approver = n
      BY Zenon
    <3> HIDE DEF own, e
    <3> QED
      BY <2>2, <2>3, <3>1 DEF Backed, OneEach
  <2>5. Traced(ecerts[n] \cup {own}, certMsgs \cup main[n].answer)
    <3>1. own.approver = own.election.by /\ own.at = own.election.at
      OBVIOUS
    <3> HIDE DEF own, e
    <3> QED
      BY <2>2, <3>1, Zenon DEF Backed, Traced
  <2>6. phase'[n] = "collecting" /\ periodic'[n].todo = "rest"
    BY Zenon DEF Initiate, ElectionInv, ElectionTypes, AtRest
  <2> HIDE DEF own, e
  <2> QED
    BY <2>1, <2>2, <2>4, <2>5, <2>6, Zenon DEF Backed
<1>5. ASSUME NEW m \in Masternode, m # n PROVE Backed(m)'
  <2>1. /\ phase'[m] = phase[m] /\ elected'[m] = elected[m] /\ ecerts'[m] = ecerts[m]
        /\ periodic'[m] = periodic[m] /\ main'[m] = main[m] /\ certMsgs' = certMsgs
    BY <1>5, Zenon DEF ElectionInv, ElectionTypes, Initiate
  <2> QED
    BY <1>2, <2>1, OthersKeep, Zenon DEF ElectionInv
<1> QED
  BY <1>2, <1>3, <1>4, <1>5, Zenon DEF ElectionInv
\* A certificate enters a list once per approver.
LEMMA ApproveFacts ==
    ASSUME NEW cs \in SUBSET Certificates, NEW msgs, NEW c \in Certificates,
           OneEach(cs), Traced(cs, msgs), c.approver # c.election.by
    PROVE  /\ Approve(cs, c) \in SUBSET Certificates
           /\ OneEach(Approve(cs, c))
           /\ Traced(Approve(cs, c), msgs \cup {c})
<1>1. CASE \E d \in CertsOn(cs, c.election) : d.approver = c.approver
  BY <1>1 DEF Approve, Traced
<1>2. CASE ~\E d \in CertsOn(cs, c.election) : d.approver = c.approver
  <2>1. Approve(cs, c) = cs \cup {c}
    BY <1>2 DEF Approve
  <2>2. OneEach(cs \cup {c})
    BY <1>2 DEF OneEach, CertsOn
  <2>3. Traced(cs \cup {c}, msgs \cup {c})
    BY Zenon DEF Traced
  <2> QED
    BY <2>1, <2>2, <2>3
<1> QED
  BY <1>1, <1>2, SMTT(60)

\* The main task that takes ps, cs and start into its tables and decides d over
\* them, with the certificates of answer to broadcast, keeps the invariant.
LEMMA DecideKeeps ==
    ASSUME ElectionInv, NEW n \in Masternode, main[n] = AtRest,
           NEW ps \in SUBSET Elections, NEW cs \in SUBSET Certificates,
           NEW ph, ph = "collecting" \/ ph = phase[n], NEW start \in Times \cup {None},
           NEW answer \in SUBSET Certificates, Foreign(answer),
           OneEach(cs), Traced(cs, certMsgs \cup answer),
           NEW d,
           \/ d = AtRest
           \/ d = [todo |-> "reset", election |-> None, answer |-> answer]
           \/ \E e \in Winners(n, ps, cs) : d = [todo |-> "elect", election |-> e, answer |-> answer],
           main' = [main EXCEPT ![n] = d],
           certMsgs' = IF d = AtRest THEN certMsgs \cup answer ELSE certMsgs,
           eprops' = [eprops EXCEPT ![n] = ps], ecerts' = [ecerts EXCEPT ![n] = cs],
           phase' = [phase EXCEPT ![n] = ph], started' = [started EXCEPT ![n] = start],
           UNCHANGED <<now, active, elected, periodic, electionMsgs>>
    PROVE  ElectionInv'
<1>1. certMsgs \subseteq Certificates /\ certMsgs \cup answer \in SUBSET Certificates
  BY DEF ElectionInv, ElectionTypes
<1>2. ASSUME NEW e \in Winners(n, ps, cs) PROVE e \in Elections /\ Quorate(certMsgs \cup answer, e)
  BY <1>1, WinnersAreQuorate, Zenon DEF ElectionInv
<1>3. /\ d \in Todos /\ d.todo # "create"
      /\ d.answer = IF d = AtRest THEN {} ELSE answer
      /\ d.todo = "elect" => d.election \in Winners(n, ps, cs)
  <2>1. Winners(n, ps, cs) \in SUBSET Elections
    BY <1>2, Zenon
  <2> QED
    BY <2>1, DecisionFacts, Zenon
<1>4. certMsgs' \cup d.answer = certMsgs \cup answer
  BY <1>3, ZenonT(60)
<1>5. ElectionTypes'
  <2>1. main' \in [Masternode -> Todos]
    BY <1>3, Zenon DEF ElectionInv, ElectionTypes
  <2>2. ph \in {"idle", "collecting", "elected", "creating"}
    BY ZenonT(60) DEF ElectionInv, ElectionTypes
  <2>3. \A m \in Masternode : phase'[m] \in {"elected", "creating"} => elected'[m] \in Elections
    BY SMTT(60) DEF ElectionInv, ElectionTypes
  <2>4. certMsgs' \subseteq Certificates
    BY <1>1, Zenon
  <2> QED
    BY <2>1, <2>2, <2>3, <2>4 DEF ElectionInv, ElectionTypes
<1>6. Foreign(certMsgs)'
  BY Zenon DEF ElectionInv, Foreign
<1>7. certMsgs \subseteq certMsgs'
  BY ZenonT(60)
<1>8. Backed(n)'
  <2>1. Backed(n)
    BY Zenon DEF ElectionInv
  <2>2. ecerts'[n] = cs /\ main'[n] = d /\ phase'[n] = ph /\ elected'[n] = elected[n] /\ periodic'[n] = periodic[n]
    BY Zenon DEF ElectionInv, ElectionTypes
  <2>3. ASSUME NEW e \in Elections, Quorate(certMsgs, e) PROVE Quorate(certMsgs', e)
    BY <1>5, <1>7, <2>3, QuorateGrows DEF ElectionTypes
  <2>4. phase'[n] \in {"elected", "creating"} => elected'[n] \in Elections /\ Quorate(certMsgs', elected'[n])
    BY <2>1, <2>2, <2>3, ZenonT(60) DEF Backed
  <2>5. periodic'[n].todo = "create" =>
          periodic'[n].election \in Elections /\ Quorate(certMsgs', periodic'[n].election)
    BY <2>1, <2>2, <2>3, Zenon DEF Backed
  <2>6. d.todo = "elect" => d.election \in Elections /\ Quorate(certMsgs \cup answer, d.election)
    BY <1>2, <1>3, ZenonT(60)
  <2>7. Foreign(d.answer)
    BY <1>3, Zenon DEF Foreign
  <2> QED
    BY <1>4, <2>2, <2>4, <2>5, <2>6, <2>7, ZenonT(60) DEF Backed
<1>9. ASSUME NEW m \in Masternode, m # n PROVE Backed(m)'
  <2>1. /\ phase'[m] = phase[m] /\ elected'[m] = elected[m] /\ ecerts'[m] = ecerts[m]
        /\ periodic'[m] = periodic[m] /\ main'[m] = main[m]
    BY <1>9, Zenon DEF ElectionInv, ElectionTypes
  <2> QED
    BY <1>5, <1>7, <2>1, OthersKeep, Zenon DEF ElectionInv
<1> QED
  BY <1>5, <1>6, <1>8, <1>9, ZenonT(60) DEF ElectionInv

\* process_leader_election_proposal keeps the invariant.
LEMMA ProcessElectionKeeps ==
    ASSUME ElectionInv, NEW n \in Masternode, NEW e, NEW overlap \in BOOLEAN,
           ProcessElection(n, e, overlap)
    PROVE  ElectionInv'
<1> DEFINE c == [election |-> e, approver |-> n, at |-> now]
           ps == eprops[n] \cup {e}
           ph == IF phase[n] = "idle" THEN "collecting" ELSE phase[n]
           start == IF phase[n] = "idle" THEN now ELSE started[n]
           cs == IF overlap THEN Approve(ecerts[n], c) ELSE ecerts[n]
<1>1. e \in Elections /\ e.by # n /\ c \in Certificates
  BY DEF ProcessElection, ElectionInv, ElectionTypes, Certificates
<1>2. /\ main[n] = AtRest /\ main[n].answer = {} /\ ecerts[n] \in SUBSET Certificates
      /\ ps \in SUBSET Elections /\ start \in Times \cup {None}
      /\ Backed(n) /\ main \in [Masternode -> Todos]
  <2>1. main[n] = AtRest
    BY Zenon DEF ProcessElection
  <2> QED
    BY <1>1, <2>1, RestFacts, Zenon DEF ElectionInv, ElectionTypes
<1>3. c.approver # c.election.by /\ Foreign({c})
  <2>1. c.approver = n /\ c.election = e
    OBVIOUS
  <2> HIDE DEF c
  <2> QED
    BY <1>1, <2>1, Zenon DEF Foreign
<1>4. OneEach(ecerts[n]) /\ Traced(ecerts[n], certMsgs)
  BY <1>2, Zenon DEF Backed
<1>5. /\ eprops' = [eprops EXCEPT ![n] = ps] /\ ecerts' = [ecerts EXCEPT ![n] = cs]
      /\ phase' = [phase EXCEPT ![n] = ph] /\ started' = [started EXCEPT ![n] = start]
      /\ UNCHANGED <<now, active, elected, periodic, electionMsgs>>
  BY DEF ProcessElection
<1>6. ph = "collecting" \/ ph = phase[n]
  OBVIOUS
<1>7. CASE overlap
  <2>1. PICK d \in Resolve(n, ph, ps, cs, start, {c}) : Decide(n, d, {c})
    BY <1>7, Zenon DEF ProcessElection
  <2> HIDE DEF c, ps, ph, start
  <2>2. cs \in SUBSET Certificates /\ OneEach(cs) /\ Traced(cs, certMsgs \cup {c})
    BY <1>1, <1>2, <1>3, <1>4, <1>7, ApproveFacts, ZenonT(60)
  <2> HIDE DEF cs
  <2>3. \/ d = AtRest
        \/ d = [todo |-> "reset", election |-> None, answer |-> {c}]
        \/ \E w \in Winners(n, ps, cs) : d = [todo |-> "elect", election |-> w, answer |-> {c}]
    BY <2>1, ResolveIs
  <2>4. /\ main' = [main EXCEPT ![n] = d]
        /\ certMsgs' = IF d = AtRest THEN certMsgs \cup {c} ELSE certMsgs
    BY <2>1, SMTT(60) DEF Decide
  <2>5. {c} \in SUBSET Certificates
    BY <1>1
  <2> QED
    BY <1>2, <1>3, <1>5, <1>6, <2>2, <2>3, <2>4, <2>5, DecideKeeps, ZenonT(60)
<1>8. CASE ~overlap
  <2>1. main' = main /\ certMsgs' = certMsgs
    BY <1>8, Zenon DEF ProcessElection
  <2>2. main' = [main EXCEPT ![n] = AtRest]
    BY <1>2, <2>1
  <2>3. certMsgs' = IF AtRest = AtRest THEN certMsgs \cup {} ELSE certMsgs
    BY <2>1, SMTT(60)
  <2>4. cs = ecerts[n]
    BY <1>8, Zenon
  <2> HIDE DEF c, ps, ph, start, cs
  <2>5. cs \in SUBSET Certificates /\ OneEach(cs) /\ Traced(cs, certMsgs \cup {})
    BY <1>2, <1>4, <2>4, Zenon
  <2>6. Foreign({}) /\ {} \in SUBSET Certificates
    BY DEF Foreign
  <2> DEFINE d == AtRest
  <2>7. d = AtRest
    BY SMTT(60)
  <2> HIDE DEF d
  <2>8. /\ main' = [main EXCEPT ![n] = d]
        /\ certMsgs' = IF d = AtRest THEN certMsgs \cup {} ELSE certMsgs
    BY <2>2, <2>3, <2>7
  <2> QED
    BY <1>2, <1>5, <1>6, <2>5, <2>6, <2>7, <2>8, DecideKeeps, Zenon
<1> QED
  BY <1>7, <1>8, Zenon

\* process_leader_election_certificate keeps the invariant.
LEMMA ProcessCertificateKeeps ==
    ASSUME ElectionInv, NEW n \in Masternode, NEW c, ProcessCertificate(n, c)
    PROVE  ElectionInv'
<1> DEFINE cs == Approve(ecerts[n], c)
<1>1. c \in Certificates /\ c \in certMsgs /\ c.approver # c.election.by
  BY Zenon DEF ProcessCertificate, ElectionInv, ElectionTypes, Foreign
<1>2. /\ main[n] = AtRest /\ main[n].answer = {} /\ ecerts[n] \in SUBSET Certificates
      /\ eprops[n] \in SUBSET Elections /\ started[n] \in Times \cup {None}
      /\ Backed(n) /\ main \in [Masternode -> Todos]
  <2>1. main[n] = AtRest
    BY Zenon DEF ProcessCertificate
  <2> QED
    BY <2>1, RestFacts, Zenon DEF ElectionInv, ElectionTypes
<1>3. OneEach(ecerts[n]) /\ Traced(ecerts[n], certMsgs)
  BY <1>2, ZenonT(60) DEF Backed
<1>4. PICK d \in Resolve(n, phase[n], eprops[n], cs, started[n], {}) : Decide(n, d, {})
  BY Zenon DEF ProcessCertificate
<1>5. cs \in SUBSET Certificates /\ OneEach(cs) /\ Traced(cs, certMsgs \cup {c})
  BY <1>1, <1>2, <1>3, ApproveFacts, Zenon
<1>6. Traced(cs, certMsgs \cup {})
  <2>1. certMsgs \cup {c} = certMsgs \cup {}
    BY <1>1
  <2> QED
    BY <1>5, <2>1, ZenonT(60)
<1>7. ecerts' = [ecerts EXCEPT ![n] = cs]
  BY Zenon DEF ProcessCertificate
<1> HIDE DEF cs
<1>8. \/ d = AtRest
      \/ d = [todo |-> "reset", election |-> None, answer |-> {}]
      \/ \E w \in Winners(n, eprops[n], cs) : d = [todo |-> "elect", election |-> w, answer |-> {}]
  BY <1>4, ResolveIs, SMTT(60)
<1>9. /\ main' = [main EXCEPT ![n] = d]
      /\ certMsgs' = IF d = AtRest THEN certMsgs \cup {} ELSE certMsgs
  BY <1>4, Zenon DEF Decide
<1>10. /\ eprops' = [eprops EXCEPT ![n] = eprops[n]] /\ phase' = [phase EXCEPT ![n] = phase[n]]
       /\ started' = [started EXCEPT ![n] = started[n]]
       /\ UNCHANGED <<now, active, elected, periodic, electionMsgs>>
  BY SMTT(60) DEF ProcessCertificate, ElectionInv, ElectionTypes
<1>11. Foreign({}) /\ {} \in SUBSET Certificates
  BY Zenon DEF Foreign
<1> QED
  BY <1>2, <1>5, <1>6, <1>7, <1>8, <1>9, <1>10, <1>11, DecideKeeps, Zenon
\* The rest of try_resolve_leader_election keeps the invariant: the quorum was
\* checked over certificates that are broadcast by now.
LEMMA ConcludeKeeps ==
    ASSUME ElectionInv, NEW n \in Masternode, Conclude(n)
    PROVE  ElectionInv'
<1>1. Backed(n) /\ main[n] \in Todos
  BY Zenon DEF ElectionInv, ElectionTypes
<1>2. certMsgs' = certMsgs \cup main[n].answer /\ main' = [main EXCEPT ![n] = AtRest] /\ periodic' = periodic
  BY DEF Conclude
<1>3. main'[n].todo = "rest" /\ main'[n].answer = {} /\ AtRest \in Todos
  BY <1>2, Zenon DEF ElectionInv, ElectionTypes, AtRest, Todos
<1>4. certMsgs' \subseteq Certificates /\ certMsgs \subseteq certMsgs' /\ Foreign(certMsgs')
  BY <1>1, <1>2, Zenon DEF ElectionInv, ElectionTypes, Todos, Backed, Foreign
<1>5. ASSUME NEW e \in Elections, Quorate(certMsgs, e) PROVE Quorate(certMsgs', e)
  BY <1>4, <1>5, QuorateGrows
<1>6. main' \in [Masternode -> Todos]
  BY <1>2, <1>3, Zenon DEF ElectionInv, ElectionTypes
<1>7. CASE main[n].todo = "elect" /\ phase' = [phase EXCEPT ![n] = "elected"]
           /\ elected' = [elected EXCEPT ![n] = main[n].election] /\ UNCHANGED <<eprops, ecerts, started>>
  <2>1. main[n].election \in Elections /\ Quorate(certMsgs', main[n].election)
    BY <1>1, <1>2, <1>7, Zenon DEF Backed
  <2>2. ElectionTypes'
    <3>1. elected' \in [Masternode -> Elections \cup {None}]
      BY <1>7, <2>1, Zenon DEF ElectionInv, ElectionTypes
    <3>2. \A m \in Masternode : phase'[m] \in {"elected", "creating"} => elected'[m] \in Elections
      BY <1>7, <2>1 DEF ElectionInv, ElectionTypes
    <3> QED
      BY <1>4, <1>6, <1>7, <3>1, <3>2, Zenon DEF ElectionInv, ElectionTypes, Conclude
  <2>3. Backed(n)'
    <3>1. elected'[n] = main[n].election /\ periodic'[n] = periodic[n] /\ ecerts'[n] = ecerts[n]
      BY <1>2, <1>7, Zenon DEF ElectionInv, ElectionTypes
    <3>2. Traced(ecerts[n], certMsgs' \cup {})
      BY <1>1, <1>2, Zenon DEF Backed, Traced
    <3>3. Foreign({})
      BY SMTT(60) DEF Foreign
    <3> QED
      BY <1>1, <1>3, <1>5, <2>1, <3>1, <3>2, <3>3, Zenon DEF Backed
  <2>4. ASSUME NEW m \in Masternode, m # n PROVE Backed(m)'
    <3>1. /\ phase'[m] = phase[m] /\ elected'[m] = elected[m] /\ ecerts'[m] = ecerts[m]
          /\ periodic'[m] = periodic[m] /\ main'[m] = main[m]
      BY <1>2, <1>7, <2>4, Zenon DEF ElectionInv, ElectionTypes
    <3> QED
      BY <1>4, <2>2, <3>1, OthersKeep, Zenon DEF ElectionInv
  <2> QED
    BY <1>4, <2>2, <2>3, <2>4 DEF ElectionInv
<1>8. CASE Reset(n)
  <2>1. ElectionTypes'
    BY <1>4, <1>6, <1>8, Zenon DEF ElectionInv, ElectionTypes, Reset, Conclude
  <2>2. Backed(n)'
    <3>1. phase'[n] = "idle" /\ ecerts'[n] = {} /\ periodic'[n] = periodic[n]
      BY <1>2, <1>8, ZenonT(60) DEF ElectionInv, ElectionTypes, Reset
    <3> QED
      BY <1>1, <1>3, <1>5, <3>1, Zenon DEF Backed, OneEach, Traced, Foreign
  <2>3. ASSUME NEW m \in Masternode, m # n PROVE Backed(m)'
    <3>1. /\ phase'[m] = phase[m] /\ elected'[m] = elected[m] /\ ecerts'[m] = ecerts[m]
          /\ periodic'[m] = periodic[m] /\ main'[m] = main[m]
      BY <1>2, <1>8, <2>3, Zenon DEF ElectionInv, ElectionTypes, Reset
    <3> QED
      BY <1>4, <2>1, <3>1, OthersKeep DEF ElectionInv
  <2> QED
    BY <1>4, <2>1, <2>2, <2>3 DEF ElectionInv
<1> QED
  BY <1>7, <1>8, Zenon DEF Conclude

\* A step of the periodic task that sets what it is about to write, or writes it,
\* keeps the invariant when it picks a leader that is backed already.
LEMMA PeriodicKeeps ==
    ASSUME ElectionInv, NEW n \in Masternode,
           active' \in [Masternode -> MinMasternodes..Cardinality(Masternode)],
           NEW todo \in Todos, periodic' = [periodic EXCEPT ![n] = todo],
           todo.todo = "create" => todo.election \in Elections /\ Quorate(certMsgs, todo.election),
           \/ UNCHANGED <<phase, elected>>
           \/ \E e \in Elections : /\ Quorate(certMsgs, e)
                                   /\ phase' = [phase EXCEPT ![n] = "creating"]
                                   /\ elected' = [elected EXCEPT ![n] = e],
           UNCHANGED <<now, eprops, ecerts, started, main, electionMsgs, certMsgs>>
    PROVE  ElectionInv'
<1>1. ElectionTypes'
  <2>1. periodic' \in [Masternode -> Todos]
    BY Zenon DEF ElectionInv, ElectionTypes
  <2>2. /\ phase' \in [Masternode -> {"idle", "collecting", "elected", "creating"}]
        /\ elected' \in [Masternode -> Elections \cup {None}]
        /\ \A m \in Masternode : phase'[m] \in {"elected", "creating"} => elected'[m] \in Elections
    BY SMTT(60) DEF ElectionInv, ElectionTypes
  <2> QED
    BY <2>1, <2>2, Zenon DEF ElectionInv, ElectionTypes
<1>2. Foreign(certMsgs)'
  BY DEF ElectionInv
<1>3. Backed(n)'
  <2>1. Backed(n)
    BY Zenon DEF ElectionInv
  <2>2. periodic'[n] = todo
    BY DEF ElectionInv, ElectionTypes
  <2>3. phase'[n] \in {"elected", "creating"} => elected'[n] \in Elections /\ Quorate(certMsgs, elected'[n])
    BY <2>1, Zenon DEF ElectionInv, ElectionTypes, Backed
  <2> QED
    BY <2>1, <2>2, <2>3, Zenon DEF Backed
<1>4. ASSUME NEW m \in Masternode, m # n PROVE Backed(m)'
  <2>1. phase'[m] = phase[m] /\ elected'[m] = elected[m] /\ periodic'[m] = periodic[m]
    BY <1>4, SMTT(60) DEF ElectionInv, ElectionTypes
  <2> QED
    BY <1>1, <2>1, OthersKeep, ZenonT(60) DEF ElectionInv
<1> QED
  BY <1>1, <1>2, <1>3, <1>4, Zenon DEF ElectionInv
\* The variables the invariant of the election is about.
electionState == <<now, active, electionVars, periodic, main, electionMsgs, certMsgs>>

\* No step of the periodic task breaks it.
LEMMA PeriodicStepKeeps ==
    ASSUME ElectionInv, NEW n \in Masternode, PeriodicStep(n)
    PROVE  ElectionInv'
<1>1. AtRest \in Todos /\ AtRest.todo = "rest"
  BY DEF AtRest, Todos
<1>2. CASE UNCHANGED electionState
  BY <1>2, Zenon DEF electionState, electionVars, ElectionInv, ElectionTypes, Backed
<1>3. ASSUME NEW connected \in Connections, UpdateActive(n, connected)
      PROVE  active' \in [Masternode -> MinMasternodes..Cardinality(Masternode)]
  <2>1. ActiveCount(connected) \in MinMasternodes..Cardinality(Masternode)
    BY CountType, ApprovalAssumption, SMTT(60)
  <2> QED
    BY <1>3, <2>1, SMTT(60) DEF UpdateActive, ElectionInv, ElectionTypes
<1>4. ASSUME NEW connected \in Connections, UpdateActive(n, connected),
             UNCHANGED <<now, electionVars, periodic, main, electionMsgs, certMsgs>>
      PROVE  ElectionInv'
  <2>1. periodic' = [periodic EXCEPT ![n] = AtRest]
    BY <1>4 DEF UpdateActive, ElectionInv, ElectionTypes
  <2> QED
    BY <1>1, <1>3, <1>4, <2>1, PeriodicKeeps, Zenon DEF electionVars
<1>5. ASSUME NEW connected \in Connections, TickReads(n, connected)
      PROVE  ElectionInv'
  <2>1. active' \in [Masternode -> MinMasternodes..Cardinality(Masternode)]
    BY <1>3, <1>5 DEF TickReads, Tick
  <2>2. UNCHANGED <<now, phase, elected, eprops, ecerts, started, main, electionMsgs, certMsgs>>
    BY <1>5, SMTT(60) DEF TickReads, electionVars
  <2>3. CASE periodic' = [periodic EXCEPT ![n].todo = "initiate"]
    <3> DEFINE todo == [AtRest EXCEPT !.todo = "initiate"]
    <3>1. periodic' = [periodic EXCEPT ![n] = todo]
      BY <1>5, <2>3 DEF TickReads, Tick, UpdateActive, ElectionInv, ElectionTypes
    <3>2. todo \in Todos /\ todo.todo = "initiate"
      BY <1>1 DEF Todos
    <3> HIDE DEF todo
    <3> QED
      BY <2>1, <2>2, <3>1, <3>2, PeriodicKeeps, Zenon
  <2>4. CASE /\ phase[n] = "elected"
             /\ periodic' = [periodic EXCEPT ![n] = [todo |-> "create", election |-> elected[n], answer |-> {}]]
    <3> DEFINE todo == [todo |-> "create", election |-> elected[n], answer |-> {}]
    <3>1. elected[n] \in Elections /\ Quorate(certMsgs, elected[n])
      BY <2>4, Zenon DEF ElectionInv, Backed
    <3>2. todo \in Todos /\ todo.election = elected[n]
      BY <3>1, Zenon DEF Todos
    <3>3. periodic' = [periodic EXCEPT ![n] = todo]
      BY <2>4, Zenon
    <3> HIDE DEF todo
    <3> QED
      BY <2>1, <2>2, <3>1, <3>2, <3>3, PeriodicKeeps, Zenon
  <2> QED
    BY <1>5, <2>3, <2>4 DEF TickReads
<1>6. CASE LeaderCreates(n)
  <2>1. periodic[n].election \in Elections /\ Quorate(certMsgs, periodic[n].election)
    BY <1>6, ZenonT(60) DEF LeaderCreates, ElectionInv, Backed
  <2>2. active' \in [Masternode -> MinMasternodes..Cardinality(Masternode)]
    BY <1>6, Zenon DEF LeaderCreates, ElectionInv, ElectionTypes
  <2>3. /\ phase' = [phase EXCEPT ![n] = "creating"]
        /\ elected' = [elected EXCEPT ![n] = periodic[n].election]
        /\ periodic' = [periodic EXCEPT ![n] = AtRest]
        /\ UNCHANGED <<now, eprops, ecerts, started, main, electionMsgs, certMsgs>>
    BY <1>6 DEF LeaderCreates
  <2> QED
    BY <1>1, <2>1, <2>2, <2>3, PeriodicKeeps, Zenon
<1>7. CASE FormationTask(n) \/ \E e \in Epochs : Rebroadcast(n, e)
  BY <1>2, <1>7, SMTT(60) DEF FormationTask, Rebroadcast, electionState
<1>8. ASSUME NEW connected \in Connections,
             TickCoordinator(n, connected) \/ TickCreating(n, connected) \/ TickIdles(n, connected)
      PROVE  ElectionInv'
  BY <1>4, <1>8, Zenon DEF TickCoordinator, TickCreating, TickIdles, Tick
<1> QED
  BY <1>5, <1>6, <1>7, <1>8, Zenon DEF PeriodicStep

\* A restart forgets the election.
LEMMA RestartKeeps ==
    ASSUME ElectionInv, NEW n \in Masternode, Restart(n)
    PROVE  ElectionInv'
<1>1. AtRest \in Todos /\ AtRest.todo = "rest" /\ AtRest.answer = {}
  BY RestFacts, Zenon
<1>2. Cardinality(Masternode) \in MinMasternodes..Cardinality(Masternode)
  BY TotalType, ElectionAssumption, SMTT(60)
<1>3. ElectionTypes'
  BY <1>1, <1>2 DEF ElectionInv, ElectionTypes, Restart, Reset
<1>4. Foreign(certMsgs)'
  BY DEF ElectionInv, Restart
<1>5. Backed(n)'
  <2>1. phase'[n] = "idle" /\ ecerts'[n] = {} /\ periodic'[n] = AtRest /\ main'[n] = AtRest
    BY SMTT(60) DEF ElectionInv, ElectionTypes, Restart, Reset
  <2> QED
    BY <1>1, <2>1, Zenon DEF Backed, OneEach, Traced, Foreign
<1>6. ASSUME NEW m \in Masternode, m # n PROVE Backed(m)'
  <2>1. /\ phase'[m] = phase[m] /\ elected'[m] = elected[m] /\ ecerts'[m] = ecerts[m]
        /\ periodic'[m] = periodic[m] /\ main'[m] = main[m] /\ certMsgs' = certMsgs
    BY <1>6 DEF ElectionInv, ElectionTypes, Restart, Reset
  <2> QED
    BY <1>3, <2>1, OthersKeep, Zenon DEF ElectionInv
<1> QED
  BY <1>3, <1>4, <1>5, <1>6, Zenon DEF ElectionInv

\* The inductive invariant of the elections holds throughout.
LEMMA ElectionInvHolds == Spec => []ElectionInv
<1>1. Init => ElectionInv
  <2> SUFFICES ASSUME Init PROVE ElectionInv
    BY SMTT(60)
  <2>1. Cardinality(Masternode) \in MinMasternodes..Cardinality(Masternode)
    BY TotalType, ElectionAssumption, SMTT(60)
  <2>2. AtRest \in Todos /\ AtRest.todo = "rest" /\ AtRest.answer = {}
    BY RestFacts, Zenon
  <2>3. ElectionTypes
    BY <2>1, <2>2 DEF Init, ElectionInit, ElectionTypes
  <2>4. ASSUME NEW m \in Masternode PROVE Backed(m)
    BY <2>2, Zenon DEF Init, ElectionInit, Backed, OneEach, Traced, Foreign
  <2> QED
    BY <2>3, <2>4, Zenon DEF ElectionInv, Init, ElectionInit, Foreign
<1>2. ASSUME InBounds, ElectionInv, [Next]_vars PROVE ElectionInv'
  <2>1. CASE UNCHANGED electionState
    BY <2>1, <1>2, Zenon DEF electionState, electionVars, ElectionInv, ElectionTypes, Backed
  <2>2. budget.up \subseteq Masternode
    BY <1>2, Zenon DEF InBounds, Bounds
  <2>3. ASSUME NEW n \in Masternode, ElectionStep(n) PROVE ElectionInv'
    <3>1. CASE InitiateInVain(n)
      <4>1. periodic' = [periodic EXCEPT ![n] = AtRest] /\ AtRest \in Todos /\ AtRest.todo = "rest"
        BY <3>1, Zenon DEF InitiateInVain, AtRest, Todos
      <4>2. active' \in [Masternode -> MinMasternodes..Cardinality(Masternode)]
        BY <3>1, <1>2, Zenon DEF InitiateInVain, ElectionInv, ElectionTypes
      <4>3. UNCHANGED <<now, phase, elected, eprops, ecerts, started, main, electionMsgs, certMsgs>>
        BY <3>1 DEF InitiateInVain, electionVars
      <4> QED
        BY <1>2, <4>1, <4>2, <4>3, PeriodicKeeps, ZenonT(60)
    <3> QED
      BY <1>2, <2>3, <3>1, InitiateKeeps, ProcessElectionKeeps, ProcessCertificateKeeps, ConcludeKeeps, SMTT(60)
         DEF ElectionStep
  <2>4. ASSUME NEW n \in Masternode, NetworkStep(n) PROVE ElectionInv'
    <3>1. ASSUME NEW p \in proposalMsgs, VoteOnProposal(n, p) PROVE ElectionInv'
      <4>1. UNCHANGED <<now, active, periodic, main, electionMsgs, certMsgs>>
        BY <3>1, Zenon DEF VoteOnProposal
      <4>2. CASE Reset(n)
        BY <1>2, <4>1, <4>2, ResetKeeps, SMTT(60)
      <4>3. CASE UNCHANGED electionVars
        BY <2>1, <4>1, <4>3, SMTT(60) DEF electionState
      <4> QED
        BY <3>1, <4>2, <4>3, Zenon DEF VoteOnProposal
    <3> QED
      BY <2>1, <2>4, <3>1, Zenon DEF NetworkStep, RejectProposal, ProcessVote, AddGroups, electionState
  <2>5. ASSUME NEW n \in Masternode, MainStep(n) PROVE ElectionInv'
    <3>1. ASSUME NEW m \in approvalMsgs, ProcessApproval(n, m) PROVE ElectionInv'
      BY <1>2, <3>1, ResetKeeps, Zenon DEF ProcessApproval
    <3> QED
      BY <2>1, <2>5, <3>1 DEF MainStep, AnswerSync, ProcessSync, electionState
  <2>6. CASE AdvanceClock
    <3>1. now' \in Times
      BY <1>2, <2>6, ElectionAssumption, SMTT(60) DEF AdvanceClock, ElectionInv, ElectionTypes, Times
    <3> QED
      BY <1>2, <2>6, <3>1, SMTT(60) DEF AdvanceClock, electionVars, ElectionInv, ElectionTypes, Backed
  <2>7. CASE Next
    BY <1>2, <2>2, <2>3, <2>4, <2>5, <2>6, <2>7, PeriodicStepKeeps, RestartKeeps, Zenon DEF Next
  <2>8. CASE UNCHANGED vars
    BY <2>1, <2>8, Zenon DEF vars, electionState
  <2> QED
    BY <1>2, <2>7, <2>8
<1> QED
  BY <1>1, <1>2, BoundsHold, PTL DEF Spec

\* Every leader that a masternode follows, or is, has the certificates of at least
\* min_masternodes masternodes, for every committee, timeout and interleaving.
THEOREM LeadersAreElectedByQuorum == Spec => []ElectedByQuorum
<1>1. ElectionInv => ElectedByQuorum
  BY Zenon DEF ElectionInv, Backed, ElectedByQuorum, Quorate, CertifiersIn, Certifiers
<1> QED
  BY <1>1, ElectionInvHolds, PTL
=============================================================================
