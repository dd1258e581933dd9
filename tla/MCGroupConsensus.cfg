CONSTANTS
    m1 = m1
    m2 = m2
    m3 = m3
    Masternode = {m1, m2, m3}
    Ordered <- Order
    MinMasternodes = 2
    None = None
    Forming = Forming
    MaxTime = 2
    EpochLength = 2
    ElectionTimeout = 0
    LeaderMessageAge = 1
    VoteExpiry = 0
    MessageAge = 3
    MaxDedupe = 2
    Connections = {1}
    Budgets <- Plans
SPECIFICATION Spec
CHECK_DEADLOCK FALSE
INVARIANTS
    TypeOK
    ElectedByQuorum
    QuorumOfVoters
    ActiveIsApproved
PROPERTIES
    LagEnds
