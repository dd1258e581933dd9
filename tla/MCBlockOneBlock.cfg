CONSTANTS
    m1 = m1
    m2 = m2
    m3 = m3
    g0 = g0
    g1 = g1
    g0old = g0old
    x = x
    y = y
    Masternode = {m1, m2}
    Group = {g0, g1, g0old}
    IndexOf <- GroupIndex
    NoIndex = NoIndex
    Height = {1, 2}
    RoundId = {1, 2}
    Hash = {x, y}
    Time = {0}
    CacheMax = 1
    PendingTtl = 0
    PendingMax = 1
    Proposable <- Rotated
    ActiveGroups = {}
    BackupOf <- NoBackup
    Genesis = Genesis
    Idle = Idle
    MaxRestarts = 0
SPECIFICATION Spec
CHECK_DEADLOCK FALSE
INVARIANTS
    OneBlockPerHeightPerGroup
