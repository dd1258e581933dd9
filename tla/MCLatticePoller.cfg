CONSTANTS
    a = a
    b = b
    c4 = c4
    d4 = d4
    Node = {a, b}
    Author = {a, b}
    Round = {2, 3, 4}
    Tag = {1, 2}
    RetentionRounds = 3
    MaxAttestations = 2
    GroupSize = 2
    FirstRound = 2
    Cycles = {0, 1}
    Schedule <- AnchorAndFollower
    PivotViews <- PivotA
SPECIFICATION PollerSpec
CHECK_DEADLOCK FALSE
PROPERTIES
    CommittableCyclesCommit
