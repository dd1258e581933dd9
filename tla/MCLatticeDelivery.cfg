CONSTANTS
    a = a
    b = b
    c4 = c4
    d4 = d4
    Node = {a, b, c4, d4}
    Author = {a, b, c4, d4}
    Round = {2}
    Tag = {1}
    RetentionRounds = 3
    MaxAttestations = 4
    GroupSize = 4
    FirstRound = 2
    Cycles = {0}
    Schedule <- OneCell
    PivotViews <- PivotA
SPECIFICATION PollerSpec
CHECK_DEADLOCK FALSE
PROPERTIES
    AttestedCellsGetCertified
