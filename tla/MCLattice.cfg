CONSTANTS
    a = a
    b = b
    c = c
    d = d
    Node = {a, b}
    Author = {a, b}
    Round = {2, 3, 4}
    Tag = {1, 2}
    RetentionRounds = 1
    MaxAttestations = 2
    GroupSize = 2
    FirstRound = 2
    Cycles = {1}
    Schedule <- TwoRounds
    PivotViews <- PivotA
SPECIFICATION Spec
CHECK_DEADLOCK FALSE
INVARIANTS
    TypeOK
    TablesHoldOnlySentMessages
PROPERTIES
    ImplementsDag
