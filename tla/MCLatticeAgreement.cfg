CONSTANTS
    a = a
    b = b
    c = c
    d = d
    Node = {a, b, c, d}
    Author = {a, b, c, d}
    Round = {1, 2, 3, 4}
    Tag = {1}
    RetentionRounds = 64
    MaxAttestations = 256
    GroupSize = 5
    FirstRound = 1
    Cycles = {1}
    Schedule <- Chain
    PivotViews <- PivotA
SPECIFICATION Spec
CONSTRAINT OneAtATime
CHECK_DEADLOCK FALSE
INVARIANT
    CommitAgreement
