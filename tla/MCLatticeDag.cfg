CONSTANTS
    a = a
    b = b
    c = c
    d = d
    Node = {a, b, c, d}
    Author = {a, b, c, d}
    Round = {2, 3, 4}
    Tag = {1, 2}
    RetentionRounds = 1
    MaxAttestations = 4
    GroupSize = 4
    FirstRound = 2
    Cycles = {1}
    Schedule <- QuorumCycle
    PivotViews <- PivotA
SPECIFICATION Spec
CONSTRAINT CommitOrContest
SYMMETRY SymmetryCD
CHECK_DEADLOCK FALSE
INVARIANTS
    ConflictsShareASigner
    CommitsHaveFollowers
