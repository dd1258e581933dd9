CONSTANTS
    a = a
    b = b
    bx = bx
    bd = bd
    br = br
    g = g
    Account = {a, b}
    Block = {bx, bd, br}
    HeightOf <- Heights
    HashOrder <- Order
    RootOf <- Roots
    TxsOf <- Transfers
    MaxNonce = 1
    Group = {g}
    NoGroup = NoGroup
    NoBlock = NoBlock
    LocalGroup = g
    OwnBlocks = {bx}
    Finals <- Final
    Certificates <- Certified
    MayLack = {}
    TaskId = {1, 2}
    GcWindow = 1
    MaxPending = 1
    PendingTimeout = 0
    MaxTime = 1
    MaxCerts = 2
    MaxFaults = 1
SPECIFICATION Spec
CONSTRAINT Budget
CHECK_DEADLOCK FALSE
INVARIANTS
    TypeOK
    IndexesPointToPending
    NoBlockStranded
    DebitedOnce
PROPERTIES
    NoncesGoForward
    TasksEnd
