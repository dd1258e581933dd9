SPECIFICATION Spec
CONSTANTS
    Txs <- MCTxs
    MaxPerAccount = 2
    MaxTotal = 2
    MaxNonceGap = 1
    Sender = {1, 2}
    Gap = 1
    GapRpc = 2
    MaxPerSender = 2
    MaxPerDevice = 1
    GlobalCap = 3
    ClassQuota <- MCClassQuota
    MaxPerRound = 1
    Burst = 1
    RpcTxs <- MCRpcTxs
    GossipTxs <- MCGossipTxs
    DualTokenTxs = {}
    ForeignTxs <- MCForeignTxs
    Funded = {1}
    Local = {1}
    Ttl = 0
    QueuedTtl = 0
    AgedAfter = 0
    PendingTtl = 1
    BatchSize = 2
    MaxTime = 2
INVARIANT
    ReadyQueuesScheduled
CONSTRAINT TimeOrCrowd
CHECK_DEADLOCK FALSE
