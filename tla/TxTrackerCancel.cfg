SPECIFICATION TxSpec
CONSTANTS
    g = g
    a1 = a1
    a2 = a2
    a3 = a3
    a4 = a4
    b1 = b1
    b2 = b2
    NoBlock = NoBlock
    Blocks <- ForkBlocks
    Parent <- ForkParent
    Number <- ForkNumber
    MinQueueSize = 2
    MaxFollows = 1
    MayLag = FALSE
    MayFail = FALSE
    Including = {a1, b2}
    Shared = {a1}
    Subscribed = FALSE
    Discovered <- ForkDiscovered
    MaxAnnounced = 3
    MaxFailures = 0
INVARIANT ChangeCancels
CHECK_DEADLOCK FALSE
