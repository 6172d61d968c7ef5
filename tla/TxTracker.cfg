SPECIFICATION TxFairSpec
CONSTANTS
    g = g
    a1 = a1
    a2 = a2
    a3 = a3
    a4 = a4
    b1 = b1
    b2 = b2
    NoBlock = NoBlock
    Blocks <- ForkBlocks
    Parent <- ForkParent
    Number <- ForkNumber
    MinQueueSize = 2
    MaxFollows = 1
    MayLag = FALSE
    MayFail = FALSE
    Including = {a1, b2}
    Shared = {a1}
    Subscribed = TRUE
    Discovered <- ForkDiscovered
    MaxAnnounced = 3
    MaxFailures = 1
INVARIANTS BestAgrees HoldsReturned
PROPERTIES FinalEnds FinalizedTold
CHECK_DEADLOCK FALSE
