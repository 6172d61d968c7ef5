SPECIFICATION Spec
CONSTANTS
    g = g
    a1 = a1
    a2 = a2
    a3 = a3
    b1 = b1
    NoBlock = NoBlock
    Blocks <- MCBlocks
    Parent <- MCParent
    Number <- MCNumber
    MinQueueSize = 1
    MaxFollows = 3
    MayLag = TRUE
    MayFail = TRUE
INVARIANTS CaughtUp NumbersRight
PROPERTIES FinalizedStream BestCovered
CHECK_DEADLOCK FALSE
