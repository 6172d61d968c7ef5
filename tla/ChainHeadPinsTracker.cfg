SPECIFICATION Spec
CONSTANTS
    g = g
    a1 = a1
    a2 = a2
    a3 = a3
    b1 = b1
    b2 = b2
    NoBlock = NoBlock
    Blocks <- MCBlocks
    Parent <- MCParent
    Number <- MCNumber
    MinQueueSize = 2
    Ops = {o1}
    StorageOps = {o1}
    Holders = {h1}
    MaxRefollows = 1
INVARIANTS HeldStaysPinned PinsAgree PathsPinned
PROPERTY PinsBounded
CHECK_DEADLOCK FALSE
