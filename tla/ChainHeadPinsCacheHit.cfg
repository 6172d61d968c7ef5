SPECIFICATION Spec
CONSTANTS
    g = g
    a1 = a1
    a2 = a2
    a3 = a3
    b1 = b1
    b2 = b2
    NoBlock = NoBlock
    Blocks <- ShortChain
    Parent <- ShortParent
    Number <- ShortNumber
    MinQueueSize = 1
    Ops = {o1, o2}
    StorageOps = {o1, o2}
    Holders = {h1}
    MaxRefollows = 0
INVARIANT HeldNeverUnpinned
CHECK_DEADLOCK FALSE
