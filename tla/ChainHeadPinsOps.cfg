SPECIFICATION Spec
CONSTANTS
    g = g
    a1 = a1
    a2 = a2
    a3 = a3
    b1 = b1
    b2 = b2
    NoBlock = NoBlock
    Blocks <- Fork
    Parent <- ForkParent
    Number <- ForkNumber
    MinQueueSize = 1
    Ops = {o1, o2, o3}
    StorageOps = {o2, o3}
    Holders = {}
    MaxRefollows = 0
INVARIANTS UsageExact OperatedStaysPinned
CHECK_DEADLOCK FALSE
SYMMETRY StorageSymmetry
