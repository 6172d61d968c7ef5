SPECIFICATION LruSpec
CONSTANTS
    Keys = {k1, k2}
    Capacity = 2
    TTL = 0
    NoNode = NoNode
INVARIANT AllListed
CHECK_DEADLOCK FALSE
