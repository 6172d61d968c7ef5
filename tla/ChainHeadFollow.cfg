SPECIFICATION FairSpec
CONSTANTS
    Calls = {c1, c2}
    MaxStops = 2
    MaxLosses = 1
INVARIANTS WaitersReleased OperationsRecovered FollowedWhenQuiet
PROPERTY EveryCallAnswered
CHECK_DEADLOCK FALSE
