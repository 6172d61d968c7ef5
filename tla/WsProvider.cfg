SPECIFICATION FairSpec
CONSTANTS
    Requests = {r1, n1}
    Retryable = {r1}
    Options <- MCOptions
    MaxRetry = 2
    MaxConnects = 2
    MaxLosses = 3
INVARIANTS OneConnection Transmitted QueuedWillProceed
PROPERTY EveryRequestAnswered
CHECK_DEADLOCK FALSE
