SPECIFICATION Spec
CONSTANTS
    Requests = {r1, n1}
    Retryable = {r1}
    Options <- MCOptions
    MaxRetry = 2
    MaxConnects = 1
    MaxLosses = 3
INVARIANT QueueMoves
CHECK_DEADLOCK FALSE
