SPECIFICATION Spec
CONSTANTS
    Requests = {r1, n1}
    Retryable = {r1}
    Options <- MCOptions
    MaxRetry = 2
    MaxConnects = 2
    MaxLosses = 3
INVARIANT OneSocket
CHECK_DEADLOCK FALSE
