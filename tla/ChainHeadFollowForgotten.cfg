SPECIFICATION Spec
CONSTANTS
    Calls = {c1}
    MaxStops = 2
    MaxLosses = 0
INVARIANT NobodyForgotten
CHECK_DEADLOCK FALSE
