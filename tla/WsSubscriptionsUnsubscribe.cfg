SPECIFICATION Spec
CONSTANTS
    Subs = {d1}
    Durable = {d1}
    MaxLosses = 2
    MaxNotes = 0
    MaxKeys = 10
INVARIANT UnsubscribeEnds
CHECK_DEADLOCK FALSE
