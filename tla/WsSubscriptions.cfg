SPECIFICATION FairSpec
CONSTANTS
    Subs = {d1, c1}
    Durable = {d1}
    MaxLosses = 2
    MaxNotes = 3
    MaxKeys = 10
INVARIANTS InOrder RecordsAgree
PROPERTY Renewed
CHECK_DEADLOCK FALSE
