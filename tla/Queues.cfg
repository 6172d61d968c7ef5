SPECIFICATION QueuesSpec
CONSTANTS
    Tasks = {t1, t2, t3, t4, t5}
    MaxConcurrentTasks = 2
    Works = {w1, w2, w3, w4}
    NoWork = NoWork
    MayCancel = TRUE
INVARIANTS SlotsCounted NoLostWakeup NoneStranded
PROPERTIES QueuedStartInOrder EveryCallAnswered StartInOrder EveryWorkAnswered
