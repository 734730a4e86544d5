\* Two callers race two executor threads; the visitor may throw on one operation.
SPECIFICATION FairSpec
CONSTANTS
    Callers = {c1, c2}
    Workers = {w1, w2}
    Ops = {o1, o2, o3, o4}
    ThrowingOps = {o4}
INVARIANTS
    SerialExecution
    UsedQueueEmptyAtSwap
    ExecutedInScheduleOrder
    NoLostWakeup
PROPERTIES
    EveryOpExecuted
    ImplementsSerialQueue
CHECK_DEADLOCK FALSE
