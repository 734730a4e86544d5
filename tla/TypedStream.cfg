SPECIFICATION FairSpec
CONSTANTS
    Senders = {t1, t2}
    Handlers = {h1, h2}
    MaxSequence = 2
    MaxTasks = 2
INVARIANTS
    UnacknowledgedKept
    OnePlace
PROPERTY HandlersFinish
CHECK_DEADLOCK FALSE
