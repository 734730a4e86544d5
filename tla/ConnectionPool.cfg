SPECIFICATION FairSpec
CONSTANTS
    m_connectionsNumber = 2
    Messages = {m1, m2, m3}
    MayStop = TRUE
    MaxFailures = 1
INVARIANTS
    ExclusiveUse
    KeptWithoutFailures

    
    
CHECK_DEADLOCK FALSE
