SPECIFICATION FairSpec
CONSTANTS
    s1 = s1
    s2 = s2
    Calls = 3
    Threads = 2
    Subscribers = {s1, s2}
    Accepts <- MCAccepts
    IdSpace = 2
    Retries <- MCRetries
    MaxErrors = 1
    None = None
    Error = Error
INVARIANTS
    AnsweredAtMostOnce
    OwnAnswer
    
PROPERTY RequestAnswered
CHECK_DEADLOCK FALSE
