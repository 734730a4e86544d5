SPECIFICATION Spec
CONSTANTS
    FileSize = 1
    MaxSize = 1
    writeBufferMinSize = 1
    writeBufferMaxSize = 1
    ConfirmFactor = 6
    Bandwidths = {1}
    MaxWrites = 1
    MaxFailures = 0
    readBufferMinSize = 1
    readBufferMaxSize = 1
    Clients = {c1, c2}
    MaxCalls = 3
INVARIANT ReadSeesWrites
CHECK_DEADLOCK FALSE
