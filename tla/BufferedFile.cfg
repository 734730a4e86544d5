SPECIFICATION Spec
CONSTANTS
    FileSize = 3
    MaxSize = 1
    writeBufferMinSize = 1
    writeBufferMaxSize = 2
    ConfirmFactor = 1
    Bandwidths = {1}
    MaxWrites = 2
    MaxFailures = 1
    readBufferMinSize = 1
    readBufferMaxSize = 1
    Clients = {c1, c2}
    MaxCalls = 4
INVARIANTS
    CountersAgree
    FutureInOnePlace
    ReadSeesConfirmed
    ReleasedLast
PROPERTY StorageInOrder
SYMMETRY ClientSymmetry
CHECK_DEADLOCK FALSE
