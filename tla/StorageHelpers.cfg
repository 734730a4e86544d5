SPECIFICATION Spec
CONSTANTS
    None = None
    Workers = {w1, w2}
    IO_RETRY_COUNT = 1
    Users = {u1, u2, keep}
    Settable = {u1}
    KeepUser = keep
    ProcessUser = process
    Directory <- MCDirectory
    Handles = {h1, h2}
    NoHandle = NoHandle
    Descriptors = {1}
    MaxQueue = 1
    MaxChunks = 2
    Sessions = {s1, s2}
    Ops = {1, 2}
    RangeWriteSupport = {"NONE", "SABREDAV", "MODDAV"}
    Calls = {c1, c2}
    Helpers = {g1, g2}
    FileHelper = g1
    MaxContexts = 2
    NoWorker = NoWorker
    NoHelper = NoHelper
    Crashed = crashed
    Trees <- MCTrees
    Filters <- MCFilters
    GrowSpeed = 2
    MaxTime = 4
    MaxCount = 3
    Old = 9
    MaxOps = 2
    BlockSize = 2
    Blocks = {0, 1}
    NoObject = NoObject
    MAX_DELETE_OBJECTS = 1
    Stores = {"s3", "swift", "cephrados"}
    MaxAccounts = 2
    MaxBatches = 2
INVARIANTS
    CallsAsOwner ListingIsSlice OwnDescriptor LeftOpenOnlyIfRefused SessionExclusive
    ConnectedBeforeUse   
PROPERTY GivesUpWithErrno
CHECK_DEADLOCK FALSE
