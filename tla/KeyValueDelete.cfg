SPECIFICATION Spec
CONSTANTS
    Ops = {1}
    Old = 9
    MaxOps = 1
    BlockSize = 2
    Blocks = {0, 1}
    NoObject = NoObject
    MAX_DELETE_OBJECTS = 1
    Stores = {"cephrados"}
PROPERTY DeletesAll
CHECK_DEADLOCK FALSE
