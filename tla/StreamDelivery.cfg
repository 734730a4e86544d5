SPECIFICATION FairDeliverySpec
CONSTANTS
    Streams = {"a"}
    LastSeq <- TwoMessages
    AckWindow = 1
    MaxUInt64 = 4
    MaxCopies = 2
    MaxForwarded = 3
    MaxLosses = 2
    WireCapacity = 1
INVARIANT NothingStranded
PROPERTY StartedStreamCompletes
