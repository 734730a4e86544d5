SPECIFICATION Spec
CONSTANTS
    Streams = {"a", "b"}
    LastSeq <- TwoStreams
    AckWindow = 2
    MaxUInt64 = 9
    MaxCopies = 2
    MaxForwarded = 3
INVARIANTS ForwardedInSequence AcknowledgedWasForwarded QuiescentBuffer
PROPERTY RequestsOnlyMissing
