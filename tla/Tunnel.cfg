SPECIFICATION Spec
CONSTANTS
    HighWaterMark = 1
    StreamHighWaterMark = 2
    MaxPendingBytes = 2
    MaxChunk = 1
    MaxData = 1
    ClientBytes = 1
    ServerBytes = 2
INVARIANT EndToEndComplete
PROPERTIES
    EndToEndProgress
    BothEndsEnd
CHECK_DEADLOCK FALSE
