SPECIFICATION ConnSpec
CONSTANTS
    HighWaterMark = 2
    StreamHighWaterMark = 5
    MaxPendingBytes = 5
    MaxChunk = 2
    MaxData = 2
    MaxOut = 11
    MaxIn = 2
INVARIANTS
    ConnCountersExact
    OneChunkLostAtMost
    ConnStoppedIsOwed
    FreedOwesNothing
PROPERTIES
    ServiceResumes
    
CHECK_DEADLOCK FALSE
