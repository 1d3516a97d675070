SPECIFICATION FairSpec
CONSTANTS
    HighWaterMark = 3
    StreamHighWaterMark = 3
    MaxChunk = 2
    MaxData = 2
    MaxOut = 6
    MaxIn = 6
INVARIANTS
    TypeOK
    CountersExact
    StoppedIsOwedADrain
    PausedIsOwedAWrite
    WindowsBounded
PROPERTIES
    DestroyedStaysQuiet
    ImplementsBridge
    TeardownCompletes
    ReadingResumes
    PauseEnds
CHECK_DEADLOCK FALSE
