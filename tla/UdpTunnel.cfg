SPECIFICATION Spec
CONSTANTS
    Base = 2
    HeaderBytes = 2
    MaxDatagram = 2
    MaxPendingBytes = 5
    MaxSent <- MCMaxSent
INVARIANTS
    TypeOK
    FramesIntact
CHECK_DEADLOCK FALSE
