SPECIFICATION Spec
CONSTANTS
    DrainTurns = 16
    CloseLevels = 2
INVARIANTS
    FreedLast
    LookupAnswer
PROPERTIES
    ShutdownEnds
    LookupEnds
CHECK_DEADLOCK FALSE
