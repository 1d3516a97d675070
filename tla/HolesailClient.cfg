SPECIFICATION Spec
CONSTANTS
    MaxConns = 3
    Addrs = {a1}
    None = None
INVARIANTS
    ReapedOwesNothing
    EntriesAreLive
    OrphansAreSilent
PROPERTIES
    EndedIsReaped
    DestroyDrains
CHECK_DEADLOCK FALSE
