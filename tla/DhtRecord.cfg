SPECIFICATION Spec
CONSTANTS
    Nodes = {n1, n2}
    Values = {v1, v2}
    Malformed = malformed
    MaxLost = 1
    MaxRestarts = 2
INVARIANTS
    PutDominates
    ReaderKeepsNewest
PROPERTY RecordSettles
CHECK_DEADLOCK FALSE
