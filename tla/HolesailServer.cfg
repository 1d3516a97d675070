SPECIFICATION Spec
CONSTANTS
    Conns = {c1, c2, c3}
    Streams = {s1, s2}
    None = None
    MaxGets = 1
INVARIANTS
    OpenConnsListed
    DestroyReachesAll
    
 
CHECK_DEADLOCK FALSE
