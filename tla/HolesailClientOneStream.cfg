SPECIFICATION Spec
CONSTANTS
    MaxConns = 3
    Addrs = {a1}
    None = None
INVARIANT OneStreamPerAddress
CHECK_DEADLOCK FALSE
