CONSTANTS
    Loop = Loop
    Callers = {c1, c2}
    Sharing <- Shared
    Families = {v4}
    MaxSocks = 2
    MaxCalls = 2
    Other = Other
    None = None
SPECIFICATION Spec
INVARIANTS
    SocketsOwned
CHECK_DEADLOCK FALSE
