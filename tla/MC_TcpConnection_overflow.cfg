CONSTANTS
    Callers = {c1}
    LoopThread = L
    Size = 2
    Room = 3
    HighWater = 2
    Paths = {"ring", "fallback"}
    MaxSends = 1
    None = None
SPECIFICATION Spec
INVARIANTS ShutdownFlushesSends

