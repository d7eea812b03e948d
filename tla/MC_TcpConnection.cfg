CONSTANTS
    Callers = {c1}
    LoopThread = L
    Size = 2
    Room = 1
    HighWater = 2
    Paths = {"ring"}
    MaxSends = 1
    None = None
SPECIFICATION FairSpec
INVARIANTS StateAgrees StreamIntact ShutdownFlushesSends
PROPERTIES OutputFlushed ClosedIsDestroyed
