CONSTANTS
    Callers = {c1, c2}
    Functors = {f1, f2, f3}
    Recurring = {f3}
    Capacity = 1
    None = None
SPECIFICATION FairSpec
INVARIANTS NoLostWakeup HeldOnce
PROPERTIES QueuedRuns QuitEndsLoop
CHECK_DEADLOCK FALSE
