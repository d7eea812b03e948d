CONSTANTS
    Addr = {1, 2}
    Callers = {c1}
    Whens = {1, 4}
    Intervals = {0, 1}
    TicksPerMicro = 2
    MinDelay = 1
    Paths = {"ring"}
    MaxTimers = 2
    MaxTime = 5
    None = None
SPECIFICATION Spec
INVARIANTS SequenceReadLive
CHECK_DEADLOCK FALSE
