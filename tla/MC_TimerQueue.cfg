CONSTANTS
    Addr = {1, 2}
    Callers = {c1}
    Whens = {1, 3}
    Intervals = {0, 1}
    TicksPerMicro = 2
    MinDelay = 1
    Paths = {"ring"}
    MaxTimers = 2
    MaxTime = 3
    None = None
SPECIFICATION FairSpec
INVARIANTS SetsAgree ScheduleKept CancelSticks
PROPERTIES LeavesOnlyByOwnId DueTimerExpires
CHECK_DEADLOCK FALSE
