CONSTANTS
    Loop = Loop
    Callers = {c1}
    Sharing <- OneUser
    Families = {v4, v6}
    MaxSocks = 2
    MaxCalls = 4
    Other = Other
    None = None
SPECIFICATION FairSpec
INVARIANTS ReceivingAgrees SocketsOwned ChannelOutlivesRound
PROPERTIES DestroyedCloses
CHECK_DEADLOCK FALSE
