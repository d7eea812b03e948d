CONSTANTS
    MaxConns = 2
    Starters = {t1}
    MaxStarts = 2
    MaxFds = 4
    Base = 2
    NameRoom = 2
    AcceptCh = AcceptCh
    None = None
SPECIFICATION FairSpec
INVARIANTS StartSettles ActiveChannelsLive AssertionsHold
PROPERTIES EverythingReleased PeersTaken
CHECK_DEADLOCK FALSE
