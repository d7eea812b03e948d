CONSTANTS
    CheapPrepend = 2
    InitialSize = 3
    ExtraSize = 2
    Bytes = {0, 1}
    MaxLen = 2
    MaxReadable = 3
    BufferSize = 2
    Channels = {c1, c2}
    Fds = {4, 5, 6}
    InitEventListSize = 1
    Ips4 = {"10.0.0.1", "10.0.0.2"}
    Ips6 = {"fe80::1"}
    Ports = {1, 8080}
    MaxInfos = 2
    LevelOrder <- TwoLevels
    Types <- SomeTypes
    Values = {"x", "y"}
    LoggerIds = {"default", "net"}
    Files <- SomeFiles
    MaxOps = 3
    Tokens <- SomeTokens
    MaxTokens <- SomeLengths
    NameLimit = 5
    DateBuffer = 6
SPECIFICATION SeqSpec
INVARIANTS 
    OperationsKeepStream MirrorOrNothing
    RegistrationAgrees ReadyNotStarved
    AddressAsAsked ConfigurationsAgree
    InputsParsed LinesRendered HelpersExact
CHECK_DEADLOCK FALSE
