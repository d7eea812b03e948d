CONSTANTS
    Setters = {s1}
    Names = {"RTCLOG", "rtclog", "global"}
    Requests <- SomeRequests
    MaxEntries = 4
    MaxSets = 2
    NoOne = NoOne
    Writers = {w1, w2}
    LogLevels = {"Info"}
    Scenarios <- SomeScenarios
    MaxLogFileSize = 2
    MaxLogFiles = 2
    MaxMs = 2
SPECIFICATION FairLogSpec
INVARIANTS AllowedIsLastMatch LogComplete DiskBounded OwnTextOnly
PROPERTIES CallReturns
CHECK_DEADLOCK FALSE
