SPECIFICATION Spec
CONSTANTS
    AutoReconnect = TRUE
    OptionFeatures = {}
    Features = {"voice"}
    Words = {0, 1}
    NoSession = NoSession
    TvMessages <- StartOnly
    TvBytes = {"body"}
    Expiring = {}
    MinDelay = 1
    MaxDelay = 3
    MaxShift = 7
    MaxChunks = 1
    Calls = {"connect", "sendKey"}
    MaxCalls = 2
    MaxFaults = 0
    MaxBytes = 0
    MaxSessions = 1
PROPERTIES
    KeyDoesNotEndConnection
CHECK_DEADLOCK FALSE
