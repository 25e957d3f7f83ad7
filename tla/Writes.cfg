SPECIFICATION Spec
CONSTANTS
    AutoReconnect = TRUE
    OptionFeatures = {"voice"}
    Features = {"voice"}
    Words = {0, 1}
    NoSession = NoSession
    TvMessages <- AnsweredMessages
    TvBytes = {"body"}
    Expiring = {}
    MinDelay = 1
    MaxDelay = 3
    MaxShift = 7
    MaxChunks = 1
    Calls = {"connect", "sendKey", "sendText"}
    MaxCalls = 4
    MaxFaults = 0
    MaxBytes = 2
    MaxSessions = 1
INVARIANTS
    WriterNeverStalls
    WritesInOrder
CHECK_DEADLOCK FALSE
