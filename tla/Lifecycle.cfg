SPECIFICATION Spec
CONSTANTS
    AutoReconnect = TRUE
    OptionFeatures = {}
    Features = {"voice"}
    Words = {0, 1}
    NoSession = NoSession
    TvMessages <- MirroredMessages
    TvBytes = {"more", "empty", "body", "tooLong"}
    Expiring = {"reconnectTimer", "idleTimer"}
    MinDelay = 1
    MaxDelay = 3
    MaxShift = 7
    MaxChunks = 1
    Calls = {"connect", "disconnect", "startPairing", "generateCertificate", "destroy"}
    MaxCalls = 2
    MaxFaults = 1
    MaxBytes = 2
    MaxSessions = 1
INVARIANTS
    StreamsAreNotMisused
    ChainNeverStalls
    DisconnectedStaysDown
    ConnectedIsWatched
    CleanedStaysDown
PROPERTIES
    NothingRunsAfterJoin
    ImplementsLifecycle
CHECK_DEADLOCK FALSE
