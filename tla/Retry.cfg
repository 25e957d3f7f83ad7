SPECIFICATION FairSpec
CONSTANTS
    AutoReconnect = TRUE
    OptionFeatures = {}
    Features = {"voice"}
    Words = {0, 1}
    NoSession = NoSession
    TvMessages <- StartOnly
    TvBytes = {"body"}
    Expiring = {"reconnectTimer", "idleTimer"}
    MinDelay = 1
    MaxDelay = 3
    MaxShift = 7
    MaxChunks = 1
    Calls = {"connect", "disconnect"}
    MaxCalls = 3
    MaxFaults = 1
    MaxBytes = 1
    MaxSessions = 1
INVARIANTS
    TypeOK
    RetryIsScheduled
    RetryNeverHitsLiveStream
PROPERTIES
    LossIsAnnounced
    RetryHappens
    SilentConnectionEnds
    OnlySilenceHoldsAttempt
CHECK_DEADLOCK FALSE
