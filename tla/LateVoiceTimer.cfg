SPECIFICATION Spec
CONSTANTS
    AutoReconnect = TRUE
    OptionFeatures = {"voice"}
    Features = {"voice"}
    Words = {0, 1}
    NoSession = NoSession
    TvMessages <- VoiceMessages
    TvBytes = {"body"}
    Expiring = {"voiceTimer"}
    MinDelay = 1
    MaxDelay = 3
    MaxShift = 7
    MaxChunks = 1
    Calls = {"connect", "startVoice", "stopVoice"}
    MaxCalls = 4
    MaxFaults = 0
    MaxBytes = 2
    MaxSessions = 1
PROPERTIES
    CancelledVoiceTimerIsInert
CHECK_DEADLOCK FALSE
