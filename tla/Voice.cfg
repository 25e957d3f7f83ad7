SPECIFICATION FairSpec
CONSTANTS
    AutoReconnect = TRUE
    OptionFeatures = {"voice"}
    Features = {"voice"}
    Words = {0, 1}
    NoSession = NoSession
    TvMessages <- VoiceMessages
    TvBytes = {"body"}
    Expiring = {"voiceTimer"}
    MinDelay = 1
    MaxDelay = 3
    MaxShift = 7
    MaxChunks = 2
    Calls = {"connect", "startVoice", "sendVoiceData", "stopVoice"}
    MaxCalls = 4
    MaxFaults = 0
    MaxBytes = 3
    MaxSessions = 1
INVARIANTS
    VoiceNeedsConnection
    VoiceIsBracketed
CHECK_DEADLOCK FALSE
PROPERTY
    VoiceStartIsDecided
