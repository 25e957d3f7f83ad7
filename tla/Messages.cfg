\* Bytes, frames and messages between a television and the client.
CONSTANTS
    GroupBits = 3
    WordBits = 13
    NumberBits = 7
    Fixed64Size = 3
    Fixed32Size = 2
    IntBits = 6
    Text <- TextValue
    MaxFrame = 60
    VoiceChunk = 5
    VoiceMinimum = 2
    Ints <- IntsValue
    Texts <- TextsValue
    RawBytes = {0, 2, 8, 9, 15}
    MaxFrames = 2
    MaxGarbled = 4
    MaxRaw = 6
    MaxCommands = 1
    MaxVoice = 11
    MaxStreams = 2

SPECIFICATION Spec

INVARIANTS
    MeaningArrives
    LengthsAreExact
    ReaderStaysInside
    ClientIsUnderstood
    VoiceArrivesWhole

CHECK_DEADLOCK FALSE
