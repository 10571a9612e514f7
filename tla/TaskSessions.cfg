CONSTANTS
    NClass <- MCNClass
    Bytes <- MCBytes
    Cnt <- MCCnt
    AddressBits = 32
    LowByte = 0
    TaskIDs <- MCTaskIDs
    Decoders <- MCLonger
    Codecs <- MCCodecs
    TaskDos <- MCTaskDos
    HandleSize = 1
    ContextSize = 4
    BodySize = 3
    GranuleSize = 2
    DecoderSize = 2
    LacingVal = LacingVal
    NULL = NULL
SPECIFICATION Spec
INVARIANTS TypeOK WorkHasBuffers OwnedOnce
PROPERTIES OrphansOnlyFromFailure IsHeapClient
