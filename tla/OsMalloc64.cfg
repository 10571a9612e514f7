CONSTANTS
    NClass <- MCNClass
    Bytes <- MCBytes
    Cnt <- MCCnt
    Sizes <- MCSizes
    AddressBits = 64
    LowByte = 0
SPECIFICATION Spec
INVARIANTS WithinPool
