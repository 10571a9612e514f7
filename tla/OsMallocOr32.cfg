CONSTANTS
    NClass <- MCNClass
    Bytes <- MCBytes
    Cnt <- MCCnt
    Sizes <- MCSizes
    AddressBits = 32
    LowByte = 3
SPECIFICATION Spec
INVARIANTS WithinPool
