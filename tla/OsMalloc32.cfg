CONSTANTS
    NClass <- MCNClass
    Bytes <- MCBytes
    Cnt <- MCCnt
    Sizes <- MCSizes
    AddressBits = 32
    LowByte = 0
SPECIFICATION Spec
INVARIANTS TypeOK NoOverlap Roomy RefusesOnlyWhenFull SmallClassesExact
PROPERTIES OthersKept
