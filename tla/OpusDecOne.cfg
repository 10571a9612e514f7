CONSTANTS
    Tasks = {1}
    Build = "or32"
    Programs <- MCPrograms
    JunkRuns <- MCJunk
    MaxFaults = 2
    HeadLen = 2
    Chunk = 8
    MaxSeg = 2
    MaxVals = 2
    Nominal = 5
    PageLimit = 99
    LacingStorage = 7
    BodyStorage = 5
SPECIFICATION Spec
INVARIANTS Intact OwnDecoder NoneLost SyncBounded LacingInOrder
