CONSTANTS
    Tasks = {1}
    Build = "or32"
    Programs <- MCLong
    JunkRuns <- MCJunk
    MaxFaults = 0
    HeadLen = 2
    Chunk = 3
    MaxSeg = 2
    MaxVals = 2
    Nominal = 5
    PageLimit = 2
    LacingStorage = 7
    BodyStorage = 9
SPECIFICATION Spec
INVARIANTS NoneLost
