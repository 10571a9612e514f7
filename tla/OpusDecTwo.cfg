CONSTANTS
    Tasks = {1, 2}
    Build = "or32"
    Programs <- MCLong
    JunkRuns <- MCJunk
    MaxFaults = 0
    HeadLen = 2
    Chunk = 3
    MaxSeg = 2
    MaxVals = 2
    Nominal = 5
    PageLimit = 99
    LacingStorage = 7
    BodyStorage = 9
SPECIFICATION Spec
INVARIANTS Intact
