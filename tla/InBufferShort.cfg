CONSTANTS
    Size = 4
    Frames <- MCLong
    Hosts <- MCGap
    MaxBytes = 9
SPECIFICATION Spec
INVARIANTS InOrder
