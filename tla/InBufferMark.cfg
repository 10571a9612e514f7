CONSTANTS
    Size = 4
    Frames <- MCFrames
    Hosts <- MCGap
    MaxBytes = 9
SPECIFICATION Spec
INVARIANTS EofKept
