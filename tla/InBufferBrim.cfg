CONSTANTS
    Size = 4
    Frames <- MCFrames
    Hosts <- MCBrim
    MaxBytes = 9
SPECIFICATION Spec
INVARIANTS RegistersTell
