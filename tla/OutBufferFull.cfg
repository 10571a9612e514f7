CONSTANTS
    Size = 4
    Frames <- MCFrames
    Hosts <- MCHosts
    MaxBytes = 9
SPECIFICATION Spec
INVARIANTS NothingRunOver
