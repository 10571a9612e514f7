CONSTANTS
    Size = 4
    Frames <- MCFrames
    Hosts <- MCHosts
    MaxBytes = 9
SPECIFICATION FairSpec
INVARIANTS InOrder RegistersTell
PROPERTIES IsFifo Delivered
