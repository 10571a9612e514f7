CONSTANTS
    Size = 4
    Frames <- MCFrames
    Hosts <- MCHosts
    MaxBytes = 9
SPECIFICATION FairSpec
INVARIANTS InOrder RegistersTell EofOnlyAtEnd
PROPERTIES IsFifo Drained EofReported
