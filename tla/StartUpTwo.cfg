CONSTANTS
    Nos <- MCTwoNos
    TaskIDs <- MCTaskIDs
    IDs <- MCIDs
    MaxStarts = 1
SPECIFICATION FairSpec
PROPERTIES IsFifo AckMeansIdle Answered
