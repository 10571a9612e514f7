CONSTANTS
    Nos <- MCTwoNos
    TaskIDs <- MCTaskIDs
    IDs <- MCIDs
    MaxStarts = 1
SPECIFICATION Spec
PROPERTIES StopOnlyWhenAsked
