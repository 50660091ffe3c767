CONSTANTS
    Ids <- OneCall
    MaxBlocks = 2
    MaxTurns = 1
    MaxFailures = 1
    MaxCalls = 2
SPECIFICATION FairSpec
PROPERTY WaitAlwaysEnds
CHECK_DEADLOCK FALSE
