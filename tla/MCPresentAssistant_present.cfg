CONSTANTS
    Ids <- TwoCalls
    MaxBlocks = 3
    MaxTurns = 2
    MaxFailures = 1
    MaxCalls = 2
SPECIFICATION FairSpec
INVARIANTS TypeOK OneBlockAtATime EveryCallAnswered OneToolUsed
PROPERTIES ToolsRunOnce WaitEnds
CHECK_DEADLOCK FALSE
