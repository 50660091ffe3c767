SPECIFICATION Spec
CONSTANTS
    MaxTokens = 4
    MaxMessages = 7
    MaxCalls = 2
    MaxFailures = 1
    MaxEmpty = 1
    MaxCloses = 1
INVARIANTS TypeOK NothingLost RolesAlternate CallsAnswered
CHECK_DEADLOCK FALSE
