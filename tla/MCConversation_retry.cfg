SPECIFICATION Spec
CONSTANTS
    MaxTokens = 3
    MaxMessages = 4
    MaxCalls = 1
    MaxFailures = 0
    MaxEmpty = 1
    MaxCloses = 0
INVARIANTS RequestHasEverything
CHECK_DEADLOCK FALSE
