CONSTANTS
    AskTypes <- CommandAsks
    MaxTs = 2
    MaxSends = 1
SPECIFICATION Spec
INVARIANT DeniedCommandNotRun
CHECK_DEADLOCK FALSE
