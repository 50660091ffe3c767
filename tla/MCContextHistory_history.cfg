SPECIFICATION Spec
CONSTANTS
    MaxNow = 64
    MaxChat = 4
    MaxReductions = 2
    MaxRewinds = 2
    MaxCalls = 2
    StartTurns <- StartTurnsMC
CHECK_DEADLOCK FALSE
INVARIANTS TypeOK NothingForgotten ResultsHaveCalls
PROPERTIES RewindRestores
