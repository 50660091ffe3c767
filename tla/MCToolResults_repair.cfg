SPECIFICATION RepairSpec
CONSTANTS
    MaxUses = 3
    MaxBlocks = 5
INVARIANTS AnsweredExactly RightAnswersKept
CHECK_DEADLOCK FALSE
