SPECIFICATION FairSpec
CONSTANTS
    a = a
    b = b
    Task = {a, b}
    Tracked = {a}
    MaxCalls = 2
    MaxWrites = 2
    MaxFaults = 1
INVARIANTS TypeOK RestoresTakeTurns OthersChangesTold
PROPERTIES WaitersComeBack RestoreReloads
CHECK_DEADLOCK FALSE
