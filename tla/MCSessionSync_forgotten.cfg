SPECIFICATION Spec
CONSTANTS
    b1 = b1
    t1 = t1
    Task = {t1}
    Blob = {b1}
    ApiHistory = b1
    UiMessages = b1
    Sync = {1, 2}
    Forced = {}
    Shared = {}
    FlushAt = 5
    MaxWrites = 2
    MaxGit = 0
    MaxFailures = 0
    NoTask = NoTask
    NoItem = NoItem
    NoSync = NoSync
INVARIANTS NothingForgotten
CHECK_DEADLOCK FALSE
