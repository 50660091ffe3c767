\* The two files of the conversation are one here: it is uploaded twice.
SPECIFICATION FairSpec
CONSTANTS
    f1 = f1
    conversation = conversation
    metadata = metadata
    t1 = t1
    Task = {t1}
    Blob = {conversation, metadata}
    ApiHistory = conversation
    UiMessages = conversation
    Sync = {1, 2}
    Forced = {f1}
    Shared = {t1}
    FlushAt = 1
    MaxWrites = 2
    MaxGit = 1
    MaxFailures = 1
    NoTask = NoTask
    NoItem = NoItem
    NoSync = NoSync
INVARIANTS TypeOK IndexesAgree OneSyncAtATime QueuedOrStored ForcedSyncFlushes
PROPERTIES ServerNeverGoesBack ForcedSyncReturns
CHECK_DEADLOCK FALSE
