SPECIFICATION FairSpec
CONSTANTS
    w1 = w1
    w2 = w2
    w3 = w3
    Writer = {w1, w2, w3}
    Old = Old
    None = None
    MaxFailures = 2
INVARIANTS TypeOK OneWriterInside LatestSurvives
PROPERTIES ReplacesAtomically CallsSettle
CHECK_DEADLOCK FALSE
