CONSTANTS
    AskTypes <- MixedAsks
    MaxTs = 3
    MaxSends = 1
SPECIFICATION FairSpec
INVARIANTS TypeOK OneAskTakesTheAnswer ClickNeverAnswersOlderAsk MessageAnswersOneAsk
PROPERTIES UserAnswerStands SupersededAskEnds QueuedMessageUnblocks
CHECK_DEADLOCK FALSE
