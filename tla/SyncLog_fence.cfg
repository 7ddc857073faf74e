SPECIFICATION FairSpec
CONSTANTS
    Tx = {t1, t2}
    Reader = {r1}
    PageSize = 1
    MaxRows = 3
    MaxPrunes = 2
INVARIANTS TypeOK NeverSkip
PROPERTIES MarkCatchesLostTransactions EmptyLogAnchorServable FeedSpec EventuallyDelivered
CHECK_DEADLOCK FALSE
