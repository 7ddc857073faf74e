SPECIFICATION Spec
CONSTANTS
    Tx = {t1, t2}
    Reader = {r1}
    PageSize = 1
    MaxRows = 2
    MaxPrunes = 1
PROPERTIES AtMarkMissedNothing
CHECK_DEADLOCK FALSE
