SPECIFICATION Spec
CONSTANTS
    Tx = {t1, t2}
    Reader = {r1}
    PageSize = 2
    MaxRows = 2
    MaxPrunes = 1
PROPERTIES NoSilentlyIncompletePage
CHECK_DEADLOCK FALSE
