SPECIFICATION Spec
CONSTANTS
    Delta = {d1}
    PageSize = 1
    MaxXid = 3
    MaxOverlaps = 0
    MaxUnheard = 1
    MaxHasty = 0
    MaxLost = 0
    MaxDrops = 0
    MaxReloads = 0
    MaxReboots = 0
    MaxBootErrors = 0
    MaxFallbacks = 0
    MaxDeltaErrors = 0
    MaxFlushErrors = 0
    MaxFaults = 1
INVARIANTS NoGapBehindCursor
CHECK_DEADLOCK FALSE
