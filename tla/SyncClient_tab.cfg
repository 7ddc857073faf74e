SPECIFICATION Spec
CONSTANTS
    Delta = {d1,d2}
    PageSize = 1
    MaxXid = 3
    MaxOverlaps = 1
    MaxUnheard = 1
    MaxHasty = 1
    MaxLost = 1
    MaxDrops = 1
    MaxReloads = 1
    MaxReboots = 1
    MaxBootErrors = 1
    MaxFallbacks = 1
    MaxDeltaErrors = 1
    MaxFlushErrors = 1
    MaxFaults = 1
SYMMETRY DeltaSymmetry
INVARIANTS TypeOK NoLostUpdate DeltaCoversItsSpan 
PROPERTIES CursorRegressesOnlyOnLoad MissingIsAwaited
CHECK_DEADLOCK FALSE
