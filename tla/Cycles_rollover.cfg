SPECIFICATION FairSpec
CONSTANTS
    Issue = {i1, i2}
    Proc = {p1, p2}
    NCycles = 3
    NInitial = 2
    Horizon = 3
    MaxNow = 2
    Target = 1
    MaxRetries = 5
    MaxEvents = 2
INVARIANTS TypeOK CarryCoversContents
PROPERTIES CarriedOnce DueIsCompleted
CHECK_DEADLOCK FALSE
