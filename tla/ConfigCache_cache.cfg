SPECIFICATION Spec
CONSTANTS
    p1 = p1
    p2 = p2
    w1 = w1
    w2 = w2
    Proc = {p1, p2}
    Write = {w1, w2}
    TTL = 1
    MaxClock = 1
    MaxFaults = 1
SYMMETRY ConfigSymmetry
INVARIANTS TypeOK CoherentCache BoundedStaleness
CHECK_DEADLOCK FALSE
