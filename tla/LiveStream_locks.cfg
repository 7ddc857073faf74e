SPECIFICATION FairSpec
CONSTANTS
    Conn = {c1,c2,c3}
    Restricted = {c1}
    MaxSockets = 9
    MaxRows = 2
    MaxOutages = 1
    MaxRedisErrors = 1
    MaxSubscribeErrors = 1
    MaxFilterErrors = 1
INVARIANTS TypeOK AckedMeansSubscribed StreamComplete MarkMatchesChannel
PROPERTIES ReleasedWhenEmpty
CHECK_DEADLOCK FALSE
