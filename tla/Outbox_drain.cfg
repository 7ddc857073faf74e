SPECIFICATION FairSpec
CONSTANTS
    User = {u1, u2}
    NoUser = NoUser
    MaxRetries = 1
    MaxTx = 2
    MaxMishaps = 2
INVARIANTS TypeOK PendingIsKept
PROPERTIES AppliedInOrder RepeatsOnlyAfterLoss QueueDrains
CHECK_DEADLOCK FALSE
