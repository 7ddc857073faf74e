SPECIFICATION FairSpec
CONSTANTS
    Delivery = {d1, d2}
    Worker = {w1, w2}
    Window = 1
    Stall = 1
    Backoff = 1
    MaxAttempts = 2
    DisableAfter = 2
    MaxDeaths = 1
    MaxEdits = 1
INVARIANTS TypeOK OneSender RepeatsOnlyAfterDeath OverLimitIsSwitchedOff
PROPERTIES OutcomeIsFinal EveryDeliveryEnds
CHECK_DEADLOCK FALSE
