SPECIFICATION Spec
CONSTANTS
    User = {u1, u2}
    NoUser = NoUser
    MaxRetries = 1
    MaxTx = 2
    MaxMishaps = 0
PROPERTIES ReplayIsNoOp
CHECK_DEADLOCK FALSE
