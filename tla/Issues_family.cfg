SPECIFICATION Spec
CONSTANTS
    i1 = i1
    i2 = i2
    i3 = i3
    p1 = p1
    p2 = p2
    Issue = {i1, i2, i3}
    Proc = {p1, p2}
    None = None
    AutoCloseParents = TRUE
    AutoCloseChildren = TRUE
    InitialStates = {"unstarted", "completed"}
    MaxTxs = 2
SYMMETRY IssueSymmetry
INVARIANTS TypeOK LogMatchesRows StampsMatchState
PROPERTIES ParentFollowsLastChild ChildrenFollowParent
CHECK_DEADLOCK FALSE
