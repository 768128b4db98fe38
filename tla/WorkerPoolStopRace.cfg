SPECIFICATION Spec
CONSTANTS
    v1 = v1
    v2 = v2
    v3 = v3
    c1 = c1
    c2 = c2
    Values <- MCTwoValues
    Clients <- MCOneClient
    Target = 1
    PoolSize = 2
    MaxTasks = 2
INVARIANT
    NoCallWhileStopping
CHECK_DEADLOCK FALSE
