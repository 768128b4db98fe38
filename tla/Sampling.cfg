SPECIFICATION SamplingFairSpec
CONSTANTS
    h1 = h1
    n1 = n1
    n2 = n2
    alice = alice
    Values <- MCValues
    Handpicked <- MCHandpicked
    Providers <- MCProviders
    Alice = alice
    Clients <- MCClients
    Target = 2
    PoolSize = 2
    MaxTasks = 3
INVARIANTS
    SamplingTypeOK
    DrawnOnce
    EveryShareAssigned
    OutOfValuesMeansTried
    ErrorOnlyAfterStop
PROPERTIES
    AliceIsReleased
    PolicyEnds
CHECK_DEADLOCK FALSE
