SPECIFICATION Spec
CONSTANTS
    v1 = v1
    v2 = v2
    v3 = v3
    c1 = c1
    c2 = c2
    Values <- MCThreeValues
    Clients <- MCTwoClients
    Target = 2
    PoolSize = 2
    MaxTasks = 3
SYMMETRY MCSymmetry
INVARIANTS
    IInv
    SuccessesWithinTarget
    OutOfValuesIsFinal
    OutOfValuesMeansShort
    ClientsAgree
    JoinedMeansQuiet
CHECK_DEADLOCK FALSE
