SPECIFICATION RetrievalSpec
CONSTANTS
    u1 = u1
    u2 = u2
    u3 = u3
    c1 = c1
    c2 = c2
    Ursulas <- MCUrsulas
    Capsules <- MCCapsules
    Threshold = 2
    MaxRetrievals = 3
INVARIANT
    NeverOutOfUrsulas
CHECK_DEADLOCK FALSE
