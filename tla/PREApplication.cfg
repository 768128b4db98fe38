SPECIFICATION PRESpec
CONSTANTS
    a1 = a1
    a2 = a2
    a3 = a3
    Zero = Zero
    Addresses <- MCAddresses
    Contracts <- MCContracts
    Owners <- MCAddresses
    MinAuthorization = 1
    MinOperatorSeconds = 2
    MaxStake = 1
    MaxTime = 4
SYMMETRY MCSymmetry
INVARIANTS
    OperatorsMatch
    ListedOnce
    ConfirmedIsBonded
PROPERTY
    OperatorTenure
CHECK_DEADLOCK FALSE
