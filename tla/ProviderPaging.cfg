SPECIFICATION PagingFairSpec
CONSTANTS
    a1 = a1
    a2 = a2
    a3 = a3
    Zero = Zero
    Addresses <- MCAddresses
    Contracts = {}
    Owners <- MCOwners
    MaxChanges = 2
    MinAuthorization = 1
    MinOperatorSeconds = 0
    MaxStake = 1
    MaxTime = 1
    PageSizes <- MCPageSizes
INVARIANTS
    PagingTypeOK
    TokensMatch
    ReservoirComplete
PROPERTIES
    PagesExist
    ReadingEnds
CHECK_DEADLOCK FALSE
