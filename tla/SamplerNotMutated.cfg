SPECIFICATION GrantSpec
CONSTANTS
    alice = alice
    carol = carol
    p1 = p1
    Zero = Zero
    Alice = alice
    Accounts <- MCAccounts
    PolicyIds <- MCPolicyIds
    FeeRates <- MCFeeRates
    Sizes <- MCSizes
    MaxTime = 4
    MaxElements = 4
    MaxWeight = 3
INVARIANT
    NotMutated
CHECK_DEADLOCK FALSE
