SPECIFICATION WorkFairSpec
CONSTANTS
    MaxWait = 2
    MaxBlock = 4
    MaxMempool = 2
    MaxEvents = 5
INVARIANTS
    WorkTypeOK
    OneCommitment
    LostIsNoticed
    PendingBounded
PROPERTY
    WorkGetsDone
CHECK_DEADLOCK FALSE
