SPECIFICATION WorkSpec
CONSTANTS
    MaxWait = 2
    MaxBlock = 4
    MaxMempool = 2
    MaxEvents = 4
PROPERTY
    OneAndDone
CHECK_DEADLOCK FALSE
