CONSTANTS
    POOL = 2
    Channels = {0, 1}
    None = None
    Statuses = {0}
    RadioHal = FALSE
    MaxTx = 2
    MaxRx = 0
SPECIFICATION Spec
INVARIANT ReportsOwnFrame
CHECK_DEADLOCK FALSE
