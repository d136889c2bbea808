CONSTANTS
    POOL = 2
    Channels = {0, 1}
    None = None
    Statuses = {0}
    RadioHal = TRUE
    MaxTx = 2
    MaxRx = 3
SPECIFICATION FairSpec
INVARIANTS PoolConserved FramesAccounted WakeNotLost BufferValid OwnReports OwnChannels BusyEnds
PROPERTIES FuturesResolve
CHECK_DEADLOCK FALSE
