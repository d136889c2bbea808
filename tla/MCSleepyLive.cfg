CONSTANTS
    WRAP = 4
    PERIOD = 2
    MaxHeld = 1
    Tasks = {t1, t2}
    QUEUE_SIZE = 2
    None = None
    MaxAt = 1
    MaxTime = 5
    MIN_SLEEP_TICKS = 1
    COUNTS_PER_DOZE_TICK = 1
    DOZE_MAX = 15
    MaxLag = 0
    MaxGap = 0
    MaxWakeUp = 0
SPECIFICATION FairExecSpec
PROPERTIES WokenIsPolled ExecTimerFires
CHECK_DEADLOCK FALSE
