CONSTANTS
    WRAP = 12
    PERIOD = 3
    MaxHeld = 4
    Tasks = {t1}
    QUEUE_SIZE = 1
    None = None
    MaxAt = 4
    MaxTime = 17
    MIN_SLEEP_TICKS = 2
    COUNTS_PER_DOZE_TICK = 2
    DOZE_MAX = 2
    MaxLag = 1
    MaxGap = 1
    MaxWakeUp = 3
SPECIFICATION ExecSpec
INVARIANT DriftBounded
CHECK_DEADLOCK FALSE
