CONSTANTS
    WRAP = 6
    PERIOD = 2
    MaxHeld = 1
    Tasks = {t1, t2}
    QUEUE_SIZE = 2
    None = None
    MaxAt = 5
    MaxTime = 6
    MIN_SLEEP_TICKS = 2
    COUNTS_PER_DOZE_TICK = 2
    DOZE_MAX = 31
    MaxLag = 1
    MaxGap = 1
    MaxWakeUp = 1
SPECIFICATION ExecSpec
INVARIANTS NoSleepOnWork SleepEndsByDeadline DriftBounded NowNeverBackwards
SYMMETRY TaskSymmetry
CHECK_DEADLOCK FALSE
