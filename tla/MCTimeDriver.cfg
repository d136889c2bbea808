CONSTANTS
    WRAP = 12
    PERIOD = 3
    MaxHeld = 8
    Tasks = {t1, t2, t3}
    QUEUE_SIZE = 2
    None = None
    MaxAt = 3
    MaxTime = 21
SPECIFICATION Spec
INVARIANTS DriverSound ClockExact
PROPERTIES ImplementsTimerService
SYMMETRY TaskSymmetry
CHECK_DEADLOCK FALSE
