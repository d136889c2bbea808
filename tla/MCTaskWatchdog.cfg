CONSTANTS
    Ids = {a, b}
    N = 2
    None = None
    Unbounded = Unbounded
    Configs <- MCConfigs
    HwTimeouts = {4, 6, 30}
    Interval = 2
    Cycles = 2
    Step = 3
    FIELD_MASK = 3
    MaxLate = 1
    MaxDuration = 4
    MaxTime = 8
SPECIFICATION Spec
INVARIANTS ResetInTime NoNeedlessReset MonitoringIsArmed
CHECK_DEADLOCK FALSE
SYMMETRY IdSymmetry
