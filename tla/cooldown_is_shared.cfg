SPECIFICATION Spec
CONSTANTS
    Instance = {i1, i2}
    NoInstance = none
    MaxBatch = 2
    SuccessSpan = 2
    FailureSpan = 1
    OverrideSpan = 1
    RosterSpan = 1
    MaxTime = 2
    MaxEvents = 1
CHECK_DEADLOCK FALSE
SYMMETRY Symmetry
PROPERTY
    CooldownIsShared
