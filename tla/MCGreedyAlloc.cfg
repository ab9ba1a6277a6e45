\* Four virtual registers compete for three physical ones.
CONSTANTS
    Reg = {0, 1, 2, 3}
    CallerSaved = {0, 1}
    CalleeSaved = {19}
    MaxTime = 3
    IntervalMaps <- MCIntervalMaps
SPECIFICATION Spec
CHECK_DEADLOCK FALSE
INVARIANTS
    TypeOK
    NoSharing
    FailureJustified
PROPERTY
    ImplementsColoring
