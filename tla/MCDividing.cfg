\* A function that divides, called by main.
CONSTANTS
    Programs <- MCDividing
    MaxCalls = 1
SPECIFICATION RunSpec
CHECK_DEADLOCK FALSE
INVARIANT
    ReturnsHome
