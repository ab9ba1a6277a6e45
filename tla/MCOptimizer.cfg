\* Straight code, one if and nested ifs, filled in every way.
CONSTANTS
    Functions <- MCFunctions
    ParameterValues <- MCValues
SPECIFICATION OptSpec
CHECK_DEADLOCK FALSE
INVARIANTS
    OptTypeOK
    OptimizedAlike
    PhisMatchEdges
PROPERTY
    Ends
