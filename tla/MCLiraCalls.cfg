\* A demonstration: a value read on both sides of a call that does not take it as an argument.
CONSTANTS
    Reg = {0, 1, 2, 3, 4}
    CallerSaved <- Caller
    CalleeSaved <- Callee
    Graph <- CrossingGraphs
SPECIFICATION LiraSpec
CHECK_DEADLOCK FALSE
INVARIANT
    ValuesSurviveCalls
