\* A demonstration: two phis at one merge.
CONSTANTS
    Reg = {0, 1, 2, 3, 4, 5, 6, 7, 8}
    CallerSaved <- Caller
    CalleeSaved <- Callee
    Graph <- TwoPhiGraphs
SPECIFICATION LiraSpec
CHECK_DEADLOCK FALSE
INVARIANT
    NoClobber
