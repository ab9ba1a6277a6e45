\* Liveness analysis on small graphs of every shape; register allocation of
\* them, of straight-line code, of calls and of one phi per merge.
CONSTANTS
    Reg = {0, 1, 2, 3, 4, 5, 6, 7}
    CallerSaved <- Caller
    CalleeSaved <- Callee
    Graph <- MCGraphs
SPECIFICATION FairLiraSpec
CHECK_DEADLOCK FALSE
INVARIANTS
    TypeOK
    Fixpoint
    SummaryAgrees
    ExactlyLive
    NoClobber
    ArgumentsSurviveCalls
PROPERTIES
    OnlyGrows
    Finishes
