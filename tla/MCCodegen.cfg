\* Every order of three to five functions, with jumps, calls and numbers of
\* every encoded length, assembled and run.
CONSTANTS
    Programs <- MCPrograms
    MaxCalls = 4
SPECIFICATION RunSpec
CHECK_DEADLOCK FALSE
INVARIANTS
    RunTypeOK
    BuffersFilled
    BranchesLand
    SlotsBringHome
    ArgumentsArrive
