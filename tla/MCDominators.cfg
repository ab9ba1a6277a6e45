\* Dominators of every function with at most three ifs.
CONSTANTS
    MaxBlocks = 10
    MaxQuads = 3
    MaxDepth = 3
SPECIFICATION MCSpec
CHECK_DEADLOCK FALSE
INVARIANTS
    SemiCorrect
    IdomCorrect
    FrontierCorrect
