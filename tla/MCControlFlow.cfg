\* The graphs of functions with ifs nested three deep, and the meaning of those
\* where no if stands in an arm.
CONSTANTS
    MaxBlocks = 13
    MaxQuads = 6
    MaxDepth = 3
SPECIFICATION Spec
CHECK_DEADLOCK FALSE
INVARIANTS
    TypeOK
    EdgesForward
    EdgesMirrored
    BranchesLast
    FlatFlowFaithful
