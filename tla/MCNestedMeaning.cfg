\* The meaning of the blocks when an if stands in an arm of another one.
CONSTANTS
    MaxBlocks = 7
    MaxQuads = 4
    MaxDepth = 2
SPECIFICATION Spec
CHECK_DEADLOCK FALSE
INVARIANT
    FlowFaithful
