\* A read behind the merge of a variable that an arm assigned.
CONSTANT
    Functions <- MCBranches
SPECIFICATION RunSpec
CHECK_DEADLOCK FALSE
INVARIANT
    ReadsKept
