\* A demonstration: nothing asked of the operands.
CONSTANTS
    Functions <- MCFunctions
    ParameterValues <- MCValues
SPECIFICATION OptSpec
CHECK_DEADLOCK FALSE
INVARIANT OptimizedAlikeInSsa
