\* A demonstration: names declared in arms of ifs.
CONSTANTS
    a = a
    b = b
    Names = {a, b}
    FunctionNames = {"f", "g"}
    Programs <- MCOneFunction
    MaxFunctions = 2
    MaxEvents = 4
    MaxDepth = 2
SPECIFICATION Spec
CHECK_DEADLOCK FALSE
INVARIANT MeansSame
