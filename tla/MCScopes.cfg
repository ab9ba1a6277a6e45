\* Every body of up to four events, ifs nested two deep, in all files of MCScopes.
CONSTANTS
    a = a
    b = b
    Names = {a, b}
    FunctionNames = {"f", "g", "h"}
    Programs <- MCPrograms
    MaxFunctions = 2
    MaxEvents = 4
    MaxDepth = 2
SPECIFICATION Spec
CHECK_DEADLOCK FALSE
INVARIANTS
    AcceptedIffLegal
    FlatMeansSame
    ReadsWritten
