\* Straight code, one if, and nested ifs, filled in every way.
CONSTANTS
    Functions <- MCFunctions
SPECIFICATION RunSpec
CHECK_DEADLOCK FALSE
INVARIANTS
    SsaTypeOK
    PhisAtFrontier
    VersionsOnce
    ReadsKeptBeforeMerges
PROPERTY
    CopiesDoPhis
