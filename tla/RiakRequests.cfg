SPECIFICATION Spec
CONSTANTS
    Calls <- AllCalls
    Values = {"v1", "v2"}
    MaxSets = 2
    MaxItems = 2
    CanFail = TRUE
INVARIANTS
    TypeOK
    Heard
    ReadBack
    Guarded
    Matched
    FreedWhole
