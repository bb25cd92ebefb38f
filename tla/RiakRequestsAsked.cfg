SPECIFICATION Spec
CONSTANTS
    Calls = {"put"}
    Values = {"v1", "v2"}
    MaxSets = 2
    MaxItems = 2
    CanFail = FALSE
INVARIANTS
    AsAsked
