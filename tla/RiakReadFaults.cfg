SPECIFICATION Spec
CONSTANTS
    NFrames = 2
    Start <- TwoFrames
    KindsAt <- Malformed
    Cuts <- AnyCut
    Registered = {"response", "error"}
    UInt32Size = 64
    ForeignLen <- SmallLengths
    Faults = {"alloc", "read_error"}
INVARIANTS
    TypeOK
    OneOutcome
