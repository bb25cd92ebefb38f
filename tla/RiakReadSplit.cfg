SPECIFICATION Spec
CONSTANTS
    NFrames = 2
    Start <- TwoFrames
    KindsAt <- WellFormed
    Cuts <- AnyCut
    Registered = {"response", "error"}
    UInt32Size = 64
    ForeignLen <- SmallLengths
    Faults = {}
INVARIANTS
    FrameIntegrity
