SPECIFICATION Spec
CONSTANTS
    NFrames = 3
    Start <- ThreeFrames
    KindsAt <- Rejected
    Cuts <- BodyCuts
    Registered = {"response", "error"}
    UInt32Size = 64
    ForeignLen <- SmallLengths
    Faults = {}
INVARIANTS
    FrameIntegrity
    ResumePoint
    OutcomeReported
PROPERTIES
    ReadsAll
    EveryFrameTaken
    DeliversFrames
