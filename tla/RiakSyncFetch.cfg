SPECIFICATION Spec
CONSTANTS
    NRequests = 1
    Ops <- OneCall
    LastOf <- OneAnswer
    Mishaps = {}
    NFrames = 1
    Start <- OneFrame
    KindsAt <- OneKind
    Cuts <- BodyCuts
    UInt32Size = 64
    ForeignLen <- SmallLengths
    Faults = {}
INVARIANTS
    OkMeansFetched
