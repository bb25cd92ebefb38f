SPECIFICATION Spec
CONSTANTS
    NRequests = 3
    Ops <- ThreeCalls
    LastOf <- Answers
    Mishaps = {"close", "write_error", "no_memory"}
    NFrames = 4
    Start <- FourFrames
    KindsAt <- Kinds
    Cuts <- WholeCuts
    UInt32Size = 64
    ForeignLen <- SmallLengths
    Faults = {}
INVARIANTS
    TypeOK
    OperationsFreed
    AnswersMatch
    InSync
PROPERTIES
    EveryCallReturns
