SPECIFICATION Spec
CONSTANTS
    a = a
    b = b
    Operations <- Two
    NFrames = 3
    Fds <- Numbers
    CanClose <- Lost
    Answering <- Live
    Failing <- Short
    Cuts <- Pieces
    Strangers = 1
INVARIANTS
    TypeOK
    NoLostWakeup
    PointerValid
PROPERTIES
    Answered
    LoopEnds
