SPECIFICATION Spec
CONSTANTS
    Messages <- SmallMessages
    MaxMessages = 3
INVARIANTS
    TypeOK
    WholeAnswer
    KeysBacked
    NothingLeft
    CompleteFreeable
