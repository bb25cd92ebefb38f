SPECIFICATION Spec
CONSTANTS
    Elems     = {1, 2}
    None      = 0
    Order     <- AtMost
    Sizes     = {0, 1, 3}
    Positions <- SomePositions
    MaxLength = 4
INVARIANTS
    TypeOK
PROPERTIES
    IsSequence
