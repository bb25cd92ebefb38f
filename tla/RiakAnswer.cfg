SPECIFICATION Spec
CONSTANTS
    Kinds      <- AllKinds
    Objects    <- SomeObjects
    Docs       <- SomeDocs
    Hooks      <- SomeHooks
    MaxObjects = 2
    MaxShort   = 2
INVARIANTS
    TypeOK
    AllOrNothing
    OkMeansResponse
    NothingLeft
    OneObjectLost
