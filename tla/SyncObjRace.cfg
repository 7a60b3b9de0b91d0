SPECIFICATION Spec
CONSTANTS
    N = 3
    Type <- OfEachType
INVARIANTS
    TypeOK
    ObjRefCount
    SourceRefCount
    NoEarlyRetire
    NoLostKick
    TimerStopped
