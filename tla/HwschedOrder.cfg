SPECIFICATION FairSpec
CONSTANTS
    a = a
    b = b
    Ctx = {a}
    Detachable = {}
    Submitters = 1
    Level <- OneLevel
    DrawqueueSize = 4
    GmuSize = 1
    Batches <- EveryKind
    HwFence = {TRUE, FALSE}
    FaultKinds = {}
    MaxTs <- UpToThree
    MaxFaults = 0
    MaxErrs = 0
    MaxIdles = 0
    worker = worker
    None = None
INVARIANTS
    QueueNeverOverflows
    InOrder
    JobListed
PROPERTIES
    EveryTimestampRetires
    RoomIsFound
CHECK_DEADLOCK FALSE
