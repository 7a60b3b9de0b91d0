SPECIFICATION Spec
CONSTANTS
    a = a
    b = b
    Ctx = {a}
    Detachable = {}
    Submitters = 2
    Level <- OneLevel
    DrawqueueSize = 4
    GmuSize = 1
    Batches <- PlainCommands
    HwFence = {FALSE}
    FaultKinds = {}
    MaxTs <- UpToSix
    MaxFaults = 0
    MaxErrs = 0
    MaxIdles = 0
    worker = worker
    None = None
INVARIANT
    RoomIsKept
CHECK_DEADLOCK FALSE
