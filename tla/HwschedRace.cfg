SPECIFICATION Spec
CONSTANTS
    a = a
    b = b
    Ctx = {a, b}
    Detachable = {a}
    Submitters = 1
    Level <- TwoLevels
    DrawqueueSize = 4
    GmuSize = 1
    Batches <- RealCommands
    HwFence = {FALSE}
    FaultKinds = {"hard", "page", "gmu"}
    MaxTs <- OneEach
    MaxFaults = 2
    MaxErrs = 1
    MaxIdles = 1
    worker = worker
    None = None
INVARIANTS
    ListedIsInflight
    
    IdleIsIdle
CHECK_DEADLOCK FALSE
