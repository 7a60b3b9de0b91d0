SPECIFICATION FairSpec
CONSTANTS
    Window = 4
    Threads = {p1, p2}
    Events = {e1}
    UserTS = FALSE
    Start = 7
    MaxSubmit = 1
    MaxAhead = 1
    None = None
CHECK_DEADLOCK FALSE
PROPERTIES
    RetiredEventFires
    WaiterReturns
