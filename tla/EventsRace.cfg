SPECIFICATION Spec
CONSTANTS
    Window = 4
    Threads = {p1, p2, p3}
    Events = {e1, e2}
    UserTS = TRUE
    Start = 7
    MaxSubmit = 1
    MaxAhead = 1
    None = None
CHECK_DEADLOCK FALSE
SYMMETRY Symmetry
INVARIANTS
    TypeOK
    ContextRefCount
    GroupKeepsContext
    NoMissedEvent
    NoLostWakeup
    RetiredIsTrue
