SPECIFICATION Spec
CONSTANTS
    Threads = {p1, p2}
    Fences = {f1, f2}
    MaxTs = 2
    UserTS = TRUE
    Overlap = FALSE
    None = None
SYMMETRY Symmetry
INVARIANTS
    SyncRefCounts
    SignaledIsRetired
    NoFenceForgotten
CHECK_DEADLOCK FALSE
