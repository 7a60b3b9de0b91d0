SPECIFICATION Spec
CONSTANTS
    d1 = d1
    d2 = d2
    p1 = p1
    Threads = {p1, p2, p3}
    DevPrivs = {d1, d2}
    DevOf <- OneDevice
    Timelines = {t1}
    Fences = {f1, f2}
    Ids = {i1}
    MaxSeqno = 2
    MaxCount = 1
    None = None
    Reserved = Reserved
SYMMETRY Symmetry
INVARIANTS
    TimelineRefCount
    FenceRefCount
    NoFreedFenceListed
    NoLostSignal
    NoEarlySignal
PROPERTY
    ValueNeverDecreases
