SPECIFICATION Spec
CONSTANTS
    d1 = d1
    d2 = d2
    p1 = p1
    Threads = {p1, p2}
    DevPrivs = {d1, d2}
    DevOf <- TwoDevices
    Timelines = {t1, t2}
    Fences = {f1, f2}
    Ids = {i1}
    MaxSeqno = 1
    MaxCount = 2
    None = None
    Reserved = Reserved
SYMMETRY MemorySymmetry
INVARIANTS
    NoFencesAtDestroy
    IdNamesOneTimeline
