SPECIFICATION FairSpec
CONSTANTS
    d1 = d1
    d2 = d2
    p1 = p1
    Threads = {p1, p2}
    DevPrivs = {d1, d2}
    DevOf <- OneDevice
    Timelines = {t1}
    Fences = {f1, f2}
    Ids = {i1}
    MaxSeqno = 1
    MaxCount = 2
    None = None
    Reserved = Reserved
PROPERTIES
    WaitReturns
    DestroyWakesAll
    ImplementsContract
