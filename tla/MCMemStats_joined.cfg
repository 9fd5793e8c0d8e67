CONSTANTS
    t1 = t1
    t2 = t2
    t3 = t3
    b1 = b1
    b2 = b2
    b3 = b3
    NULL = NULL
    Threads = {t1, t2}
    Main = t1
    Blocks = {b1, b2}
    Sizes = {0, 1, 3}
    Wrap = 16
    MaxCalls = 4
    MallocFails = TRUE
    ZeroRealloc = FALSE
    JoinWorkers = TRUE
SPECIFICATION FairSpec
INVARIANT TypeOK
INVARIANT CountersExact
INVARIANT ReportTrue
PROPERTY CallsReturn
