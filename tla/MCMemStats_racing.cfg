CONSTANTS
    t1 = t1
    t2 = t2
    t3 = t3
    b1 = b1
    b2 = b2
    b3 = b3
    NULL = NULL
    Threads = {t1, t2, t3}
    Main = t1
    Blocks = {b1, b2, b3}
    Sizes = {0, 1}
    Wrap = 16
    MaxCalls = 4
    MallocFails = TRUE
    ZeroRealloc = TRUE
    JoinWorkers = FALSE
SPECIFICATION Spec
SYMMETRY Symmetry
INVARIANT Ownership
INVARIANT MaxIsPeak
