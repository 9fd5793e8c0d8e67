CONSTANTS
    t1 = t1
    t2 = t2
    a1 = a1
    a2 = a2
    a3 = a3
    NULL = NULL
    Threads = {t1, t2}
    Main = t1
    Addrs = {a1, a2}
    Sizes = {0, 1}
    MaxCalls = 3
    MaxProfiles = 2
    ReallocMoves = TRUE
    MovesOverlap = TRUE
    MallocFails = TRUE
    RecordFails = TRUE
    MayRace = TRUE
    LinkChains = TRUE
SPECIFICATION SaveSpec
SYMMETRY Symmetry
INVARIANT SaveTypeOK
INVARIANT OutputIsHistory
INVARIANT RecordsAccounted
