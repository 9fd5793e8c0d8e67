CONSTANTS
    t1 = t1
    t2 = t2
    a1 = a1
    a2 = a2
    a3 = a3
    NULL = NULL
    Threads = {t1, t2}
    Main = t1
    Addrs = {a1, a2}
    Sizes = {1}
    MaxCalls = 3
    MaxProfiles = 1
    ReallocMoves = TRUE
    MovesOverlap = TRUE
    MallocFails = FALSE
    RecordFails = FALSE
    MayRace = FALSE
    LinkChains = TRUE
SPECIFICATION SaveSpec
SYMMETRY Symmetry
INVARIANT ChainsAreBuilt
