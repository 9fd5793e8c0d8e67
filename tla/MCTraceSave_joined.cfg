CONSTANTS
    t1 = t1
    t2 = t2
    a1 = a1
    a2 = a2
    a3 = a3
    NULL = NULL
    Threads = {t1, t2}
    Main = t1
    Addrs = {a1, a2}
    Sizes = {0, 1}
    MaxCalls = 4
    MaxProfiles = 2
    ReallocMoves = TRUE
    MovesOverlap = FALSE
    MallocFails = FALSE
    RecordFails = FALSE
    MayRace = FALSE
    LinkChains = TRUE
SPECIFICATION FairSaveSpec
INVARIANT ChainsFollowHistory
INVARIANT SaveSucceeds
INVARIANT LeaksAreHeld
INVARIANT Ownership
INVARIANT LogMatchesHeap
PROPERTY LogIsHistory
PROPERTY SaveEnds
