CONSTANTS
    t1 = t1
    t2 = t2
    app = app
    A = A
    B = B
    NoLib = NoLib
    Libs = {app, A, B}
    Pcs = {0, 2, 11, 12, 20, 22}
    LibAt <- MCLibAt
    Base <- MCBase
    Images <- MCImages
    MaxShlibs = 2
    Threads = {t1, t2}
    Main = t1
    Frames <- MCFrames
    Depth = 3
    MaxTraps = 3
SPECIFICATION FairSpec
INVARIANT TypeOK
INVARIANT LookupIsExact
INVARIANT NamesAreLocal
INVARIANT OneStack
INVARIANT StaysInBounds
PROPERTY CollectedIsFinal
PROPERTY PrintEnds
