CONSTANTS
    t1 = t1
    t2 = t2
    app = app
    A = A
    B = B
    NoLib = NoLib
    Libs = {app, A, B}
    Pcs = {0, 2, 11, 12, 20, 22}
    LibAt <- MCLibAt
    Base <- MCBase
    Images <- MCPlainImages
    MaxShlibs = 2
    Threads = {t1}
    Main = t1
    Frames <- MCFrames
    Depth = 3
    MaxTraps = 1
SPECIFICATION Spec
INVARIANT FunctionsAreNamed
