CONSTANTS
    W = 4
    len = 2
    Tables = {0, 1, 2}
    KT = 2
    PT = 6
    DirPage = 1
    FirstHeapPage = 2
    ClonePage = 4
    ClientPages = {0, 5}
SPECIFICATION Spec
INVARIANTS TypeOK FramesKept NeighbourUntouched TranslationsAgree LowMappingGone FramesSuffice
CHECK_DEADLOCK FALSE
