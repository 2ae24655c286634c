CONSTANTS
    WordMod = 92
    start = 32
    brk = 64
    Page = 16
    ALLOC_MAGIC = 64
    Sizes = {1, 6, 12, 27, 30}
    Data = {29, 30}
    MaxLive = 3
    MaxFrees = 2
    Tables = 5
    KernelTable = 4
    TableAt = 7
    TablePhys = 9
    DirPhys = 11
SPECIFICATION MainSpec
INVARIANTS TypeOK HeadIntact FixedPlacement UnalignedStaysInHeap DirectoryHolds
PROPERTIES NeverShrinks CallsReturn
CHECK_DEADLOCK FALSE
