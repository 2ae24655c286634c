CONSTANTS
    WordMod = 72
    start = 32
    brk = 56
    Page = 8
    ALLOC_MAGIC = 64
    Sizes = {2, 6}
    Data = {0}
    MaxLive = 2
    MaxFrees = 0
SPECIFICATION Spec
INVARIANTS LiveGrantsDisjoint
CHECK_DEADLOCK FALSE
