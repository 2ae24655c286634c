CONSTANTS
    Nodes = {a, b, c}
    Heads = {h, k}
    NULL = NULL
SPECIFICATION Spec
INVARIANTS RingsIntact WalkIsComplete
PROPERTIES AreOrderedLists
