CONSTANTS
    a = a
    b = b
    c = c
    timer_init = timer_init
    Nodes = {a, b, c}
    consoles = consoles
    Heads = {consoles}
    NULL = NULL
    None = None
    index <- Indices
    Orders <- Sections
SYMMETRY Alike
SPECIFICATION StartupSpec
INVARIANTS EarlyIsFirst InitInOrder LinkOrderDecides
PROPERTIES IsRegistry
