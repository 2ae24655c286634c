CONSTANTS
    f = f
    g = g
    None = None
    Orders <- UpToTwo
SPECIFICATION Spec
INVARIANT ExitInReverse
\* the kernel has booted and whatever can be stopped has been
CHECK_DEADLOCK FALSE
