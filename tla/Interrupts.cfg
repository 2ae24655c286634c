CONSTANTS
    Lines = {0, 1, 9}
    DisableLines = {5, 13}
    JMOD = 8
    Delays = {0, 2, 3}
    Burst = 3
    Faults = TRUE
SPECIFICATION FairSpec
INVARIANTS TypeOK InServiceClean CascadeHeld
PROPERTIES IsClock DelayReturns
CHECK_DEADLOCK FALSE
