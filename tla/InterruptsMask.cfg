CONSTANTS
    Lines = {0}
    DisableLines = {1}
    JMOD = 8
    Delays = {2}
    Burst = 3
    Faults = FALSE
SPECIFICATION Spec
PROPERTIES MaskFollows
CHECK_DEADLOCK FALSE
