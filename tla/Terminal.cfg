CONSTANTS
    max_xpos = 3
    max_ypos = 2
    Glyphs = {"a", "b"}
    Report <- PanicReport
    MaxText = 7
SPECIFICATION Spec
INVARIANTS ShowsTail ReportReadable Confined
\* isr_handler ends in a loop that does nothing
CHECK_DEADLOCK FALSE
