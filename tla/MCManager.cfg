SPECIFICATION Spec
CONSTANTS
    Partition = {p1, p2}
    None = None
    StopDuringBoot = TRUE
    FatalErrors = TRUE
INVARIANTS
    ExitIsOrderly
PROPERTIES
    StopEnds
