SPECIFICATION Spec
CONSTANTS
    a = a
    b = b
    None = None
    Proc = {p1, p2}
    Config = {a, b}
    Check <- MCCheck
    MaxTick = 3
    Due <- SparseTicks
    PanicAborts = FALSE
    Faults = {"crash", "fatal", "sigterm", "produce"}
PROPERTIES
    EveryCheckProduced
    WatermarkCatchesUp
    StopCompletes
