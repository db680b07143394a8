SPECIFICATION Safety
CONSTANTS
    a = a
    b = b
    None = None
    Proc = {p1, p2}
    Config = {a, b}
    Check <- MCCheck
    MaxTick = 3
    Due <- MixedTicks
    PanicAborts = TRUE
    Faults = {"crash", "expire", "timeout", "disconnect", "fatal", "overlap"}
SYMMETRY ProcSymmetry
INVARIANTS
    NoHoles
