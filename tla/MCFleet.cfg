SPECIFICATION Spec
CONSTANTS
    None = None
    a = a
    b = b
    r = r
    Process = {a, b, r}
    Readers = {r}
    TotalPartitions = 3
    MaxCheckers = 2
    MaxChanges = 2
    MaxDeploys = 1
INVARIANTS
    OneOwner
    BehindOnlyWhenSharedOrLost
SYMMETRY Symmetric
