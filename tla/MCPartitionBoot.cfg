SPECIFICATION BootSpec
CONSTANTS
    Partition = {p1, p2}
    None = None
    BootIdle = 2
    BootMaxIdle = 40
    MaxLatency = 13
INVARIANTS
    StartsAfterBacklog
PROPERTIES
    EveryWaiterAnswers
