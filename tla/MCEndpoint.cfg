SPECIFICATION Spec
CONSTANTS
    None = None
    t1 = t1
    t2 = t2
    small = small
    large = large
    huge = huge
    Tasks = {t1, t2}
    Keys = {small, large, huge}
    Ops <- MCOps
    Slots = {1}
    SlotOf <- MCSlotOf
    MaxAssertionOps = 3
    FailureRetries = 1
INVARIANTS
    JudgedByItsOwn
    ExecuteNeverAborts
PROPERTY EveryoneAnswered
CHECK_DEADLOCK FALSE
