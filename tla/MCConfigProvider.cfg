SPECIFICATION Spec
CONSTANTS
    Subscription = {1, 2, 3}
    Partition <- MCPartition
    Home <- MCHome
    Process = {p}
    ReadOnly = {}
    Invalid = {2}
    None = None
    RedisErrors = TRUE
    MaxWrites = 3
    MaxCrashes = 1
INVARIANTS
    OnlyErrorsLose
PROPERTIES
    StoreConverges
