SPECIFICATION Spec
CONSTANTS
    Check = {k1, k2}
    Concurrency = 2
    FailureRetries = 1
    Build <- EveryBuild
INVARIANTS
    CountersCoverWork
    OneResultPerCheck
    OneshotTellsTheTruth
PROPERTIES
    LosesOnlyWhenStopped
    CancelEndsLoop
    ImplementsPromise
