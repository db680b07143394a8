SPECIFICATION Spec
CONSTANTS
    Result = {r1, r2, r3}
    BatchSize = 2
    CounterRange = 8
    MaxRetries = 2
INVARIANTS
    PipelineKeepsOrder
    NothingGivenUp
PROPERTIES
    EveryResultLeaves
    WorkerEnds
