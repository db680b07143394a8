SPECIFICATION CheckSpec
CONSTANTS
    None = None
    Timeout = 4
    RobotsTimeout = 2
    MaxBody = 3
    MaxChunk = 2
    Micro = 2
    StartTs = 3
    Width = 64
INVARIANTS
    KeepsTimeout
    CapturesBody
    PartsWithinRequest
    BilledOnce
    DebugShowsOffsets
