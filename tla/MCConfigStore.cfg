SPECIFICATION Spec
CONSTANTS
    s1 = s1
    s2 = s2
    r1 = r1
    r2 = r2
    r3 = r3
    None = None
    Subscription = {s1, s2}
    Interval = {2, 3, 6}
    MaxInterval = 6
    Region = {r1, r2, r3}
    RegionList <- MCRegionList
    Payload = {u, v}
    SlotSeed <- MCSlotSeed
    RegionSeed <- MCRegionSeed
    MaxClock = 1
INVARIANTS
    BucketsMatchConfigs
    OncePerInterval
    RegionsTakeTurns
