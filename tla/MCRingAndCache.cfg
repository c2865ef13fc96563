SPECIFICATION OneOfThem
CONSTANTS
    Cap = 5
    Threshold = 1
    Lens <- MCLens
    MaxFrames = 4
    k1 = k1
    k2 = k2
    k3 = k3
    k4 = k4
    v1 = v1
    v2 = v2
    Keys = {k1, k2, k3, k4}
    Values = {v1, v2}
    Nothing = Nothing
    Capacity = 3
    TTL = 1
    SampleSize = 2
    MaxTime = 2
    MaxGets = 2
INVARIANTS
    NoOverlap
    ReadIntact
    DrainedRingTakesHalf
    RingInv
    CacheInv
PROPERTIES
    ImplementsChannel
    EvictsOldOfSample
    KeepsPromise
CHECK_DEADLOCK FALSE
