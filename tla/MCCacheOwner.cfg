SPECIFICATION FairSpec
CONSTANTS
    t1 = t1
    t2 = t2
    key1 = key1
    key2 = key2
    None = None
    Threads <- TwoThreads
    Keys <- TwoKeys
    QueueCapacity = 1
    MaxOwners = 3
    Scenarios <- ScenarioSet
INVARIANTS
    WithinBounds
    LiveCacheIsPersistable
    AcknowledgedIsDurable
    RootFenced
PROPERTIES
    NobodyWaitsForever
CHECK_DEADLOCK FALSE
