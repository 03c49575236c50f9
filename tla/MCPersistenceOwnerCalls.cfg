SPECIFICATION FairSpec
CONSTANTS
    t1 = t1
    t2 = t2
    Threads = {t1, t2}
    Boot = t1
    None = None
    MaxFrames = 1
    MaxRevision = 1
    MaxFaults = 0
    MaxCrashes = 0
INVARIANTS
    ShutdownCovers
PROPERTIES
    EveryCallReturns
CHECK_DEADLOCK FALSE
