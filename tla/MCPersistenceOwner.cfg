SPECIFICATION FairSpec
CONSTANTS
    t1 = t1
    t2 = t2
    Threads = {t1}
    Boot = t1
    None = None
    MaxFrames = 1
    MaxRevision = 2
    MaxFaults = 2
    MaxCrashes = 1
INVARIANTS
    NothingLost
    SurvivorsServe
    NoSelfDivergence
PROPERTIES
    QuietCheckpoints
