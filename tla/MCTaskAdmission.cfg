SPECIFICATION Spec
CONSTANTS
    c1 = c1
    c2 = c2
    c3 = c3
    w1 = w1
    Threads = {c1, c2, c3}
    WatchIds = {w1}
    Scenarios <- ScenarioSet
    MaxGenerations = 7
    None = None
SYMMETRY SymmetricThreads
INVARIANTS
    NothingOutlivesGeneration
    EventsKeepGenerations
    PendingWorkHasOwner
