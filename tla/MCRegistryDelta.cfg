SPECIFICATION Spec
CONSTANTS
    a = a
    w1 = w1
    w2 = w2
    body1 = body1
    body2 = body2
    NoRecord = NoRecord
    Tasks = {a}
    Watches = {w1, w2}
    TaskOf <- OneTask
    WatchLists <- DistinctLists
    Bodies = {body1, body2}
    MaxFrames = 2
    MaxMutations = 5
SYMMETRY Interchangeable
INVARIANTS
    ReplayIsExact
    BatchesFit
