SPECIFICATION FairSpec
CONSTANTS
    path1 = path1
    path2 = path2
    None = None
    Paths <- TwoPaths
    MaxPending = 1
    Scenarios <- ScenarioSet
INVARIANTS
    IndexedAnswersAreCurrent
    ClearedIsNotServed
PROPERTIES
    AcceptedWorkIsDone
CHECK_DEADLOCK FALSE
