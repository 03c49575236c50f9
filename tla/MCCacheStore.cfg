SPECIFICATION FairSpec
CONSTANTS
    proc1 = proc1
    proc2 = proc2
    key1 = key1
    key2 = key2
    None = None
    Procs <- TwoProcs
    Keys <- TwoKeys
    MaxValues = 3
    Scenarios <- ScenarioSet
INVARIANTS
    ImagesAgree
    FlushedSurvives
PROPERTIES
    MaintenanceIsInvisible
    FlushCompletes
CHECK_DEADLOCK FALSE
