SPECIFICATION FairSpec
CONSTANTS
    k1 = k1
    k2 = k2
    Keys = {k1, k2}
    Copies = 2
    Groups <- GroupSet
    MaxPasses = 2
    Scenarios <- ScenarioSet
INVARIANTS
    FilesAreKept
    ServingIsClean
PROPERTIES
    
    OnlyPlannedGoes
    StartupEnds
CHECK_DEADLOCK FALSE
