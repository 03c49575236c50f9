SPECIFICATION FairSpec
CONSTANTS
    c1 = c1 c2 = c2 w1 = w1 m1 = m1
    None = None
    Clients <- ClientSet
    Daemons <- DaemonSet
    Writers <- WriterSet
    Maintainers <- MaintainerSet
    Scenarios <- ScenarioSet
INVARIANTS
    EndpointIsExact
    StopMeansStopped
    RetentionIsApart
PROPERTIES
    CallsSucceed
CHECK_DEADLOCK FALSE
