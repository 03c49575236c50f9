SPECIFICATION FairSpec
CONSTANTS
    client1 = client1
    session1 = session1
    None = None
    Clients <- OneClient
    Sessions <- OneSession
    QueueCapacity = 1
    PageFrames = 2
    MaxEvents = 4
    Scenarios <- ScenarioSet
INVARIANTS
    StreamIsExact
    SessionHearsAll
    LogIsAuthority
PROPERTIES
    EventsArrive
CHECK_DEADLOCK FALSE
