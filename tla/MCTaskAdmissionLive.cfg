SPECIFICATION FairSpec
CONSTANTS
    c1 = c1
    c2 = c2
    c3 = c3
    w1 = w1
    Threads = {c1, c2}
    WatchIds = {w1}
    Scenarios <- LiveScenarioSet
    MaxGenerations = 5
    None = None
PROPERTIES
    CancellationEnds
