SPECIFICATION FairSpec
CONSTANTS
    p1 = p1
    p2 = p2
    Threads = {p1, p2}
    Locks <- EveryLock
    Delay = 3
    MaxWait = 2
    Slack = 1
    MaxValue = 1
    MaxSignals = 2
INVARIANTS
    WaitBounded
PROPERTIES
    NotEarly
    WaitsEnd
