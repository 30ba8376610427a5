SPECIFICATION FairSpec
CONSTANTS
    c1 = c1
    c2 = c2
    c3 = c3
    p1 = p1
    p2 = p2
    None = None
    Consumers = {c1, c2, c3}
    Producers = {p1}
    Backends = {"posix", "rtai"}
    Waits = {"forever", "timed", "stop"}
    Limit = 2
CHECK_DEADLOCK FALSE
INVARIANTS
    TypeOK
    NoLostWakeup
PROPERTIES
    CancelReturns
