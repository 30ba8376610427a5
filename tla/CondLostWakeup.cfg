SPECIFICATION Spec
CONSTANTS
    c1 = c1
    c2 = c2
    c3 = c3
    p1 = p1
    p2 = p2
    None = None
    Consumers = {c1}
    Producers = {p1}
    Backends = {"posix", "rtai"}
    Waits = {"stop"}
    Limit = 1
CHECK_DEADLOCK FALSE
INVARIANTS
    SignalWakes
