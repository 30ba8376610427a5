SPECIFICATION Spec
CONSTANTS
    a1 = a1
    a2 = a2
    b1 = b1
    b2 = b2
    k1 = k1
    pa = pa
    pb = pb
    Threads = {a1, a2, b1, b2, k1}
    Procs = {pa, pb}
    Kernel = Kernel
    NoThread = NoThread
    SpaceOf <- Spaces
    MaxInterrupts = 1
    MaxCrashes = 1
    MaxLoads = 2
CHECK_DEADLOCK FALSE
INVARIANTS
    MutualExclusion
    SemAccounted
    OneInSysfs
PROPERTIES
    Progress
