SPECIFICATION Spec
CONSTANTS
    p1 = p1
    p2 = p2
    p3 = p3
    Procs = {p1, p2, p3}
    Builds = {1, 2}
    Faults = {"sem_open", "shm_open", "mmap"}
    MaxSegments = 2
    MaxCrashes = 1
SYMMETRY Symmetry
CHECK_DEADLOCK FALSE
INVARIANTS
    SemAccounted
    OneRegistry
    AlreadyTrue
PROPERTIES
    NeverReset
