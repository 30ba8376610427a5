SPECIFICATION Spec
CONSTANTS
    u1 = u1
    u2 = u2
    u3 = u3
    n1 = n1
    n2 = n2
    n3 = n3
    s0 = s0
    s1 = s1
    s2 = s2
    s3 = s3
    Users = {u1, u2, u3}
    Names = {n1, n2}
    SysNames = {s1, s2}
    Kinds <- MCKinds
    Settings <- PosixMemAndSem
    MaxObjects = 2
    NDEBUG = FALSE
    EarlyAttach = FALSE
    Crashes = TRUE
    Faults = {}
    MaxFaults = 0
SYMMETRY UserSymmetry
INVARIANTS
    MutualExclusion
    MaxIndexExact
    HandleValid
PROPERTIES
    ImplementsNameTable
