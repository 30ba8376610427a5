SPECIFICATION Spec
CONSTANTS
    u1 = u1
    u2 = u2
    u3 = u3
    n1 = n1
    n2 = n2
    n3 = n3
    s0 = s0
    s1 = s1
    s2 = s2
    s3 = s3
    Users = {u1, u2, u3}
    Names = {n1, n2, n3}
    SysNames = {s0, s1, s2, s3}
    Kinds <- MCKinds
    Settings <- AliasesAndRTAI
    MaxObjects = 2
    NDEBUG = TRUE
    EarlyAttach = FALSE
    Crashes = FALSE
    Faults = {"open", "size", "attach_open"}
    MaxFaults = 1
SYMMETRY NameSymmetry
INVARIANTS
    TypeOK
    RefCount
    ReservationOwned
    UniqueNames
    MaxIndexExact
    HandleValid
    NoOrphan
PROPERTIES
    ImplementsNameTable
