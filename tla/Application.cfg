SPECIFICATION Spec
CONSTANTS
    tn = tn
    tp = tp
    tq = tq
    Spaces = {"user", "kernel"}
    SpawnErrors = {"ENOMEM", "EAGAIN"}
    Tasks = {tn, tp, tq}
    Last = tn
    Names = {"ints", "strs", "str", "flag", "noflag"}
    TypeOf <- Types
    IsArray <- Arrays
    Max <- Sizes
    Args <- CommandLine
    MaxArgs = 2
    MallocFails = TRUE
CHECK_DEADLOCK FALSE
INVARIANTS
    ParsedAsGiven
    FreedOnce
    ExitSafe
    NothingLeft
PROPERTIES
    Stops
