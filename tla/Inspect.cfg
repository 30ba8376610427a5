SPECIFICATION Spec
CONSTANTS
    c1 = c1
    c2 = c2
    c3 = c3
    Callers = {c1, c2, c3}
    Base = 2
    Len = 2
    MaxObjects = 2
    Sizes = {1, 3}
    Book = 2
    SizeMax = 16
SYMMETRY Symmetry
INVARIANTS
    GoesRoundOnce
    DumpWithin
PROPERTIES
    NotRegistered
