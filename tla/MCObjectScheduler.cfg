SPECIFICATION Spec
CONSTANTS
    a = a
    b = b
    c = c
    None = None
    Things <- MCThings
    MaxPending = 3
    MaxDelay = 1
SYMMETRY MCSymmetry
INVARIANTS TypeOK BooksAreKept NothingDangles NobodyStarves
PROPERTIES ServedOnceAFrame ImplementsScheduledSet
