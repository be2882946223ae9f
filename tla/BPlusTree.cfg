SPECIFICATION SpecApart
CONSTANTS
    w = w
    u = u
    Thread = {w, u}
    Key = {1, 2, 3, 4, 5, 6}
    LeafMax = 3
    InternalMax = 4
    MaxPages = 18
    MaxHeight = 3
    Calls <- MCCalls
    Overlap <- MCOverlap
CHECK_DEADLOCK FALSE
INVARIANTS
    TypeOK
    Balanced
    LeavesChained
    ScanSeesKept
PROPERTY
    ImplementsIndex
