SPECIFICATION FairSpec
CONSTANTS
    Writer = {w, u}
    Scanner = {s}
    Tuple <- MCTuple
    Length <- MCLength
    PageSize = 11
    HeaderSize = 2
    InfoSize = 3
    SizeMod = 64
    OffsetMod = 16
    MaxRows = 3
    FirstRowAlone = TRUE
CHECK_DEADLOCK FALSE
INVARIANTS
    LayoutUnlessWrapped
    IteratorAtRow
    StopsInBound
PROPERTIES
    ImplementsLog
    CallsReturn
