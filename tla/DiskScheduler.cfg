SPECIFICATION FairSpec
CONSTANTS
    Page = {p1, p2}
    Buffer = {b1, b2}
    Content = {zero, v1}
    Zero = zero
    Unknown = unknown
    InitialCapacity = 1
    IntPages = 100
CHECK_DEADLOCK FALSE
INVARIANTS
    TypeOK
    SlotsDistinct
PROPERTIES
    EveryRequestAnswered
    ShutdownEnds
    ImplementsStore
