SPECIFICATION Spec
CONSTANTS
    Thread = {t1, t2}
    NoThread = none
    Frame = {f1, f2}
    NoFrame = nil
    MaxPages = 3
    MaxWrites = 1
    MaxGuards = 2
    Nesting = {t1, t2}
    Flushing = {t1, t2}
    Deleting = {t1, t2}
    Rewriting = {}
SYMMETRY Symmetry
CHECK_DEADLOCK FALSE
INVARIANTS
    TypeOK
    OneHome
    PinsCounted
    EvictableUnpinned
    NoFrameLost
    GuardedPagesStay
    NoLostUpdate
