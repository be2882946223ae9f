SPECIFICATION Spec
CONSTANTS
    Thread = {t1, t2}
    NoThread = none
    Frame = {f1}
    NoFrame = nil
    MaxPages = 1
    MaxWrites = 1
    MaxGuards = 1
    Nesting = {}
    Flushing = {}
    Deleting = {t1, t2}
    Rewriting = {}
CHECK_DEADLOCK FALSE
INVARIANTS
    DeleteNeverAborts
