SPECIFICATION FairSpec
CONSTANTS
    Thread = {t1, t2}
    NoThread = none
    Frame = {f1, f2}
    NoFrame = nil
    MaxPages = 3
    MaxWrites = 0
    MaxGuards = 2
    Nesting = {t1}
    Flushing = {t1}
    Deleting = {}
    Rewriting = {}
PROPERTIES
    ComesToRest
