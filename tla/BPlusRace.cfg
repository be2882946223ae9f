SPECIFICATION Spec
CONSTANTS
    w = w
    u = u
    Thread = {w, u}
    Key = {1, 2, 3, 4}
    LeafMax = 3
    InternalMax = 4
    MaxPages = 12
    MaxHeight = 3
    Calls <- RaceCalls
    Overlap <- RaceOverlap
INVARIANT InsertedKeyFound
