SPECIFICATION Spec
CONSTANTS
    Client = {c1}
    Key = {1, 2}
    MaxTxns = 3
    Strings <- MCStrings
    Modes <- MCModes
    AnyTxn = FALSE
CHECK_DEADLOCK FALSE
INVARIANTS
    CurrentActive
PROPERTIES
    AnswerTells
    ImplementsStore
