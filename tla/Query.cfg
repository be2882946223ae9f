SPECIFICATION Spec
CONSTANTS
    Null = null
    BatchSize = 2
    Width <- MCWidth
    Indexed <- MCIndexed
    Statements <- MCStatements
    Databases <- MCDatabases
CHECK_DEADLOCK FALSE
INVARIANTS
    RulesKeepAnswer
    AnswerIsRight
PROPERTY
    QueryEnds
