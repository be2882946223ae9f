SPECIFICATION Spec
CONSTANTS
    Key = {1, 2}
    Value = {1, 2}
    Absent = absent
    TxnStart = 10
    MaxTxns = 3
    MaxRows = 3
    Loaded <- MCLoaded
    Predicate <- Predicates
    Workloads <- MCWorkloads
    Joining = {1}
CHECK_DEADLOCK FALSE
INVARIANTS
    TypeOK
    SnapshotReads
    UndoLogsKept
    VersionsOrdered
    WatermarkIsOldestReader
PROPERTY
    ImplementsStore
