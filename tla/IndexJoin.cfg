SPECIFICATION Spec
CONSTANTS
    Key = {1, 2}
    Value = {1, 2}
    Absent = absent
    TxnStart = 10
    MaxTxns = 2
    MaxRows = 3
    Loaded <- MCLoaded
    Predicate <- Predicates
    Workloads <- JoinWorkloads
    Joining = {1}
CHECK_DEADLOCK FALSE
INVARIANT JoinReadsSnapshot
