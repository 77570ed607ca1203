SPECIFICATION Spec
CONSTANTS
    monitoring = monitoring
    indexer = indexer
    db = db
    Workers = {monitoring, indexer, db}
    Monitoring = monitoring
    Subscribed = {indexer, db}
    Failing = {indexer}
    TickDivider <- MCTickDivider
    Period = 6
    Wrap = 3
    MaxSignatures = 2
INVARIANTS
    OneRun
    LaunchedFirst
    Counted
    MonitorCurrent
PROPERTIES
    Served
    ComesUp
CHECK_DEADLOCK FALSE
