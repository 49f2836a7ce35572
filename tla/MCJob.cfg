SPECIFICATION FairSpec
CONSTANTS
    Capacity = 2
    MaxId = 3
    MaxRev = 3
    Waiters = {1}
    Cooperative = {1}
INVARIANTS
    TypeOK
    CancellationLinearised
    ResultIffWorkerLeft
    BoundedConcurrency
    ReportAccountsForAll
PROPERTIES
    SnapshotsAdvance
    WaitReturns
    CloseDrains
    ShutdownReturns
CHECK_DEADLOCK FALSE
