SPECIFICATION Spec
CONSTANTS
    n1 = n1
    n2 = n2
    db = db
    None = None
    MaxPosts = 2
    MaxDeliveries = 4
    MaxTime = 3
    Nodes <- MCNodes
    Targets <- MCTargets
    Requests <- MCRequests
    Workloads <- MCWorkloads
CHECK_DEADLOCK FALSE
INVARIANTS
    TypeOK
    AckedIsStored
    LastRunIsStored
    SnapshotWithScan
    OnePiiOnlyRun
PROPERTIES
    PiiOnLatest
    ReportsKept
    ErrorStays
    HandlersEnd
