SPECIFICATION FairSpec
CONSTANTS
    Scans = {s1, s2}
    Workers = {w1, w2}
    NoScan = NoScan
    MaxStamp = 1
    MaxBells = 1
    PumpMaxBells = 1
    SoftLimit = 1
    HardLimit = 2
    StaleLimit = 3
INVARIANTS
    TypeOK
    OneExecutorPerScan
    FindingsOnlyIfCompleted
    ReapedHasNoExecutor
    EnrichedOnlyAfterCommit
PROPERTIES
    ImplementsScanLife
    QueuedScanIsTaken
    RunningScanEnds
    CancelStopsExecutor
