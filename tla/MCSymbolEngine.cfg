SPECIFICATION Spec
CONSTANTS
    MaxSnapshotGap = 2
    MaxStaleness = 4
    Warmup = 2
    QueueSize = 2
    MaxOddities = 3
INVARIANTS NoReportIsLost IdleReconnectIsNeverSpanned
           OpenRestsOnWarmStatistics
PROPERTIES NoEntryOnKnownGap
