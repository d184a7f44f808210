SPECIFICATION RunnerSpec
CONSTANTS
    MaxSnapshots = 3
    FeedLimit = 4
    QueueSize = 2
    MaxSignals = 2
INVARIANTS NoSnapshotVanishes ShutdownIsComplete FinalFrameShowsLastState
PROPERTIES SignalEndsRun
