SPECIFICATION LiveSpec
CONSTANTS
    TopLevel = 3
    WatchLevel = 2
    EntryLevel = 3
    ReversalLevel = 1
    TopConfidence = 2
    MinWatchConfidence = 1
    MinEntryConfidence = 2
    ExitConfidence = 1
    WatchTimeout = 2
    MinHold = 1
    MaxHold = 3
    Cooldown = 2
    EntryConfirmations = 2
    CriticalBlocks <- MCCritical
    OtherBlocks <- MCOther
    UseTarget = TRUE
    RequireLtpConfirmation = TRUE
    RequireZeroCrossRearm = TRUE
    ExitOnQualityLoss = TRUE
INVARIANTS PositionMatchesState
PROPERTIES EntryIsConfirmed NoReentryBeforeRearm MinHoldIsOnlyBrokenByStop
           ImplementsLifecycle EveryPositionCloses EveryExitIsFollowedByFlat
