SPECIFICATION Spec
CONSTANTS
    DepthLevels = 3
    Nesting = 2
    HalvesDown <- MCHalvesDown
    Decay <- MCDecay
    Log <- MCLog
    Tanh <- MCTanh
    Power <- MCPower
    Launches <- MCLaunches
    Payloads <- MCPayloads
    Surroundings <- MCSurroundings
INVARIANTS
    AcceptedConfigFits
    OneFrameOneSnapshot
    AcceptedExactlyWhenSound
    MirroredBooksMirrorSignals
    ScoreFollowsItsVotes
    QuotesAreAdverse
    LevelsBracketEntry
    GateCoversCosts
