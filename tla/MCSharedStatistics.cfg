SPECIFICATION Spec
CONSTANTS
    Capacity = 3
    Samples <- MCSamples
    Bids <- MCBids
    Spreads <- MCSpreads
    Stability = 3
    RecomputeInterval = 4
    Rounding <- MCRounding
INVARIANTS ExtremesAreExact DriftIsBounded PathCoversDisplacement
           OnlyTheRestartIsMisjudged
PROPERTIES ImplementsWindow
