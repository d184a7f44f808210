SPECIFICATION Spec
CONSTANTS
    TopEfficiency = 4
    TopVolatility = 1
    TopTrend = 2
    ErTrend = 3
    ErRange = 1
    PullbackMinEr = 2
    VolHigh = 1
    TrendMin = 1
    ConfirmSnapshots = 3
    MinDwell = 4
    CountLimit = 6
INVARIANTS LabelIsAdopted
PROPERTIES LabelIsEarned
