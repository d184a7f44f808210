SPECIFICATION FairSpec
CONSTANTS
    LoginAttempts = 2
    MaxReconnects = 0
    DelayInitial = 1
    DelayMax = 3
    DelayFactor = 2
    MaxStops = 1
    CountLimit = 4
CHECK_DEADLOCK FALSE
PROPERTIES StopEndsFeedThread
