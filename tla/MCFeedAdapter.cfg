SPECIFICATION FairSpec
CONSTANTS
    LoginAttempts = 2
    MaxReconnects = 3
    DelayInitial = 1
    DelayMax = 3
    DelayFactor = 2
    MaxStops = 2
    CountLimit = 4
CHECK_DEADLOCK FALSE
PROPERTIES StopEndsEstablishedSession SupervisorKeepsTrying GivingUpReleasesConsumer
