SPECIFICATION FairSpec
CONSTANTS
    MaxPid <- Processes
    Period <- SleepSteps
    Delay <- EnterSteps
PROPERTIES ExitedMeansReleased
CHECK_DEADLOCK FALSE
