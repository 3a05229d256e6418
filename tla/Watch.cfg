SPECIFICATION FairSpec
CONSTANTS
    MaxPid <- Processes
    Period <- SleepSteps
    Delay <- EnterSteps
INVARIANTS TypeOK ClientNotForestalled SteadyProcessSeen
PROPERTIES ReleasedUnlessOrphans
CHECK_DEADLOCK FALSE
