SPECIFICATION FairSpec
INVARIANTS TypeOK SuccessMeansInside FailureMeansNoApp PrivilegedEnters KindTellsProgress
PROPERTIES CallReturns PlaysClient
CHECK_DEADLOCK FALSE
