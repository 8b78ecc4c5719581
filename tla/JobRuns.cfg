SPECIFICATION Spec
CONSTANTS
  data      = data
  other     = other
  Jobs      <- TwoJobs
  Here      = {"backup", "volume", "schedule", "host"}
  Keep      <- KeepOne
  Matches   <- Apart
  Rank      <- Alike
  MaxRuns   = 2
  MaxScale  = 1
  MaxEvents = 4
INVARIANTS TypeOK ServiceRestored FailuresExplained AloneKeepsRecent RunningRowsAreRuns OneRunningRow
CHECK_DEADLOCK FALSE
PROPERTIES ImplementsServiceWindow LockWaitersProceed
