SPECIFICATION Spec
CONSTANTS
  data      = data
  other     = other
  Jobs      <- TwoJobs
  Here      = {"volume"}
  Keep      <- KeepOne
  Matches   <- Prefix
  Rank      <- ByName
  MaxRuns   = 2
  MaxScale  = 1
  MaxEvents = 2
INVARIANT KeepsRecent
CHECK_DEADLOCK FALSE
