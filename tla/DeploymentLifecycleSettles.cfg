SPECIFICATION FairSpec
CONSTANTS
  Servers   <- MCServers
  NoServer  = NoServer
  Services  <- MCServices
  Payloads  <- WithPreview
  Keep       = 1
  Faults    <- NoStrandedJob
  MaxJobs    = 2
  MaxRows    = 2
  MaxCrashes = 1
  MaxRequests = 1
INVARIANTS QuietServicesSettled
PROPERTIES RowsSettle
CHECK_DEADLOCK FALSE
