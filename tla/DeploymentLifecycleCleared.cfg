SPECIFICATION Spec
CONSTANTS
  Servers   <- MCServers
  NoServer  = NoServer
  Services  <- MCServices
  Payloads  <- OneApplication
  Keep       = 1
  Faults    <- ClearedLogs
  MaxJobs    = 1
  MaxRows    = 3
  MaxCrashes = 0
  MaxRequests = 2
INVARIANTS EndedBuildsRecorded
CHECK_DEADLOCK FALSE
