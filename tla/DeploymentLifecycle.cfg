SPECIFICATION Spec
CONSTANTS
  Servers   <- MCServers
  NoServer  = NoServer
  Services  <- MCServices
  Payloads  <- TwoServices
  Keep       = 1
  Faults    <- AllButReport
  MaxJobs    = 2
  MaxRows    = 3
  MaxCrashes = 1
  MaxRequests = 1
INVARIANTS TypeOK NoOrphanRows RowsBounded
PROPERTIES FinishedRowsStay JobsSpareRows
CHECK_DEADLOCK FALSE
