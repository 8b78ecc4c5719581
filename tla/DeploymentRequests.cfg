SPECIFICATION SpecRequests
CONSTANTS
  Servers   <- MCServers
  NoServer  = NoServer
  Services  <- MCServices
  Payloads  <- MCPayloads
  Home      <- MCHome
  Kinds     <- MCKinds
  Limits    <- LimitOfTwo
  QueryMayFail = FALSE
  MaxJobs   = 2
  MaxDrains = 1
INVARIANTS OneBuildPerService
CHECK_DEADLOCK FALSE
