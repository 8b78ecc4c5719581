SPECIFICATION SpecRequests
CONSTANTS
  Servers   <- NoServers
  NoServer  = NoServer
  Services  <- MCServices
  Payloads  <- LocalPayloads
  Home      <- LocalHome
  Kinds     <- LocalKinds
  Limits    <- LimitOfTwo
  QueryMayFail = FALSE
  MaxJobs   = 4
  MaxDrains = 1
INVARIANTS WorkConserving
CHECK_DEADLOCK FALSE
