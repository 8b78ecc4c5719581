SPECIFICATION Spec
CONSTANTS
  Servers   <- MCServers
  NoServer  = NoServer
  Services  <- MCServices
  Payloads  <- MCPayloads
  Limits    <- EitherLimit
  QueryMayFail = TRUE
  MaxJobs   = 3
  MaxDrains = 1
INVARIANTS TypeOK ServiceExclusive NoStall AdmittedIsTheLoop
PROPERTIES BuildsWithinLimit OldestFirst ImplementsServiceQueue
CHECK_DEADLOCK FALSE
