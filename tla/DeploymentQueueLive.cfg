SPECIFICATION FairSpec
CONSTANTS
  Servers   <- NoServers
  NoServer  = NoServer
  Services  <- MCServices
  Payloads  <- OneHostPayloads
  Limits    <- EitherLimit
  QueryMayFail = TRUE
  MaxJobs   = 3
  MaxDrains = 1
CHECK_DEADLOCK FALSE
PROPERTIES EveryJobStarts
