SPECIFICATION Spec
CONSTANTS
  Apps      <- MCApps
  Domains   <- MCDomains
  Redirects <- MCRedirects
  Users     <- MCUsers
  appOf     <- MCAppOf
  Shapes    <- MCShapes
  Seeds     <- MCSeeds
  NoDomain  = NoDomain
  NoFile    = NoFile
  NoSection = NoSection
  Handlers  = {h1, h2}
  MaxRequests = 3
  MaxFaults   = 1
SYMMETRY AnyHandler
INVARIANTS TypeOK RoutersServed RoutersAgree RoutersProtected
PROPERTIES SaveRepairs ImplementsDomainRouters
CHECK_DEADLOCK FALSE
