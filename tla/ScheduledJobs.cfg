SPECIFICATION Spec
CONSTANTS
  Jobs      = {j}
  Crons     = {daily, hourly}
  None      = None
  Handlers  = {h1, h2}
  MaxEvents = 5
SYMMETRY Symmetric
INVARIANTS TypeOK EnabledIsTimed NoStrayTimer
CHECK_DEADLOCK FALSE
