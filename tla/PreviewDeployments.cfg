SPECIFICATION Spec
CONSTANTS
  Apps     = {a}
  Pulls    = {q1, q2}
  limit    <- TwoPreviews
  None     = None
  Handlers  = {h1, h2}
  MaxPreviews = 4
  MaxEvents   = 4
SYMMETRY Symmetric
INVARIANTS TypeOK WithinLimit OnePreviewPerPull ClosedLeavesNoRow NoOrphans
PROPERTIES ImplementsPreviewHosting
CHECK_DEADLOCK FALSE
