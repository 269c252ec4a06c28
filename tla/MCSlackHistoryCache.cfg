\* A cache of one message: the page that fills the hole reaches over it.
CONSTANTS
  Margin = 0
  Limit = 2
  Burst = 2
  Cached = 2
  Kept = 1
  MaxId = 6
  MaxFailures = 2
  OneHole = TRUE
  Overlap = FALSE
  MaxDeletes = 0
  MaxClicks = 0
SPECIFICATION Safe
INVARIANT InOrder
CHECK_DEADLOCK FALSE
