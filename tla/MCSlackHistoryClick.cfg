\* The user clicks the notice while network() fetches the same page.
CONSTANTS
  Margin = 0
  Limit = 2
  Burst = 2
  Cached = 2
  Kept = 5
  MaxId = 6
  MaxFailures = 0
  OneHole = TRUE
  Overlap = TRUE
  MaxDeletes = 0
  MaxClicks = 2
SPECIFICATION Safe
INVARIANT NoSilentGap
CHECK_DEADLOCK FALSE
