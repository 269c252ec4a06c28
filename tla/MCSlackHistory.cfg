\* Outages, failed calls, deleted messages, a user who clicks the notice, closes and
\* opens the tab, none of which meets a page that is being fetched.
CONSTANTS
  Margin = 0
  Limit = 2
  Burst = 2
  Cached = 2
  Kept = 5
  MaxId = 7
  MaxFailures = 2
  OneHole = TRUE
  Overlap = FALSE
  MaxDeletes = 1
  MaxClicks = 2
SPECIFICATION Spec
INVARIANT InOrder
INVARIANT HoleIsTrue
PROPERTY EventuallyShown
CHECK_DEADLOCK FALSE
