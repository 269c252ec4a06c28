\* A coroutine may be destroyed after unlock() scheduled it.
CONSTANTS
  c1 = c1
  c2 = c2
  c3 = c3
  Coros = {c1, c2, c3}
  Nil = Nil
  Stages = 1
  CancelScheduled = TRUE
SPECIFICATION Safe
INVARIANT NoDanglingHandle
CHECK_DEADLOCK FALSE
