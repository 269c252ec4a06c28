\* A POST that follows a cancelled GET on a kept-alive socket.
CONSTANTS
  r1 = r1
  r2 = r2
  r3 = r3
  Reqs = {r1, r2, r3}
  Method <- WithPost
  Origins <- JustOne
  BadOrigin = "bad"
  MaxSockets = 4
  MayCancel = {r1}
  CancelScheduled = FALSE
  MayClose = FALSE
SPECIFICATION Safe
INVARIANT ResponseIsOwn
CHECK_DEADLOCK FALSE
