\* A GET, a POST and a GET for one origin, or one of them elsewhere or with an unknown
\* scheme; any of them may be cancelled, and the server may close.
CONSTANTS
  r1 = r1
  r2 = r2
  r3 = r3
  Reqs = {r1, r2, r3}
  Method <- WithPost
  Origins <- AnyOrigins
  BadOrigin = "bad"
  MaxSockets = 4
  MayCancel = {r1, r2, r3}
  CancelScheduled = FALSE
  MayClose = TRUE
SPECIFICATION Spec
INVARIANT PipelinedResponseIsOwn
INVARIANT RetryIsSafe
INVARIANT LocksAreSound
INVARIANT RightOrigin
PROPERTY EventuallyAnswered
PROPERTY ImplementsService
CHECK_DEADLOCK FALSE
