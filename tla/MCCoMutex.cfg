\* Four coroutines through two mutexes: three may queue behind a holder.
CONSTANTS
  c1 = c1
  c2 = c2
  c3 = c3
  c4 = c4
  Coros = {c1, c2, c3, c4}
  Nil = Nil
  Stages = 2
  CancelScheduled = FALSE
SPECIFICATION Spec
INVARIANT MutualExclusion
INVARIANT QueuesAreSound
INVARIANT NoDanglingHandle
PROPERTY EventuallyEnters
PROPERTY ImplementsFifoLock
