SPECIFICATION Spec
CONSTANTS
  Lookups = {l1, l2, l3}
  Trids = {t1, t2, t3, t4}
  Tries = 2
  InitialSize = 1
  Patience = 2
  MaxReplies = 1
  AgainInTimeout = FALSE
  None = None
SYMMETRY Symmetric
INVARIANT SlotsAreSound
INVARIANT EndsInTime
