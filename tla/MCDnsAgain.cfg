SPECIFICATION Spec
CONSTANTS
  Lookups = {l1, l2}
  Trids = {t1, t2, t3}
  Tries = 2
  InitialSize = 1
  Patience = 2
  MaxReplies = 2
  AgainInTimeout = TRUE
  None = None
SYMMETRY Symmetric
INVARIANT NoFault
