\* The timeout array is too small for the waiters.
SPECIFICATION Spec
CONSTANTS
  Waiters = {w1, w2, w3}
  TimeoutSlots = 2
  MaxDelay = 2
  MaxChain = 2
  Main = Main
  None = None
INVARIANT NoFault
