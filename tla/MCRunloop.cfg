\* The timeout array never grows while the loop walks it.
SPECIFICATION Spec
CONSTANTS
  Waiters = {w1, w2}
  TimeoutSlots = 4
  MaxDelay = 2
  MaxChain = 2
  Main = Main
  None = None
INVARIANT SlotsAreSound
PROPERTY OnlyPolledRun
PROPERTY EveryTimeoutEnds
