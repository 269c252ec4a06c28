CONSTANTS
  Keys = {"k1", "k2"}
  Hash <- HashOf
  Values = {"a", "b", "large"}
  Bits <- BitsFor
  RootBits = 0
  FileBits = 2
  MaxBits = 4
  SlotsPerUnit = 4
  SectorBits = 0
  GrowAt <- Grow
  CleanAt <- Clean
  Stale = FALSE
  Unmarked = FALSE
SPECIFICATION Spec
INVARIANT MapIsSound
PROPERTY ImplementsDurableMap
