CONSTANTS
  Keys = {"k1", "k2"}
  Hash <- HashOf
  Values = {"a", "huge"}
  Bits <- BitsFor
  RootBits = 0
  FileBits = 2
  MaxBits = 5
  SlotsPerUnit = 4
  SectorBits = 0
  GrowAt <- Grow
  CleanAt <- Clean
  Stale = FALSE
  Unmarked = FALSE
SPECIFICATION Spec
INVARIANT FsckPasses
