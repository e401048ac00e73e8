SPECIFICATION FairSpec
CONSTANTS
  FrameSizes = {1, 2}
  MaxFrames = 4
  Limits = {0, 2, 3, Unlimited}
  Unlimited = Unlimited
  Capacity = 1
CHECK_DEADLOCK FALSE
INVARIANTS
  WithinLimit
  CleanEndIsWhole
  RemovesOnlyCorrupted
PROPERTIES
  NothingAfterError
  RelaySettles
