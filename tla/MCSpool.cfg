SPECIFICATION FairSpec
CONSTANTS
  Lens = {0, 1, 2}
  MaxEachSize = 3
  MaxOnMemory = 1
  Capacity = 1
  MaxFrames = 4
CHECK_DEADLOCK FALSE
INVARIANTS
  RelayIsFaithful
  MemoryIsBounded
PROPERTIES
  ImplementsContract
  RelayGoesOn
