SPECIFICATION Spec
CONSTANTS
  Keys = {k1, k2, k3}
  Stores = {s1, s2, s3}
  Gets = {g1}
  MaxEntry = 2
  OnMemory = OnMemory
SYMMETRY Symmetry
CHECK_DEADLOCK FALSE
INVARIANTS
  FileCountExact
  LiveEntryHasFile
  NoStrandedFile
  LruWellFormed
PROPERTY
  EvictsOnlyTheObjectSeen
