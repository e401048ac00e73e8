SPECIFICATION MCSpec
CONSTANTS
  Names = {a, m}
  Mutual = {m}
  Issues = {i, j}
  Renewed = j
  Junk = Junk
  None = None
  MaxWrites = 1
CHECK_DEADLOCK FALSE
INVARIANT OneTicketer
PROPERTIES DomainStays Converges
