SPECIFICATION FairSpec
CONSTANTS
  Names = {a, m}
  Mutual = {m}
  Issues = {i, j}
  Junk = Junk
  None = None
  MaxWrites = 1
CHECK_DEADLOCK FALSE

PROPERTY LimitsApply
