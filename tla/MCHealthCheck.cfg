SPECIFICATION FairSpec
CONSTANTS
  Len = 2
  UnhealthyThreshold = 2
  HealthyThreshold = 3
  MaxU32 = 4
INVARIANT FlagFollowsProbes
PROPERTIES TurnsAtThreshold FlagConverges CheckerReturns
