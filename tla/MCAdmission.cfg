SPECIFICATION FairSpec
CONSTANTS
  Conns = {c1, c2, c3}
  Streams = {s1}
  IPs = {i1}
  MaxClients = 1
  MaxPerIp = 2
  UsePP = TRUE
  PpTimeout = 0
INVARIANTS
  CountExact
  ServedWithinLimit
  PerIpExact
  PendingBounded
PROPERTY
  PendingEnds
