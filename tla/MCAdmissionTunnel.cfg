SPECIFICATION Spec
CONSTANTS
  Conns = {c1, c2}
  Streams = {s1}
  IPs = {i1}
  MaxClients = 2
  MaxPerIp = 1
  UsePP = FALSE
  PpTimeout = 0
INVARIANT
  PerIpLimitsConnections
