SPECIFICATION Spec
CONSTANTS
  Clients = {a}
  Requests = {r1, r2}
  Len = 3
  MaxUsize = 4
  Policies = {"first", "round_robin", "random", "sticky"}
  None = None
  Stale = Stale
SYMMETRY Symmetry
INVARIANTS
  PicksHealthy
  Balanced
  StickyFollowed
  StickyNamesServer
