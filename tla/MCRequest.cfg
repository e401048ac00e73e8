SPECIFICATION Spec
CONSTANTS
  None = None
  s1 = s1
  s2 = s2
  Slots <- MCSlots
  Canon <- MCCanon
  Nets <- MCNets
  Lower <- MCLowerApps
  Shape <- MCShape
  HeaderNames <- MCHeaderNames
  Scenarios <- MCScenarios
  Kibi = 2
  MaxU64 = 15
  DefaultBody = 8
  MaxStored = 2
INVARIANTS
  AnsweredByOwnRoute
  ChainIsTrustedSuffix
  HopStateStaysOnHop
  StickyStaysPrivate
  AcceptedConfigServes
SYMMETRY Symmetry
CHECK_DEADLOCK FALSE
