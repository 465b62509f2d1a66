SPECIFICATION MCSpec
CONSTANTS
  Requests = {r1, r2}
  MaxActive = 1
  QuarantineLimit = 1
  NoOne = NoOne
  OutputCap = 1
  Clients = {c1, c2}
  BroadcastCap = 2
  SendCap = 4
  NoClient = none
  GatewayPorts = {80, 81}
  LegacyPort = 81
  NoPort = 0
  RouteCount = 2
  BusTries = 2
  MaxUpsets = 3
INVARIANTS
  StartupSafe
  UnreapedBound
  DescriptorsKept
  CloseReachesEveryChild
PROPERTIES
  StartsAgain
  CloseDrains
  SessionDrains
  DepartureTold
CHECK_DEADLOCK FALSE
