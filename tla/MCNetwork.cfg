SPECIFICATION MCSpec
CONSTANTS
  Shares <- MCShares
  Hidden <- MCHidden
  MaxBoot = 2  MaxId = 3  ConnectionCrashes = 1  ConnectionFaults = 1  MaxAdmin = 2
  CloudCalls = 2  CloudStrange = 2  Frames = 3
  FileSize = 3  FramePayload = 2  ListBytes = {0, 1, 2, 3, 4, 5, 7}
  MaxListPayload = 5  MaxCalls = 3  Memory = {0, 1, 2, 3, 4, 5}  Headroom = 2  Ceiling = 5
  Connections = {"r1", "r2"}  ConnectionLimit = 2  DownloadSlots = 1
  BodySize = 3  Grace = 1  Idle = 3  Rate = 2  Credit = 1  Horizon = 3
  Files = {"f1", "f2"}  Contents = {"v1", "v2", "malformed"}  MaxChanges = 3
INVARIANTS
  MountsAccounted
  MountedHidesNothing
  DialogueFaithful
  PortalOrderly
  VerifierCurrent
PROPERTIES
  RetriesFinish
  DeletedUnmounted
  TermEnds
CHECK_DEADLOCK FALSE
