SPECIFICATION MCSpec
CONSTANTS
  r1 = r1
  r2 = r2
  k1 = k1
  k2 = k2
  b1 = b1
  t1 = t1
  None = None
  Requests <- MCRequests
  Keys <- MCKeys
  Targets <- MCTargets
  TargetOf <- MCTargetOf
  Bodies <- MCOneBody
  MaxChunks = 1
  MaxActive = 1
  MaxTombstones = 0
  MaxGen = 3
  MaxCalls = 3
  MaxCrashes = 1
  MaxTampers = 0
  Posters = {p1, p2}
  ChunkCount = 2
  MaxSessions = 2
  MaxPosts = 4
  SpaceWriters = {"w1", "w2", "w3"}
  Disks = {"data", "usb"}
  Headroom = 1
  SpaceSizes = {1, 2}
  MaxFree = 4
  MaxForeign = 1
  Word = 16
SYMMETRY Symmetry
INVARIANTS
  StagingKept
  LegacyUploadKept
  SpaceKept
CHECK_DEADLOCK FALSE
