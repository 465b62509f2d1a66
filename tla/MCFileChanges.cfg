SPECIFICATION MCSpec
CONSTANTS
  LastCandidate = 1
  MaxEdits = 2
  MaxFaults = 2
  MaxOps = 2
  MaxStrange = 2
  MaxEntries = 1
  BatchNames <- TwoNames
  DeepNames = {"b"}
  MaxItems = 2
  MaxIndex = 3
  Requests = {"r1"}
  Keys = {"k1"}
  Targets = {"t1"}
  TargetOf <- UploadTo
  Bodies = {b1, b2}
  None = None
  MaxChunks = 2
  MaxActive = 1
  MaxTombstones = 1
  MaxGen = 2
  MaxCalls = 3
  MaxCrashes = 0
  MaxTampers = 1
SYMMETRY BodySymmetry
INVARIANTS
  UploadHonest
  TransferSafe
  MutationsExact
  MutationReported
  BatchOrderFree
PROPERTIES
  ImplementsAtomic
CHECK_DEADLOCK FALSE
