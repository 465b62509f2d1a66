SPECIFICATION Spec
CONSTANTS
  Ids = {"media"}
  Unsafe = {}
  Accounts = {}
  MaxShares = 1
  InitMains = {"legacy"}
  MaxOps = 3
  MaxFaults = 0
  MaxEdits = 0
  MaxCrashes = 1
  MaxAccountOps = 0
INVARIANTS
  RowsAreTruth
CHECK_DEADLOCK FALSE
