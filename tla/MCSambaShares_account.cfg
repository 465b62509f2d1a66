SPECIFICATION Spec
CONSTANTS
  Ids = {"media"}
  Unsafe = {}
  Accounts = {"ann"}
  MaxShares = 1
  InitMains = {"managed"}
  MaxOps = 1
  MaxFaults = 0
  MaxEdits = 0
  MaxCrashes = 0
  MaxAccountOps = 1
INVARIANTS
  SharesNameAccounts
CHECK_DEADLOCK FALSE
