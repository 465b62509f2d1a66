SPECIFICATION MCSpec
CONSTANTS
  Ids = {"media", "docs", "old"}
  Unsafe = {"old"}
  Accounts = {"ann"}
  MaxShares = 1
  InitMains = {"managed", "external", "legacy"}
  MaxOps = 3
  MaxFaults = 2
  MaxEdits = 1
  MaxCrashes = 1
  MaxAccountOps = 1
  PublishOps = 2
  PublishEdits = 3
  PublishFaults = 2
  PublishCrashes = 1
INVARIANTS
  PublicationSafe
  SharesAgree
PROPERTIES
  LegacySaved
CHECK_DEADLOCK FALSE
