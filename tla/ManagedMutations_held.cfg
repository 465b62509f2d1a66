SPECIFICATION MutationSpec
CONSTANTS
  MaxOps = 2
  MaxStrange = 2
  MaxEntries = 1
INVARIANT HeldRemovalReported
CHECK_DEADLOCK FALSE
