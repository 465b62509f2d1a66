SPECIFICATION Spec
CONSTANTS
  h1 = h1 w1 = w1 w2 = w2 n1 = n1 n2 = n2
  Workers <- TwoWorkers
  Notifiers <- TwoNotifiers
  Handlers <- OneHandler
  MaxTasks = 1
  MaxQueued = 1
  NumItems = 1
  MaxFailures = 1
  MaxPanics = 0
INVARIANT FailuresStopNothing
CHECK_DEADLOCK FALSE
