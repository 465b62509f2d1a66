SPECIFICATION FairSpec
CONSTANTS
  h1 = h1 w1 = w1 w2 = w2 n1 = n1 n2 = n2
  Workers <- TwoWorkers
  Notifiers <- TwoNotifiers
  Handlers <- OneHandler
  MaxTasks = 2
  MaxQueued = 2
  NumItems = 2
  MaxFailures = 1
  MaxPanics = 1
INVARIANTS
  OperationsHonest
  NoStrandedTask
  NeverForgotten
PROPERTIES
  NeverRegresses
  RequestServed
CHECK_DEADLOCK FALSE
