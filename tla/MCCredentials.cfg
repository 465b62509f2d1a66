SPECIFICATION MCSpec
CONSTANTS
  Operators = {"p1", "p2"}
  MaxCommands = 3
  MaxKeyFaults = 2
  Rows = {"r1", "r2", "r3"}
  Callers = {"c1", "c2"}
  Keys = {"k1", "k2"}
  MaxRows = 2
  MaxKeys = 2
  MaxFailures = 1
  MaxEdits = 1
  Callbacks = {c1, c2}
  Authorisations = {1, 2}
  MaxRecords = 2
  MaxTokenKeys = 2
  MaxRevoked = 2
  Ttl = 1
  LastInstant = 2
  MaxNonce = 4
  Sockets = {s1, s2}
  Tickets = {t1, t2}
  Slots = 1
  MaxTickets = 1
  Lifetime = 1
  LastTick = 2
  DialSlots = 1
INVARIANTS
  KeyReportsTrue
  CutoverAtomic
  OneLiveForm
  TicketOnce
  ClientUsable
CHECK_DEADLOCK FALSE
