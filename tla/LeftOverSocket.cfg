\* A connection attempt that fails, and the next one.
CONSTANTS
  Connector = connector
  Workers = {w1}
  Callers = {c1}
  Ops = {}
  QueueCapacity = 1
  MaxBatch = 1
  Faults = {}
  Overlap = FALSE
  ConnectsWhile = {}
  MaxConnects = 2
  MaxCalls = 0
SPECIFICATION Spec
INVARIANT
  SocketDiscarded
CHECK_DEADLOCK FALSE
