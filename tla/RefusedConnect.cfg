CONSTANTS
  Connector = connector
  Workers = {w1}
  Callers = {c1}
  Ops = {}
  QueueCapacity = 1
  MaxBatch = 1
  Faults = {}
  Overlap = FALSE
  ConnectsWhile = {"connecting"}
  MaxConnects = 2
  MaxCalls = 0
SPECIFICATION Spec
PROPERTY
  RefusedConnectHarmless
CHECK_DEADLOCK FALSE
