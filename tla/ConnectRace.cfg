\* A thread that is late at TryReleaseClient, or a call that has come and gone, meets the start of a connection
\* of an application that never calls Send or Disconnect while it connects.
CONSTANTS
  Connector = connector
  Workers = {w1, w2}
  Callers = {c1}
  Ops = {"disconnect"}
  QueueCapacity = 1
  MaxBatch = 1
  Faults = {}
  Overlap = FALSE
  ConnectsWhile = {}
  MaxConnects = 2
  MaxCalls = 1
SPECIFICATION Spec
SYMMETRY Symmetry
INVARIANT
  NoUseAfterRelease
CHECK_DEADLOCK FALSE
