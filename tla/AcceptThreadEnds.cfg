\* Liveness of a Shutdown called at any time: the accept thread may be busy with a connection.
CONSTANTS
  Acceptor = acceptor
  Workers = {w1}
  Callers = {main, c1}
  Main = main
  WaitsForAccept = FALSE
  MaxFailures = 0
  Slots = {s1}
  NoSlot = noSlot
  Ops = {"send"}
  QueueCapacity = 1
  MaxBatch = 1
  Faults = {}
  MaxIds = 1
  MaxCalls = 0
SPECIFICATION SpecAll
PROPERTY AcceptThreadEnds
CHECK_DEADLOCK FALSE
