\* Shutdown called while the accept thread is blocked in accept: what it leaves behind, and that
\* it returns, with a caller that sends to or disconnects the session at the same time.
CONSTANTS
  Acceptor = acceptor
  Workers = {w1, w2}
  Callers = {main, c1}
  Main = main
  WaitsForAccept = TRUE
  MaxFailures = 1
  Slots = {s1}
  NoSlot = noSlot
  Ops = {"send", "disconnect"}
  QueueCapacity = 1
  MaxBatch = 1
  Faults = {}
  MaxIds = 1
  MaxCalls = 1
SPECIFICATION SpecAll
INVARIANTS
  SInv
  NothingLeftBehind
  FreedUnused
PROPERTIES
  AcceptThreadEnds
  ShutdownReturns
CHECK_DEADLOCK FALSE
