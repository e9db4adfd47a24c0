\* Every API call, with current and stale ids, on two sessions that follow each other in one slot;
\* a queue of two packets, batches of one and two, and every call of the operating system that may fail.
CONSTANTS
  Acceptor = acceptor
  Workers = {w1, w2}
  Callers = {c1, c2}
  Slots = {s1}
  NoSlot = noSlot
  Ops = {"send", "disconnect", "address"}
  QueueCapacity = 2
  MaxBatch = 2
  Faults = {"setup", "wsa", "post"}
  MaxIds = 2
  MaxCalls = 2
SPECIFICATION Spec
SYMMETRY Symmetry
INVARIANTS
  TypeOK
  RefCountExact
  NoUseAfterRelease
  SlotHasOneOwner
  OneReceiver
  PacketsReachTheirSession
  OneSender
  SentPacketsStayQueued
  FlagNotLeaked
  SessionCountExact
  IInv
CHECK_DEADLOCK FALSE
