\* A packet is pushed between another thread's look at the queue and its giving up the flag.
CONSTANTS
  Acceptor = acceptor
  Workers = {w1, w2}
  Callers = {c1, c2}
  Slots = {s1}
  NoSlot = noSlot
  Ops = {"send"}
  QueueCapacity = 1
  MaxBatch = 1
  Faults = {}
  MaxIds = 1
  MaxCalls = 3
SPECIFICATION Spec
SYMMETRY Symmetry
INVARIANT NoStrandedPacket
CHECK_DEADLOCK FALSE
