\* Two sessions that follow each other in one slot, and two sends, of which a queue of one packet may
\* refuse the second: the callbacks, and that a broken session's slot becomes free again.
CONSTANTS
  Acceptor = acceptor
  Workers = {w1, w2}
  Callers = {c1}
  Slots = {s1}
  NoSlot = noSlot
  Ops = {"send"}
  QueueCapacity = 1
  MaxBatch = 1
  Faults = {}
  MaxIds = 2
  MaxCalls = 2
SPECIFICATION FairSpec
PROPERTIES
  CallbackContract
  BrokenSessionIsRecycled
CHECK_DEADLOCK FALSE
