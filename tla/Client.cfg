\* Two connections in turn, every API call at any time, also late and across them, and calls of the
\* operating system that fail at every step.
CONSTANTS
  Connector = connector
  Workers = {w1, w2}
  Callers = {c1}
  Ops = {"send", "disconnect"}
  QueueCapacity = 1
  MaxBatch = 1
  Faults = {"socket", "prepare", "connect", "wsa"}
  Overlap = TRUE
  ConnectsWhile = {}
  MaxConnects = 2
  MaxCalls = 2
SPECIFICATION FairSpec
INVARIANTS
  InvariantWhileIntact
  CountsWhileIntact
  UsersSafeWhileIntact
  OneOwnerWhileIntact
  OneSenderWhileIntact
  SeparateWhileIntact
PROPERTIES
  NeverBecomesMute
  CallbackContract
  BrokenConnectionEnds
CHECK_DEADLOCK FALSE
