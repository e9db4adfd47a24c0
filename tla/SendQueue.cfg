\* Two packets in a ring of four entries, every reachable arrangement.
CONSTANTS
  Packets = {p1, p2}
  Null = null
  BufSize = 4
SPECIFICATION Spec
INVARIANTS
  EntriesMatchCursors
PROPERTIES
  UnlockedSizeMissesOnlyAfterPop
  QueueContract
