\* Two threads and one exit, batches of two, two references; one block more than can ever be needed.
CONSTANTS
  Threads = {t1, t2}
  Blocks = {b1, b2, b3, b4, b5}
  Initial = {b1}
  Capacity = 2
  References = {r1, r2}
  MaxExits = 1
  NoBuffer = noBuffer
SPECIFICATION Spec
SYMMETRY PoolSymmetry
INVARIANTS
  TypeOK
  ReferencesCounted
  EachBufferInOnePlace
  BatchesComplete
  MemoryBounded
CHECK_DEADLOCK FALSE
