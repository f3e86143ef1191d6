CONSTANTS
  Thread = {t1, t2, t3}
  Value = {1, 2}
  Junk = Junk
  BufferSize = 2
  MaxPos = 4
SPECIFICATION Spec
SYMMETRY Threads
INVARIANTS BoundedFifo
PROPERTIES FailsOnlyAtLimit
