CONSTANTS
  Value = {1, 2}
  Junk = Junk
  Chunk = {k1, k2, k3, k4, k5}
  NoChunk = NoChunk
  N = 2
  MaxWrites = 7
  MaxInFlight = 4
SPECIFICATION Spec
SYMMETRY Blocks
INVARIANTS OneHolder
PROPERTIES ImplementsAtomicPipe
