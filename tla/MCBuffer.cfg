CONSTANTS
  s1 = s1
  s2 = s2
  c1 = c1
  c2 = c2
  Name = {s1, s2, c1, c2}
  Mode <- Modes
  Cell = {1, 2}
  Span = {1, 2}
  Capacity = 2
  MaxCells = 3
  NULL = NULL
  Junk = Junk
  MaxOps = 6
  Item <- Items
  ItemCapacity = 15
  MaxSends = 2
SPECIFICATION Spec
INVARIANTS ContentIsUnread RangesAreContent ValuesArrive ProbedIsStored
CHECK_DEADLOCK FALSE
