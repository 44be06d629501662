SPECIFICATION FairSpec
CONSTANTS
  Threads = {t1, t2, t3}
  Values = {v1, v2}
  Capacity = 2
  MaxOps = 5
  None = None
INVARIANT CellExclusive
PROPERTIES ImplementsFIFO RefusalJustified CallsReturn
