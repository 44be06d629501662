SPECIFICATION Spec
CONSTANTS
  a = a
  b = b
  c = c
  Keys = {a, b, c}
  Watched = c
  Home <- Colliding
  SlotCount = 2
  Burst = 1
  Rate = 3
  Second = 2
  MaxConn = 1
  BanThreshold = 1
  BanDuration = 1
  MaxTime = 2
  MaxOpen = 2
  MaxEdits = 2
  Free = Free
SYMMETRY Symmetry
INVARIANTS CountsOpen EvictionKeepsPolicy
PROPERTIES LimitsHold
