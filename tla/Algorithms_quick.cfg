SPECIFICATION Spec
CONSTANTS
  QuickCutoff = 16
  MaxRange = 3
  IntLimit = 3
  RK_MOD = 7
  RK_BASE = 3
  INT64_MAX = 100
  ParCutoff = 2
  Kinds = {"long"}
INVARIANT QuickSorts
CHECK_DEADLOCK FALSE
