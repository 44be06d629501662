SPECIFICATION Spec
CONSTANTS
  QuickCutoff = 3
  MaxRange = 3
  IntLimit = 3
  RK_MOD = 7
  RK_BASE = 3
  INT64_MAX = 100
  ParCutoff = 2
  Kinds = {"sort", "select", "search", "text", "graph", "grid", "threads", "kernels"}
INVARIANTS SortsSort ThreadsSort SearchesRight KernelsAgree
PROPERTY EveryCallReturns
CHECK_DEADLOCK FALSE
