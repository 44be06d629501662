SPECIFICATION Spec
CONSTANTS
  Requests <- Plain
  PipelineBehind = {"none"}
  BufCap = 12
  Timeout = 1
  KeepAliveMax = 3
INVARIANTS InSync
