SPECIFICATION FairSpec
CONSTANTS
  Requests <- Mixed
  PipelineBehind = {"length", "chunked"}
  BufCap = 8
  Timeout = 2
  KeepAliveMax = 5
INVARIANTS InSync TimeoutsRight
PROPERTIES ConnectionEnds
