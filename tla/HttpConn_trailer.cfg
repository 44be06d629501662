SPECIFICATION Spec
CONSTANTS
  Requests <- WithTrailer
  PipelineBehind = {"chunked"}
  BufCap = 16
  Timeout = 1
  KeepAliveMax = 3
INVARIANTS TrailersSkipped
