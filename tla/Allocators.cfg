SPECIFICATION Spec
CONSTANTS
  Threads = {1, 2}
  MaxCalls = 5
  BlockSize = 2
  Blocks = 3
  PerBucket = 2
  Kinds = {"pool", "cpool", "slab", "cslab", "arena", "carena", "buddy", "cbuddy"}
INVARIANTS BlocksApart BlocksConserved BackingReturned
