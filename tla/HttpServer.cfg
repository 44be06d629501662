SPECIFICATION MCSpec
CONSTANTS
  NumWorkers = 2
  Threads = {0, 1, 2}
  Slots = {c1, c2}
  Ring = 2
  BufCap = 1
  MaxPosts = 5
  MaxArrivals = 3
  MaxStarts = 2
  None = None
INVARIANTS SlotOwned LiveExact GetFinds DdosBalanced ThreadsJoined
PROPERTIES ReadyServed CallsReturn
