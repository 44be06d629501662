SPECIFICATION FairSpec
CONSTANTS
  Workers = {w1, w2}
  Clients = {c1, c2}
  Tasks = {t1, t2, t3}
  NoTask = NoTask
INVARIANTS
  WaitCompletes
  NoLostWakeup
  FifoDispatch
  NoUseAfterDestroy
  NodesFreedOnce
PROPERTIES
  Progress
