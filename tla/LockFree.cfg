SPECIFICATION MCFairSpec
CONSTANTS
  Callers = {t1, t2}
  Threads = {t1, t2}
  Nodes = {n1, n2, n3}
  Nil = Nil
  MaxOps = 7
  Addr = {1, 2, 3}
  Values = {1, 2}
  MaxCalls = 5
  Capacity = 2
  Points = {0, 1, 2}
  Overlap = {}
INVARIANTS StackShape NodesConserved ContainersKept
PROPERTIES CallsReturn
