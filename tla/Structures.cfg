SPECIFICATION Spec
VIEW View
CONSTANTS
  Values = {1, 2}
  MaxElems = 5
  MaxNodes = 4
  ShardLen = 2
  DirGrow = 1
  IndexKeys = {1, 2, 3}
  MaxHeap = 7
  Length = 5
  MaxTotal = 1
  MaxEdges = 3
  MaxKey = 4
  MaxHashKey = 3
  MaxTreeKey = 6
  MaxBtreeKey = 8
  MaxCap = 8
  MaxLevel = 3
  Degree = 2
INVARIANTS Shaped AnswersRight
PROPERTIES SequenceRefined MapRefined LruRefined
CHECK_DEADLOCK FALSE
