CONSTANTS
  Threads = {t1, t2}
  num_nodes = 3
  chunk_size = 4
  kBitsPerWord = 2
  local_size = 1
  Unset = Unset
  Inputs <- OneWay
SPECIFICATION BfsSpec
INVARIANTS ParentsAreNeighbours
