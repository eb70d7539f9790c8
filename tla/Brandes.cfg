CONSTANTS
  Threads = {t1, t2, t3}
  num_nodes = 5
  kBitsPerWord = 4
  local_size = 1
  Unset = Unset
  GraphsBC <- SmallGraphs
  Sources <- TwoSources
  Scale = 24
SPECIFICATION BCSpec
INVARIANTS SuccessorsMarked ScoresExact
