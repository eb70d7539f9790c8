CONSTANTS
  Threads = {t1, t2}
  num_nodes = 6
  chunk_size = 3
  kBitsPerWord = 3
  local_size = 1
  Unset = Unset
  Inputs <- Searches
SPECIFICATION BfsSpec
INVARIANTS LevelByLevel QueueFits VerifierAccepts
PROPERTIES Terminates
