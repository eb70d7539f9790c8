CONSTANTS
  t1 = t1
  t2 = t2
  t3 = t3
  Threads = {t1, t2, t3}
  num_nodes = 5
  Shares <- Lists
  block_size = 2
  symmetrize_ = FALSE
SPECIFICATION CsrSpec
INVARIANTS SortedRuns
