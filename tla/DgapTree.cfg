CONSTANTS
  Threads = {t1}
  NoThread = NoThread
  segment_count = 4
  Inserts = 26
  n_vertices = 16
  edge_list <- OneEdge
  MAX_LOG_ENTRIES = 8
  precision_pos = 1000000
  Garbage = Garbage
  First = t1
  SourceSet = {0, 5}
  MaxRank = 30
  Sources <- SourcesAll
  Dsts <- DstRanks
SPECIFICATION MCSpec
INVARIANTS Layout CountsExact
PROPERTIES StoreRefined
