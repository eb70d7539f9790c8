CONSTANTS
  Threads = {t1, t2}
  NoThread = NoThread
  segment_count = 2
  Inserts = 4
  n_vertices = 4
  edge_list <- OneEdge
  MAX_LOG_ENTRIES = 1
  precision_pos = 1000000
  Garbage = Garbage
  First = t1
  SourceSet = {1, 2}
  MaxRank = 12
  Sources <- SourcesAll
  Dsts <- DstRanks
SYMMETRY ThreadSymmetry
SPECIFICATION MCSpec
PROPERTIES BoundaryFixed StoreRefined
CHECK_DEADLOCK FALSE
