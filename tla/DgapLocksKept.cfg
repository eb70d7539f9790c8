CONSTANTS
  Threads = {t1, t2}
  NoThread = NoThread
  segment_count = 4
  Inserts = 28
  n_vertices = 16
  edge_list <- OneEdge
  MAX_LOG_ENTRIES = 8
  precision_pos = 1000000
  Garbage = Garbage
  First = t1
  SourceSet = {0, 1}
  MaxRank = 50
  Sources <- SourcesApart
  Dsts <- DstRanks
SPECIFICATION MCSpec
INVARIANTS NoLockKept
CHECK_DEADLOCK FALSE
