CONSTANTS
  Threads = {t1, t2}
  NoThread = NoThread
  segment_count = 2
  Inserts = 5
  n_vertices = 2
  edge_list <- OneEdge
  MAX_LOG_ENTRIES = 1
  precision_pos = 1000000
  Garbage = Garbage
  First = t1
  SourceSet = {0, 1}
  MaxRank = 12
  Sources <- SourcesApart
  Dsts <- DstRanks
SPECIFICATION MCSpec
INVARIANTS CounterNotNegative
CHECK_DEADLOCK FALSE
