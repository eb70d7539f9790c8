CONSTANTS
  Threads = {t1}
  NoThread = NoThread
  segment_count = 2
  Inserts = 14
  n_vertices = 4
  edge_list <- OneEdge
  MAX_LOG_ENTRIES = 2
  precision_pos = 1000000
  Garbage = Garbage
  First = t1
  SourceSet = {0, 1, 2, 3}
  MaxRank = 20
  Sources <- SourcesAll
  Dsts <- DstRanks
SPECIFICATION MCSpec
INVARIANTS ResizeCopiesCells
