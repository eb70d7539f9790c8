CONSTANTS
  n_vertices = 2
  edge_list <- OneEdge
  MAX_LOG_ENTRIES = 2
  precision_pos = 1000000
  Garbage = Garbage
  MAX_ULOG_ENTRIES = 2
  Sources = {0, 1}
  Inserts = 8
  Uninitialised = {0}
  Beyond = {0,1}
SPECIFICATION MCSpec
INVARIANTS CapacityOfArray
