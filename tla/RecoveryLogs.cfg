CONSTANTS
  n_vertices = 4
  edge_list <- OneEdge
  MAX_LOG_ENTRIES = 2
  precision_pos = 1000000
  Garbage = Garbage
  MAX_ULOG_ENTRIES = 2
  Sources = {0, 2}
  Inserts = 6
  Uninitialised = {0}
  Beyond = {0,1}
SPECIFICATION MCSpec
PROPERTIES RecoveredLogs
