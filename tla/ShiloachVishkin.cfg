CONSTANTS
  Threads = {t1, t2}
  num_nodes = 4
  GraphsSV <- SmallGraphs
SPECIFICATION SVSpec
INVARIANTS Forest LabelsInside RoundInv ComponentsExact
PROPERTIES RootsOnlyHooked Terminates
