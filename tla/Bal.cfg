CONSTANTS
  t1 = t1
  t2 = t2
  Threads = {t1, t2}
  num_nodes = 3
  BLOCK_SIZE = 2
  BaseShare <- BaseParts
  DynamicShare <- DynamicParts
  Mappings <- OnePlace
SPECIFICATION BalSpec
INVARIANTS EdgesCounted
PROPERTIES InsertsAtomically RestartKeeps TornCopyReads
