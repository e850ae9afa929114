CONSTANTS
  CLUSTER_SIZE = 1
  NUM_PAGES = 7
  NUM_CONSUMERS = 2
  PARTS = {0, 1, 2, 3, 4, 5}
  LEAD = 2
  WARPS = {"loader", "launcher", "consumer0", "consumer1"}
  PROGRAMS <- TilePrograms
SPECIFICATION FairSpec
INVARIANTS
  TypeOK
  PagesIntact
  NoLateSignal
PROPERTIES
  ImplementsPool
  Terminates
