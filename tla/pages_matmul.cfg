CONSTANTS
  CLUSTER_SIZE = 2
  NUM_PAGES = 7
  NUM_CONSUMERS = 1
  PARTS = {0, 1}
  LEAD = 2
  WARPS = {"loader", "launcher", "consumer0"}
  PROGRAMS <- MatmulPrograms
SPECIFICATION Spec
INVARIANTS
  PagesIntact
  PageWaitsExact
