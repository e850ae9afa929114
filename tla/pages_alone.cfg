CONSTANTS
  CLUSTER_SIZE = 2
  NUM_PAGES = 7
  NUM_CONSUMERS = 2
  PARTS = {0, 1}
  WARPS = {"loader", "launcher", "consumer0", "consumer1"}
  INSTRUCTIONS <- Alone
SPECIFICATION Spec
INVARIANTS
  Disciplined
  AloneIntact
  TensorAlone
