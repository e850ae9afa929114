CONSTANTS
  SM_COUNT = 2
  CLUSTER_SIZE = 1
  MAX_SRC_TENSORS = 2
  MAX_DST_TENSORS = 2
  MAX_SRC_BARRIERS = 4
  MAX_DST_BARRIERS = 4
  MAX_TENSOR_ALLOCATIONS = 8
  GRAPHS <- ReduceGraphs
  GLOBAL_WORK_QUEUE = FALSE
  LEAD = 2
  WORKERS = {"loader", "consumer"}
SPECIFICATION Spec
INVARIANTS
  ReadsSettled
