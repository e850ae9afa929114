CONSTANTS
  SM_COUNT = 2
  CLUSTER_SIZE = 2
  MAX_SRC_TENSORS = 2
  MAX_DST_TENSORS = 2
  MAX_SRC_BARRIERS = 3
  MAX_DST_BARRIERS = 3
  MAX_TENSOR_ALLOCATIONS = 5
  NUM_OPS = 4
  DAGS <- MCDags
SPECIFICATION Spec
CHECK_DEADLOCK FALSE
INVARIANTS
  TypeOK
  RaceFree
  TargetsExact
  WaitsForEarlierRows
  OutputsKept
