\* Two CTAs, static schedule, six waves and the stop signal.
CONSTANTS
  CLUSTER_SIZE = 2
  WORKERS = {w1, w2}
  GLOBAL_WORK_QUEUE = FALSE
  NUM_PAGES = 3
  ROWS = 12
  ICODES <- MCIcodes
  INSTRUCTIONS <- MCUniform
  LID_RELEASE_ORDER <- MCReleaseOrder
SYMMETRY WarpSymmetry
SPECIFICATION Spec
INVARIANTS
  SlotIntact
  ClusterPublished
  PageOrderReplays
