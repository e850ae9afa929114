\* Two CTAs, CLC work queue, three clusters in the grid; no symmetry, for
\* temporal properties.
CONSTANTS
  CLUSTER_SIZE = 2
  WORKERS = {w1, w2}
  GLOBAL_WORK_QUEUE = TRUE
  NUM_PAGES = 1
  ROWS = 6
  ICODES <- MCIcodes
  INSTRUCTIONS <- MCUniform
  LID_RELEASE_ORDER <- MCReleaseOrder
SPECIFICATION FairSpec
INVARIANTS
  TypeOK
  ClusterRowsMatch
  WaitsExact
  NothingInFlightAtExit
PROPERTIES
  ImplementsStream
  Terminates
