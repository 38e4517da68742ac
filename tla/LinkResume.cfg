SPECIFICATION Spec
CONSTANTS
  Archives = 3
  Claims = 2
  Flows = 2
  Chunks = 3
  Batch = 2
  Stories <- Story
INVARIANTS ArchiveOpens
CHECK_DEADLOCK FALSE
