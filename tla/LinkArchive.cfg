SPECIFICATION Spec
CONSTANTS
  Archives = 3
  Claims = 2
  Flows = 2
  Chunks = 3
  Batch = 2
  Stories <- Story
INVARIANTS HandedOverIsComplete SlotIsAccountedFor ImportIsWhole
PROPERTIES RetryIsNotRefused FlowsEnd
CHECK_DEADLOCK FALSE
