SPECIFICATION Spec
CONSTANTS
  None = None
  Clients = {"a", "b"}
  Others = {"g"}
  Origins = {{}, {"a", "g"}}
  Leavers = {"g"}
  Kicked = {"b"}
  Exporters = {}
  Legacy = {FALSE, TRUE}
  Limit = 5
  PutNewerOnly = TRUE
  MaxFails = 1
  MaxLog = 5
CHECK_DEADLOCK FALSE
INVARIANT MergedIsAccepted
INVARIANT SendIsCurrent
INVARIANT HalfJoinIsNoticed
