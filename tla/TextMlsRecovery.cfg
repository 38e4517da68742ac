SPECIFICATION Spec
CONSTANTS
  None = None
  Clients = {"a", "b"}
  Others = {}
  Origins = {{"a"}}
  Leavers = {}
  Kicked = {}
  Exporters = {}
  Legacy = {FALSE}
  Limit = 7
  PutNewerOnly = TRUE
  MaxFails = 2
  MaxLog = 7
CHECK_DEADLOCK FALSE
PROPERTY SendsGetThrough
