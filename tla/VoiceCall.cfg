SPECIFICATION CallSpec
CONSTANTS
  Order <- ABC
  Starts = {{}, {"a", "b"}, {"a"}}
  Keepers = {{"c"}}
  MaxDone = 2
  MaxMishaps = 1
  MaxLog = 2
  Me = "a"
  MaxFlows = 3
  Inputs = {"m", "n"}
  Stories <- Tales
CHECK_DEADLOCK FALSE
INVARIANT OneVoiceGroup
INVARIANT KeyIsAccepted
INVARIANT RemoverRotates
INVARIANT CaptureStops
INVARIANT MutedIsSilent
