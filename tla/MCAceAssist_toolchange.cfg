SPECIFICATION Spec
CONSTANTS
  s0 = s0
  s1 = s1
  Slots = {s0, s1}
  None = None
  AssistIsBusy = TRUE
  RestoreAttempts = 2
  SettleAttempts = 2
  Prompt = TRUE
  Calls = {"enable", "toolchange"}
  MaxCalls = 2
  MaxFaults = 2
  MaxWire = 2
SYMMETRY Lanes
PROPERTIES
  RestoreYieldsToToolchange
