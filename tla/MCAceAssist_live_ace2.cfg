SPECIFICATION FairSpec
CONSTANTS
  s0 = s0
  s1 = s1
  Slots = {s0, s1}
  None = None
  AssistIsBusy = TRUE
  RestoreAttempts = 2
  SettleAttempts = 2
  Prompt = FALSE
  Calls = {"enable", "disable", "move", "toolchange"}
  MaxCalls = 2
  MaxFaults = 2
  MaxWire = 2
PROPERTIES
  LostAssistRepaired
  RestoreSettles
