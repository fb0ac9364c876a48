SPECIFICATION Spec
CONSTANTS
  s0 = s0
  s1 = s1
  Slots = {s0, s1}
  None = None
  AssistIsBusy = FALSE
  RestoreAttempts = 2
  SettleAttempts = 2
  Prompt = FALSE
  Calls = {"enable", "reenable", "disable", "startRoll", "stopRoll", "stopFeed", "move", "toolchange", "reset"}
  MaxCalls = 3
  MaxFaults = 2
  MaxWire = 2
SYMMETRY Lanes
INVARIANTS
  RollbackClaimEarned
  RollbackInv
