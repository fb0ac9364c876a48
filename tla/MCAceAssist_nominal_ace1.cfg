SPECIFICATION Spec
CONSTANTS
  s0 = s0
  s1 = s1
  Slots = {s0, s1}
  None = None
  AssistIsBusy = FALSE
  RestoreAttempts = 2
  SettleAttempts = 2
  Prompt = TRUE
  Calls = {"enable", "disable", "startRoll", "stopRoll", "move"}
  MaxCalls = 6
  MaxFaults = 0
  MaxWire = 2
SYMMETRY Lanes
INVARIANTS
  FeedClaimBacked
PROPERTIES
  MotionMeetsFreeDevice
