SPECIFICATION Spec
CONSTANTS
  MaxFaults = 2
  Slot = 0
  ToolOffset = 4
  Unreadable = Unreadable
  Indices <- NextTools
  Cap = 5
  StallWindow = 2
  GearClear = 4
  Attempts = 2
  Places <- NearPlaces
  MaxCalls = 2
INVARIANTS
  TypeOK
  PullWarranted
  GroundWitnessed
  OvershootBounded
  VerdictTrue
  LaneLeftStill
  OneUnwindPerSilence
PROPERTIES
  Implements
CHECK_DEADLOCK FALSE
