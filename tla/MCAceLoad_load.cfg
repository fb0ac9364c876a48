SPECIFICATION Spec
CONSTANTS
  MaxFaults = 1
  Total = 45
  Motions <- HubMotions
  HubStarts <- HubCounts
  MaxRetries = 2
  EnableAttempts = 2
  CrossCap = 3
  BiteLength = 1
  BackoffCap = 2
  StepCap = 2
  GearPlaces <- NearGears
  FeedsOutlast = TRUE
  MaxCalls = 2
INVARIANTS
  TypeOK
  NothingLeftFeeding
  
  MeltZoneHot
  HugFollowsBite
  CrossingTrue
  
  UnderDeliveryAdvised
  HealthyPushQuiet
CHECK_DEADLOCK FALSE
