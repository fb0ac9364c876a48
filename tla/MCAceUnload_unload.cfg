SPECIFICATION Spec
CONSTANTS
  MaxFaults = 1
  MaxRetries = 2
  MaxCalls = 2
INVARIANTS
  TrueMeansUnloaded
  NothingLeftWinding
  
  AssistGivenBack
PROPERTIES
  UnloadEnds
CHECK_DEADLOCK FALSE
