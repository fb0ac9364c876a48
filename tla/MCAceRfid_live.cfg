SPECIFICATION FairSpec
CONSTANTS
  A = A
  B = B
  C = C
  NumSlots = 2
  Spools = {A, B}
  Form <- NativeAndRaw
  None = None
  MaxRetry = 1
  Crosstalk = TRUE
  SharedBus = FALSE
  IndexOmitted = FALSE
  Idents = 0
  MaxJogs = 1
  MaxSwaps = 2
  MaxFaults = 0
PROPERTIES
  HoldsReleased
  RefreshReachesAll
  ReadingEnds
