SPECIFICATION Spec
CONSTANTS
  A = A
  B = B
  C = C
  NumSlots = 3
  Spools = {A, B}
  Form <- Untrusted
  None = None
  MaxRetry = 1
  Crosstalk = TRUE
  SharedBus = TRUE
  IndexOmitted = TRUE
  Idents = 0
  MaxJogs = 1
  MaxSwaps = 2
  MaxFaults = 1
INVARIANTS
  HeatIsFromTag
  SkuHeldByOneLane
