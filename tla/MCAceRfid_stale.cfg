SPECIFICATION Spec
CONSTANTS
  A = A
  B = B
  C = C
  NumSlots = 2
  Spools = {A, B}
  Form <- OneUntagged
  None = None
  MaxRetry = 1
  Crosstalk = TRUE
  SharedBus = FALSE
  IndexOmitted = FALSE
  Idents = 0
  MaxJogs = 1
  MaxSwaps = 3
  MaxFaults = 0
INVARIANTS
  NoStaleIdentity
