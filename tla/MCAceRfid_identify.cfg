SPECIFICATION Spec
CONSTANTS
  A = A
  B = B
  C = C
  NumSlots = 2
  Spools = {A, B, C}
  Form <- Odd
  None = None
  MaxRetry = 1
  Crosstalk = TRUE
  SharedBus = FALSE
  IndexOmitted = FALSE
  Idents = 1
  MaxJogs = 1
  MaxSwaps = 2
  MaxFaults = 1
INVARIANTS
  TypeOK

  
