CONSTANTS
  t1 = t1
  t2 = t2
  t3 = t3
  o1 = o1
  o2 = o2
  None = None
  Thread <- Threads3
  Object <- Objects
  Ordered = FALSE
  Faults = TRUE
  Outside = TRUE
  MaxRequests = 4
SPECIFICATION Spec
SYMMETRY Symmetry
INVARIANTS
  OnStartExclusive
  RegisteredIsLoaded
  ReasonNotStale
CHECK_DEADLOCK FALSE
