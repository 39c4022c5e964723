CONSTANTS
  t1 = t1
  t2 = t2
  t3 = t3
  o1 = o1
  o2 = o2
  None = None
  Thread <- Threads3
  Object <- Objects
  Ordered = TRUE
  Faults = FALSE
  Outside = FALSE
  MaxRequests = 3
SPECIFICATION FairSpec
INVARIANTS
  StateMatchesSamgr
  CallbacksExclusive
  PublishedObjectCurrent
PROPERTIES
  ImplementsLifecycle
  CallsReturn
  StartServed
CHECK_DEADLOCK FALSE
