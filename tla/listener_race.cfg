CONSTANTS
  l1 = l1
  l2 = l2
  l3 = l3
  Listener <- Listeners2
  MayRemove = TRUE
  MayFail = FALSE
  MaxCalls = 3
  MaxChanges = 1
SPECIFICATION FairSpec
PROPERTIES
  ListenerToldAdd
CHECK_DEADLOCK FALSE
