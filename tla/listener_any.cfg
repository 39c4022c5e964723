CONSTANTS
  l1 = l1
  l2 = l2
  l3 = l3
  Listener <- Listeners3
  MayRemove = TRUE
  MayFail = TRUE
  MaxCalls = 4
  MaxChanges = 3
SPECIFICATION FairSpec
INVARIANTS
  NoLeakedSubscription
  NotifiedIsTold
  ListIsSubscribed
PROPERTIES
  UndisturbedToldAdd
CHECK_DEADLOCK FALSE
