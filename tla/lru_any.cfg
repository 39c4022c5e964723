CONSTANTS
  k1 = k1
  k2 = k2
  k3 = k3
  v1 = v1
  v2 = v2
  Key <- Keys
  Value <- Values
  Nothing = Nothing
  SizeGiven = 2
  ExpiresGiven <- ExpiresAll
  MaxTime = 3
  MaxUses = 5
SPECIFICATION Spec
INVARIANTS
  StructuresAgree
PROPERTIES
  ImplementsStore
CHECK_DEADLOCK FALSE
