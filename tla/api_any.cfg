CONSTANTS
  d1 = d1
  d2 = d2
  r1 = r1
  r2 = r2
  c1 = c1
  c2 = c2
  Descriptor <- Descriptors
  Code <- Codes
  Request <- Requests
  Client <- Clients
  None = None
  Size = 1
  Expires <- ExpireTimes
  MaxTime = 2
  MaxCalls = 5
SPECIFICATION Spec
SYMMETRY Symmetry
INVARIANTS
  AnswerIsOwn
  AnswerIsRecent
  ClearForgets
CHECK_DEADLOCK FALSE
