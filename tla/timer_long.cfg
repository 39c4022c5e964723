CONSTANTS
  s1 = s1
  s2 = s2
  SA <- OneSA
  Timeouts <- AllTimeouts
  WordBits = 6
  TIME_S_TO_MS = 2
  Interval = 2
  UpLimit = 4
  ScanTime = 1
  Faults = FALSE
  MaxTime = 6
SPECIFICATION Spec
INVARIANTS
  LongTimeoutIsUpLimit
CHECK_DEADLOCK FALSE
