CONSTANTS
  s1 = s1
  s2 = s2
  SA <- TwoSAs
  Timeouts <- FewTimeouts
  WordBits = 6
  TIME_S_TO_MS = 2
  Interval = 2
  UpLimit = 4
  ScanTime = 1
  Faults = TRUE
  MaxTime = 8
SPECIFICATION Spec
SYMMETRY Symmetry
INVARIANTS
  TypeOK
  UnusedIsNoticed
PROPERTIES
  UsedIsKept
CHECK_DEADLOCK FALSE
