CONSTANTS
  MaxStarts = 2
  Faults = TRUE
  IpcThread = {t1, t2}
  Descriptor = {3, 4}
  None = none
  Others = others
  NoThread = nothread
  ARG_MAX_COUNT = 4
  Lines <- mcLines
  Workloads <- mcWorkloads
  ReportTimes = {0, 3}
  ReportSize = 3
  Word = 16
SPECIFICATION SvcFairSpec
INVARIANTS
  BufferOutlivesWrites
  StatisticsAreStill
  PendingIsCurrent
  BufferIsTimed
  DescriptorsOwned
  
  HandedOnce
  SvcIsTrue
  ReportIsRight
PROPERTIES
  CollectionEnds
  SvcEnds
CHECK_DEADLOCK FALSE
