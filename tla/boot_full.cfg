CONSTANTS
  s1 = s1
  s2 = s2
  s3 = s3
  e1 = e1
  None = None
  SA <- SAs
  Elsewhere <- Others
  Requests <- Boots
  ExtraDatas <- Extras
  Token <- Tokens
  Number <- Numbers
  Paths <- Files
  INT_MAX = 7
  MAX_LENGTH = 12
  ARGC_MAX_COUNT = 7
  Profiles <- OnePhase
  Workers = 1
  MaxTask = 1
  Faults = FALSE
  WaitTimeouts = FALSE
  DependTimeouts = FALSE
SPECIFICATION FairSpec
PROPERTIES
  RunOnCreateRegistered
CHECK_DEADLOCK FALSE
