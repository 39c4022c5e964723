CONSTANTS
  s1 = s1
  s2 = s2
  s3 = s3
  e1 = e1
  None = None
  SA <- SAs
  Elsewhere <- Others
  Requests <- AllRequests
  ExtraDatas <- Extras
  Token <- Tokens
  Number <- Numbers
  Paths <- Files
  INT_MAX = 7
  MAX_LENGTH = 12
  ARGC_MAX_COUNT = 7
  Profiles <- MixedProfiles
  Workers = 2
  MaxTask = 2
  Faults = TRUE
  WaitTimeouts = TRUE
  DependTimeouts = TRUE
SPECIFICATION FairSpec
INVARIANTS
  CounterBacked
  PhaseOrder
  EverySaServed
  StartedAsAsked
  ReasonReachesAbility
PROPERTIES
  BootCompletes
CHECK_DEADLOCK FALSE
