SPECIFICATION FairSpec
CONSTANTS
  Process = {p, q}
  Artifacts = 3
  Https = {1, 3}
  Damaged = {3}
  MaxFaults = 2
INVARIANTS
  TypeOK
  AnswersAreTrue
PROPERTIES
  StoreIsImmutable
  EverythingStored
CHECK_DEADLOCK FALSE
