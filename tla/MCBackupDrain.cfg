SPECIFICATION FairSpec
CONSTANTS
  Archives = 2
  Run = {d}
  MaxCiphers = 2
  None = None
  Damaged = Damaged
  CrashAt = {"open", "encrypt", "connect", "upload", "rename", "verify", "mark", "quit"}
  FaultAt = {"encrypt", "connect", "upload", "rename", "verify"}
  MaxFaults = 3
  Serial = TRUE
  Retention = TRUE
INVARIANTS
  SentIsRecoverable
PROPERTIES
  CiphertextKept
  EveryArchiveBackedUp
CHECK_DEADLOCK FALSE
