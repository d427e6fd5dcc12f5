SPECIFICATION Spec
CONSTANTS
  Archives = 1
  Run = {d, e}
  MaxCiphers = 2
  None = None
  Damaged = Damaged
  CrashAt = {"open", "encrypt", "hash", "record", "connect", "upload", "rename", "verify", "mark", "sidecar", "publish", "quit"}
  FaultAt = {"damage"}
  MaxFaults = 2
  Serial = FALSE
  Retention = TRUE
SYMMETRY MCSymmetry
INVARIANTS
  TypeOK
  VerifiedIsStored
PROPERTIES
  NothingReplaced
CHECK_DEADLOCK FALSE
