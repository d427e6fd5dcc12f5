SPECIFICATION Spec
CONSTANTS
  Command = {c1, c2, c3}
  Archive = {a1, a2}
  Original = Original
  NoDir = NoDir
  NoArchive = NoArchive
  Roots = 3
  Present = {1, 2}
  FaultAt = {"mkdir", "unzip", "check", "out", "in", "chown", "rmdir", "aside", "return", "rm", "inspect", "stop", "start", "doctor"}
  Serial = TRUE
  MaxCrashes = 1
SYMMETRY MCSymmetry
INVARIANTS
  TypeOK
  PriorWorldKept
  NeverRunsMixed
PROPERTIES
  RestoredIsComplete
  VerifiedRollback
CHECK_DEADLOCK FALSE
