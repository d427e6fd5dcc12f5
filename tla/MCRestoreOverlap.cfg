SPECIFICATION FairSpec
CONSTANTS
  Command = {c1, c2}
  Archive = {a1}
  Original = Original
  NoDir = NoDir
  NoArchive = NoArchive
  Roots = 2
  Present = {1, 2}
  FaultAt = {"stop", "start", "doctor", "timeout"}
  Serial = FALSE
  MaxCrashes = 0
INVARIANT NothingDeleted
PROPERTY NoSilentStop
CHECK_DEADLOCK FALSE
