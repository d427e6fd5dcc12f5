SPECIFICATION Spec
CONSTANTS
  Lock <- MCReleases
  InitialLock <- MCInitialLock
  Proc = {c1, c2}
  NoProc = NoProc
  NoPlan = NoPlan
  Torn = Torn
  Missing = Missing
  NoLock = NoLock
  CrashAt = {"start", "doctor", "rollback"}
  FaultAt = {"start", "doctor"}
  MaxCrashes = 1
  Disturbances = {}
PROPERTY CompleteMeansTarget
CHECK_DEADLOCK FALSE
