SPECIFICATION FairSpec
CONSTANTS
  Lock <- MCReleases
  InitialLock <- MCInitialLock
  Proc = {c1, c2}
  NoProc = NoProc
  NoPlan = NoPlan
  Torn = Torn
  Missing = Missing
  NoLock = NoLock
  CrashAt = {"plan", "check", "pull", "stop", "record-stopped", "order", "lock", "inputs", "render", "swap", "record-published", "start", "doctor", "record-result"}
  FaultAt = {"pull", "stop", "record-stopped", "order", "lock", "inputs", "render", "swap", "record-published", "start", "doctor"}
  MaxCrashes = 2
  Disturbances = {"upgrade"}
INVARIANT NoSilentOutage
PROPERTIES
  AtomicUpdate
  UpdateSettles
CHECK_DEADLOCK FALSE
