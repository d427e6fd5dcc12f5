SPECIFICATION Spec
CONSTANTS
  Lock <- MCIdentities
  InitialLock <- MCInitialLock
  Proc = {c1, c2}
  NoProc = NoProc
  NoPlan = NoPlan
  Torn = Torn
  Missing = Missing
  NoLock = NoLock
  CrashAt = {"plan", "activate", "check", "pull", "stop", "record-stopped", "order", "lock", "inputs", "render", "swap", "record-published", "start", "doctor", "record-result", "rollback"}
  FaultAt = {"activate", "pull", "stop", "record-stopped", "order", "lock", "inputs", "render", "swap", "record-published", "start", "doctor", "record-result"}
  MaxCrashes = 1
  Disturbances = {"edit", "upgrade"}
SYMMETRY MCSymmetry
INVARIANTS
  TypeOK
  OneOpenTransaction
PROPERTIES
  ResultsAreTrue
  
  StatefulIdentityKept
CHECK_DEADLOCK FALSE
