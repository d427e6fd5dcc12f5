SPECIFICATION FairSpec
CONSTANTS
  minecraft = minecraft
  caddy = caddy
  world = world
  edge = edge
  Run = {r}
  Lock = {l1, l2}
  Service = {minecraft, caddy}
  Publishing = {minecraft, caddy}
  Volume = {world, edge}
  Mounts <- MCMounts
  None = None
  MaxFaults = 3
  Caddy = caddy
  MaxTrees = 4
  MaxSyncs = 2
INVARIANTS
  HomepageTypeOK
  ServedIsOnDisk
PROPERTIES
  AnswersAreTrue
  SyncedIsServed
  HomepageComesBack
CHECK_DEADLOCK FALSE
