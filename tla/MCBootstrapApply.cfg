SPECIFICATION FairBootstrapSpec
CONSTANTS
  minecraft = minecraft
  caddy = caddy
  world = world
  edge = edge
  Run = {r, q}
  Lock = {l1, l2}
  Service = {minecraft, caddy}
  Publishing = {minecraft, caddy}
  Volume = {world, edge}
  Mounts <- MCMounts
  None = None
  MaxFaults = 3
INVARIANTS
  NoForeignVolume
PROPERTIES
  AnswersAreTrue
  BootstrapRecovers
CHECK_DEADLOCK FALSE
