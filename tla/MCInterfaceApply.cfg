SPECIFICATION FairSpec
CONSTANTS
  home1 = home1
  home1b = home1b
  home2 = home2
  class1 = class1
  Order = {home1, home1b, home2, class1}
  Family <- MCFamily
  Revision <- MCRevision
  Services <- MCServices
  None = None
  MaxFaults = 3
INVARIANTS
  OneFamilyPerWorld
PROPERTIES
  NeverOlderThanRecorded
  Reconverges
CHECK_DEADLOCK FALSE
