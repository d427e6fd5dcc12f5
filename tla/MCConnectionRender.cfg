SPECIFICATION Spec
CONSTANTS
  Name <- MCName
  File <- MCFile
  Fold <- MCFold
  Host <- MCHost
  McRemoteFile = 5
  Stored = {1, 2}
  Revision = {16, 18, 20}
  RouteFiles <- MCRouteFiles
  ConnectionFiles <- MCConnectionFiles
  PluginFiles <- MCPluginFiles
  RoleLists <- MCRoleLists
  VolumeLists <- MCVolumeLists
  LanFiles <- MCLanFiles
  InterfaceOrders <- MCInterfaceOrders
  Start <- MCStart
  None = None
  MaxEdits = 2
INVARIANTS
  EveryOfferWorks
  EveryLinkIsServed
  RenderedPassesDoctor
PROPERTIES
  SameInputsSameLock
