SPECIFICATION Spec
CONSTANTS
  Tools <- MCTools
  Caps <- MCCaps
  Scopes <- MCScopes
  Ids <- MCIds
  Manifests <- GraphManifests
  InitialRegistries <- GraphRegistries
  Plans <- GraphPlans
  Requests <- GraphRequests
  Data = {d1}
  NoData = NoData
  ObservedAt = {1}
  MaxEdits = 0
INVARIANTS
  DependenciesSettleFirst
  EveryAllowedCallSettles
PROPERTY Returns
