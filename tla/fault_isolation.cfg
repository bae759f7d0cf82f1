SPECIFICATION Spec
CONSTANTS
  Tools <- MCTools
  Caps <- MCCaps
  Scopes <- MCScopes
  Ids <- MCIds
  Manifests <- FlowManifests
  InitialRegistries <- FlowRegistries
  Plans <- FlowPlans
  Requests <- FlowRequests
  Data = {d1}
  NoData = NoData
  ObservedAt = {1}
  MaxEdits = 0
INVARIANT FaultIsolation
