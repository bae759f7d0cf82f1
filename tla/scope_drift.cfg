SPECIFICATION Spec
CONSTANTS
  Tools <- MCTools
  Caps <- MCCaps
  Scopes <- MCScopes
  Ids <- MCIds
  Manifests <- DriftManifests
  InitialRegistries <- FlowRegistries
  Plans <- FlowPlans
  Requests <- DriftRequests
  Data = {d1}
  NoData = NoData
  ObservedAt = {1}
  MaxEdits = 1
INVARIANT ScopeHeldAtInvocation
