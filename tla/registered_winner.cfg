SPECIFICATION Spec
CONSTANTS
  Tools <- MCTools
  Caps <- MCCaps
  Scopes <- MCScopes
  Ids <- MCIds
  Manifests <- ClashManifests
  InitialRegistries <- ClashRegistries
  Plans <- ClashPlans
  Requests <- ClashRequests
  Data = {d1, d2}
  NoData = NoData
  ObservedAt = {1}
  MaxEdits = 1
PROPERTY RegisteredWinner
