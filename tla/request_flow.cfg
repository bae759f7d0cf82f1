SPECIFICATION Spec
CONSTANTS
  Tools <- MCTools
  Caps <- MCCaps
  Scopes <- MCScopes
  Ids <- MCIds
  Manifests <- FlowManifests
  InitialRegistries <- FlowRegistries
  Plans <- FlowPlans
  Requests <- FlowRequests
  Data = {d1, d2}
  NoData = NoData
  ObservedAt = {1}
  MaxEdits = 2
INVARIANTS
  TypeOK
  OnlyGatedCallsStart
  ScopeHeldAtInvocation
  DeniedToolNeverRuns
  GapsAreReplanned
  PriorityModeNeverConflicts
  EverySubtaskAccounted
PROPERTIES
  ImplementsContract
  Returns
