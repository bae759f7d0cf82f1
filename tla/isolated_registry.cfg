SPECIFICATION PlanningSpec
CONSTANTS
  Tools <- MCTools
  Caps <- MCCaps
  Scopes <- MCScopes
  Manifests <- MCManifests
  InitialDicts <- IsolationDicts
  FreshRoom = 2
  MaxJsonAttempts = 3
  MaxEdits = 1
INVARIANT
  IsolatedRegistry
