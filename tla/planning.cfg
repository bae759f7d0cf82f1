SPECIFICATION PlanningSpec
CONSTANTS
  Tools <- MCTools
  Caps <- MCCaps
  Scopes <- MCScopes
  Manifests <- MCManifests
  InitialDicts <- PlanningDicts
  FreshRoom = 2
  MaxJsonAttempts = 3
  MaxEdits = 3
INVARIANTS
  PlanningTypeOK
  CatalogIsLive
  ListingFaithful
  OnlyResizingBreaksWalks
  RepairDiscipline
PROPERTY
  PlannerEnds
