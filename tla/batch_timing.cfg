SPECIFICATION TimingSpec
CONSTANTS
  Batches <- MCBatches
  Overhead = 1
INVARIANTS
  TimingTypeOK
  VerdictSound
  LimitsDecide
  DelayIsBlocking
  CooperativeReport
  WallTimeFits
  NoLateEffect
PROPERTIES
  ImplementsBatch
  BatchEnds
