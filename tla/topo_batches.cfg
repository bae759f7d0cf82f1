SPECIFICATION TopoSpec
CONSTANT Nodes <- MCNodes
INVARIANTS
  EveryNodeOnce
  EarliestBatch
  CycleIsDumpedLast
PROPERTY LoopEnds
