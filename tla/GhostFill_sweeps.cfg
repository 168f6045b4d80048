CONSTANTS
  Meshes <- MCMeshes
  n_device_streams <- MCStreams
  nx = 10
  ngz = 4
SPECIFICATION MCSpec
INVARIANTS ReadyReads NoRace GraphOrdered FilledFresh CellsFilled FineKept
PROPERTY SweepEnds
CHECK_DEADLOCK FALSE
