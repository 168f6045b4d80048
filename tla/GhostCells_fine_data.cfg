CONSTANTS
  Meshes <- MCMeshes
  nx = 10
  ngz = 4
SPECIFICATION CellSpec
INVARIANT FineDataIsFine
CHECK_DEADLOCK FALSE
