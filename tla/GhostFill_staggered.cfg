CONSTANTS
  Meshes <- PeerMeshes
  n_device_streams <- MCStreams
  nx = 10
  ngz = 4
SPECIFICATION MCSpec
INVARIANT StencilAwaited
CHECK_DEADLOCK FALSE
