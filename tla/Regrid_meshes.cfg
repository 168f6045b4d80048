SPECIFICATION Spec
CONSTANTS
  Dim = 2
  MaxLevel = 2
  NRanks = 2
  MaxRegrids = 2
  Brick <- MCBrick
  Meshes <- MCMeshes
  Criteria <- MCCriteria
INVARIANTS RestState DataFollow SharedFacesAgree MinLevelsKept
PROPERTY RegridEnds
