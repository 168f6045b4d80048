\* Three meshes and five time integrators; two blocks of two cells; a cell in
\* five builds.
SPECIFICATION MCSpec
CONSTANTS
  Meshes <- MCMeshes
  Cases <- MCCases
  N = 2
  MaxBad = 2
  Builds <- MCBuilds
INVARIANTS SharedFluxes SharedEmfs ReadsFresh OrderConditions FallbackIsExact StoredAgree DryRunPredicts
PROPERTY StepEnds
