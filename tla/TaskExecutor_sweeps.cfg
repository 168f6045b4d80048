CONSTANTS
  Task   <- MixedTask
  Kind   <- MixedKind
  Stream <- MixedStream
  Deps   <- MixedDeps
  Faulty <- MixedFaulty
SPECIFICATION FairSpec
PROPERTIES ContractSpec SweepEnds OnlyDownstreamStalls
