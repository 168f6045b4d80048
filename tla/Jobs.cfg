CONSTANTS
  MaxIteration = 5
  MaxJobs      = 3
  UpdateEvery  = 2
  RegridEvery  = 3
  DiagEvery    = 2
  InjectAt     = 2
  Parfiles     = {TRUE, FALSE}
  Sightings    = {"far", "near", "contact", "lost"}
  Singleton <- GraceSingleton
  Static    <- GraceStatic
  Longevity <- GraceLongevity
  DtorUses  <- GraceDtorUses
  Starts    <- GraceStarts
  saver     = "checkpoints"
SPECIFICATION MCSpec
INVARIANTS SwitchInv Replayed LatchesFollowTheOrbit InjectedOnce SingletonsFindSingletons StaticsFindSingletons
CHECK_DEADLOCK FALSE
