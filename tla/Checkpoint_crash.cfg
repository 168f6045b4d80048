CONSTANTS
  MaxIteration  = 6
  MaxN          = 3
  Kind          = "iteration"
  Interval      = 1
  AtStartup     = TRUE
  AtTermination = TRUE
  MaxCrashes    = 2
SPECIFICATION Spec
INVARIANTS RotationKeepsNewest LossBounded NoOrphans
PROPERTY EndLeavesLatest
