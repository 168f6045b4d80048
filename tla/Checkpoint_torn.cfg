CONSTANTS
  MaxIteration  = 4
  MaxN          = 3
  Kind          = "iteration"
  Interval      = 1
  AtStartup     = FALSE
  AtTermination = TRUE
  MaxCrashes    = 1
SPECIFICATION Spec
INVARIANT Resumable
