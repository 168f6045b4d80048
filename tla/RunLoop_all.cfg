CONSTANTS
  r1 = r1
  r2 = r2
  r3 = r3
  Rank <- ThreeRanks
  Termination = "time"
  Final = 3
  Kind = "time"
  Interval = 1
  AtTermination = TRUE
  Automatic = TRUE
  Steps <- OneOrTwo
  RegridEvery = 2
  OutputEvery = 2
  ScanFirst = TRUE
  ScanEvery = 2
  Action = "terminate"
  MaxIter = 6
  MaxTime = 6
  MaxWall = 1
SPECIFICATION FairSpec
PROPERTIES TerminatesCleanly RunEnds
CHECK_DEADLOCK FALSE
