SPECIFICATION Spec
CONSTANTS
  Length = 4
  Forests <- MCForests
  Flows <- MCFlows
  Boundaries = {"periodic", "reflect"}
  TracersPerRank = 1
  RebalanceEvery = 1
  CompactEvery = 1
  Threshold = 50
  MaxIter = 2
  MaxJobs = 2
INVARIANTS EachOnce SampledAfterRegrid CountersAheadOfSameSize
PROPERTIES OnlyOutsideIsDropped CallsEnd
