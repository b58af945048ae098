SPECIFICATION ClusterSpec
CONSTANTS
  MaxTests = 3
  MaxShards = 3
  MaxMongos = 2
  MaxCrashes = 1
  Shapes <- SomeShapes
INVARIANTS
  OwnPrograms
  MissingOnlyIfGone
CHECK_DEADLOCK FALSE
