SPECIFICATION Spec
CONSTANTS
  NumPorts = 2
  MaxCalls = 3
INVARIANTS
  StoppedMeansStopped
  OwnProgramAnswers
PROPERTIES
  RestartFindsData
CHECK_DEADLOCK FALSE
