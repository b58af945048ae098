SPECIFICATION Spec
CONSTANTS
  NumNodes = 3
  Arbiters = {2}
  Oplogs <- MCOplogs
  None = None
  Tries = 1
  MaxOpTime = 4
  MaxElections = 1
  MaxFaults = 1
INVARIANTS
  ReturnMeansReplicated
  SecondariesReady
  RestartSeenUp
PROPERTY CallEnds
CHECK_DEADLOCK FALSE
