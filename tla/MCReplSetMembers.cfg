SPECIFICATION MembersSpec
CONSTANTS
  NumMembers = 2
  ArbiterPositions <- SecondNode
  MaxNodes = 3
  MaxPort = 10
  MaxBefore = 4
  MaxStarts = 9
  MaxRemoved = 2
INVARIANTS
  ReconfigAccepted
  LinksAsAsked
PROPERTIES
  HitsItsNode
  ResetsOnlyUnused
CHECK_DEADLOCK FALSE
