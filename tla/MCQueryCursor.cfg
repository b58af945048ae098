SPECIFICATION Spec
CONSTANTS
  NumDocs = 6
  Unreadable <- MCUnreadable
  FirstReply = 2
  MaxReply = 3
  ShellBatchSize = 2
  Limits <- MCLimits
  Skips <- MCSkips
  BatchSizes <- MCBatchSizes
  None = None
  MaxFaults = 3
INVARIANTS
  CountsAgree
  ObjsLeftExact
  ArrayIsTheRest
PROPERTIES
  RefinesStream
CHECK_DEADLOCK FALSE
