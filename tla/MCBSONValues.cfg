SPECIFICATION Spec
CONSTANTS
  Plain <- MCPlain
  Scripted <- MCScripted
  Foreign <- MCForeign
  IntMax = 3
  LargestVal = 4
  UuidLength = 2
  MaxClock = 4
  MaxMade = 2
INVARIANTS
  GeneratedRise
PROPERTIES
  SaveBackKeeps
