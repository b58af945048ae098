SPECIFICATION Spec
CONSTANTS
  NumShards = 3
  Primary = 0
  Tries = 5
  MaxChunks = 3
INVARIANTS
  CountsExact
  ShardGoMoves
  ShardGoWorks
CHECK_DEADLOCK FALSE
