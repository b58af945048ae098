SPECIFICATION Spec
CONSTANTS
  Mongos = {m1, m2}
  m1 = m1
  m2 = m2
  s1 = s1
  s2 = s2
  Shells <- MCShells
  MayCall <- MCMayCall
  NoOne = NoOne
  Gone = Gone
  PerSecond = 2
  MaxPings = 2
  MaxCalls = 1
  MaxLosses = 1
INVARIANTS
  OnlyWarnedHostsBalance
  NoOldRound
PROPERTIES
  EveryCallEnds
CHECK_DEADLOCK FALSE
