SPECIFICATION Spec
CONSTANTS
  Sessions = {s1, s2}
  NoSession = NoSession
  MaxEvents = 2
  RunLimit = 0
  Cores = 1
  Undecodable = {}
  MaxResends = 1
  MaxBreaks = 1
SYMMETRY Symmetry
INVARIANT NoEventLost
CHECK_DEADLOCK FALSE
