SPECIFICATION Spec
CONSTANTS
  Sessions = {s1, s2}
  NoSession = NoSession
  MaxEvents = 3
  RunLimit = 3
  Cores = 1
  Undecodable = {3}
  MaxResends = 1
  MaxBreaks = 1
SYMMETRY Symmetry
INVARIANTS TypeOK SingleOwner ProcessedOnceClearedOnce NoOvercommit NoStranded
PROPERTIES ClearIsFinal ImplementsEventLife
CHECK_DEADLOCK FALSE
