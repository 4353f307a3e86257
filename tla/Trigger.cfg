SPECIFICATION FairSpec
CONSTANTS
  Inputs <- Sources
  Commanders = {c1, c2}
  MAXUINT = 4
  MaxLumi = 2
  MaxCommands = 3
  MaxRuns = 2
INVARIANTS TypeOK HoldNeverWraps HoldStops HltCounterValid DistinctInWindow
PROPERTY UpdaterEnds
CHECK_DEADLOCK FALSE
