SPECIFICATION Spec
CONSTANTS
  Links = {c1, c2}
  BlockSize = 2
  Blocks = 3
  MaxStale = 3
  MaxTriggers = 15
  MaxRuns = 2
  MaxOutages = 2
SYMMETRY Symmetry
INVARIANTS LinksAgree OnlyLateSuppressed
CHECK_DEADLOCK FALSE
