SPECIFICATION Spec
CONSTANTS
  Strands = {t1, t2}
  RC = RC
  NoThread = NoThread
  ROSes = {r1, r2}
  Threshold = 2
  MaxIds = 4
  MaxFlushes = 2
  MaxRuns = 2
SYMMETRY Symmetry
INVARIANTS TypeOK ClearedOnceInOrder SequenceNumbers
CHECK_DEADLOCK FALSE
