SPECIFICATION FairSpec
CONSTANTS
  Senders = {a, b}
  Triggers <- RunIds
  EcrSize = 4
  Epochs = 3
  CountMod = 6
  High = 1
  Low = 1
INVARIANTS TypeOK GateAgrees ExactCount NoGap
PROPERTY XoffEnds
CHECK_DEADLOCK FALSE
