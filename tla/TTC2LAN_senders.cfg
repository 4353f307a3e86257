SPECIFICATION Spec
CONSTANTS
  Senders = {a, b}
  Triggers <- RunIds
  EcrSize = 4
  Epochs = 3
  CountMod = 6
  High = 1
  Low = 1
PROPERTY AllHaveSent
CHECK_DEADLOCK FALSE
