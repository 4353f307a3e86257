SPECIFICATION Spec
CONSTANTS
  Channels = {0, 6}
  SubRob <- SubRobOf
  MaxIds = 2
  MaxBacklog = 1
  MaxStale = 2
  StaleAge = 2
INVARIANT TimedOutHandled
CHECK_DEADLOCK FALSE
