SPECIFICATION FairSpec
CONSTANTS
  Channels = {0, 6, 7}
  SubRob <- SubRobOf
  MaxIds = 2
  MaxBacklog = 1
  MaxStale = 0
  StaleAge = 2
INVARIANTS TypeOK OneTicket DeliveredOnce RecycledOnce
PROPERTIES EventuallyDelivered ImplementsBuildLife
CHECK_DEADLOCK FALSE
