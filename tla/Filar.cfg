SPECIFICATION FilarFairSpec
CONSTANTS
  Rols = 2
  m_buffers = 2
  m_threshold = 1
  MaxFragments = 4
  MaxErrors = 1
INVARIANTS FilarTypeOK NothingLost OvertakenWithinPoll
PROPERTY FragmentDelivered
