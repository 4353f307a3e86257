SPECIFICATION FairSpec
CONSTANTS
  Cores = 1
  Gap = 2
  MaxRuns = 2
  MaxEvents = 2
  MaxExpiries = 1
  MaxSessions = 2
  MaxCrashes = 1
CONSTRAINT OneFault
INVARIANTS TypeOK QuietOutsideRun GlobalIDsUnique RunsSeparate CoresAnnouncedOnce
 
CHECK_DEADLOCK FALSE
