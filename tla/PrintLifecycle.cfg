SPECIFICATION FairPrintSpec
CONSTANTS
  s1 = s1
  s2 = s2
  Spools <- MCSpools
  NoSpool = NoSpool
  Levels = {0, 96, 100}
  Files <- MCFiles
  JOB_MISSING_GRACE = 2
  MaxJobs = 2
  MaxFailures = 2
  MaxLost = 1
  Backlog = 1
INVARIANTS
  NoJobTwice
  NotOverstated
  LossIsHarmless
PROPERTIES
  TrackingEnds
CHECK_DEADLOCK FALSE
