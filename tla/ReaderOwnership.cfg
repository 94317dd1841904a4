SPECIFICATION OwnSpec
CONSTANTS
  SharedBus = TRUE
  MaxWrites = 1
  MaxSessions = 2
  MaxUploads = 1
  MaxDownloads = 2
  MaxSaves = 1
INVARIANTS
  OwnTypeOK
  SessionOwnsReader
  StrandedOnlyByOverlap
  LoneUpdateNeverBites
PROPERTIES
  ScanningResumes
CHECK_DEADLOCK FALSE
