SPECIFICATION FairScanSpec
CONSTANTS
  n1 = n1
  b1 = b1
  o1 = o1
  NtagTags <- MCNtagTags
  BambuTags <- MCBambuTags
  OptTags <- MCOptTags
  Similar <- MCSimilar
  NoTag = NoTag
  MISSES = 3
  MaxWrites = 2
  MaxGlitches = 1
PROPERTIES
  NoFlapping
  TagsAreAnnounced
  RemovalIsNoticed
  QueueDrains
CHECK_DEADLOCK FALSE
