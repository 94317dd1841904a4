SPECIFICATION TagSpec
CONSTANTS
  o1 = o1
  o2 = o2
  n1 = n1
  n2 = n2
  b1 = b1
  OptTags <- MCOptTags
  NtagTags <- MCNtagTags
  BambuTags <- MCBambuTags
  Similar <- MCSimilar
  Delivered <- MCDelivered
  NoTag = NoTag
  Torn = Torn
  MaxRequests = 2
INVARIANT
  VerifiedCopyIsTrue
