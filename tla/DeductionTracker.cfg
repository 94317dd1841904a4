CONSTANTS
  u1 = u1
  u2 = u2
  u3 = u3
  u4 = u4
  r1 = r1
  r2 = r2
  CAPACITY = 3
  Uids <- MCUids
  NoUid = NoUid
  Grams <- MCGrams
  RequestIds <- MCRequestIds
  NoRequest = NoRequest
SPECIFICATION TrackerSpec
INVARIANTS
  TrackerTypeOK
  PristineSuffix
  OneClaimPerUid
  CapacityRecovers
PROPERTY ImplementsClaims
