SPECIFICATION SyncSpec
CONSTANTS
  u1 = u1
  u2 = u2
  pla = pla
  petg = petg
  odd = odd
  maker = maker
  Uids = {u1, u2}
  Spools = {1, 2, 3, 4, 5}
  Kinds = {pla, petg}
  Incomplete = {odd}
  Maker = maker
  Grams = {0, 7}
  NoUid = NoUid
  NoFil = NoFil
  LOW = 1
  JUMP = 5
  FULL = 10
  CACHE = 1
  QUEUE = 1
  Listed <- MCListed
  Known <- MCKnown
  MaxFaults = 2
  MaxInputs = 2
INVARIANTS
  OneSpoolPerTag
PROPERTIES
  SyncMintsNoTwin
  PickedNeverArchived
  WeightToItsSpool
  PickerCatchesUp
CHECK_DEADLOCK FALSE
