SPECIFICATION U1Spec
CONSTANTS
  opt = opt
  tiger = tiger
  uid = uid
  Smart <- MCSmart
  Generic <- MCGeneric
  Opt <- MCOpt
  Gappy <- MCGappy
  NoSpool = NoSpool
  Lanes <- MCLanes
  FixedLane = 0
  Ttl = 1
  AppDepth = 2
  SyncDepth = 2
  MaxScans = 2
  MaxFaults = 1
INVARIANTS
  OneLanePerScan
PROPERTIES
  AutoPickIsAnEdge
  NewerScanStands
CHECK_DEADLOCK FALSE
