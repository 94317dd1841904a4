SPECIFICATION SlotSpec
CONSTANTS
  p1 = p1
  p2 = p2
  p3 = p3
  Producers <- MCProducers
  Scan = Scan
  Boot = Boot
  RequestIds = {1, 2, 3, 4}
  NoRequest = 0
  QUEUE_DEPTH = 1
SYMMETRY Symmetry
INVARIANTS
  SlotTypeOK
  Exclusive
  PayloadIntact
  NeverWedged
  OwnershipStands
CHECK_DEADLOCK FALSE
