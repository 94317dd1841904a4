SPECIFICATION FairManagerSpec
CONSTANTS
  u1 = u1
  u2 = u2
  Uids <- MCUids
  NoUid = NoUid
  Grams = {1, 2}
  RequestIds = {1, 2}
  NoRequest = 0
  CAPACITY = 2
  App = App
  Mqtt = Mqtt
  Tasks = {App, Mqtt}
  QUEUE_DEPTH = 1
  APP_QUEUE = 1
  Shelf <- MCLiveShelf
  Full <- MCFull
  MaxStored = 1
  MaxSwaps = 2
  MaxFaults = 1
PROPERTY
  ClaimsEnd
CHECK_DEADLOCK FALSE
