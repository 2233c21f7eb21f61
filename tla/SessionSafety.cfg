SPECIFICATION FairSessionSpec
CONSTANTS
  x = x
  c1 = c1
  Keys = {x}
  Clients = {c1}
  SerialMax = 4
  KeepDiff = 2
  ManualSerial = FALSE
  LastSerial = 3
  ChanSize = 1
  InFlight = 1
  BaseVersion = 1
CHECK_DEADLOCK FALSE
INVARIANTS
  SessionTypeOK
  StableVrpsHeld
  ToldCurrent
PROPERTIES
  SerialMonotone
  SyncedUnlessLeftBehind
