SPECIFICATION DumpSpec
CONSTANTS
  Vrps <- MCVrps
  BaseVersion = 0
  NotifyMax = 1
CHECK_DEADLOCK FALSE
INVARIANTS
  FramingExact
  DumpExact
PROPERTY
  DumpEnds
