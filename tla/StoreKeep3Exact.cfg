SPECIFICATION Spec
CONSTANTS
  x = x
  y = y
  Keys = {x, y}
  SerialMax = 4
  KeepDiff = 3
  ManualSerial = FALSE
SYMMETRY KeysSymmetry
INVARIANT
  DeltaExact
