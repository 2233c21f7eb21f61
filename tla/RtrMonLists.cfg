SPECIFICATION MonSpec
CONSTANTS
  x = x
  y = y
  Keys = {x, y}
  JsonClients = {1}
  GracePeriod = 1
  Visible = 1
  TimeMax = 0
  FetchMax <- MCFetchTwice
CHECK_DEADLOCK FALSE
INVARIANT
  OneListExact
