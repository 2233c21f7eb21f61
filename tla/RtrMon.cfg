SPECIFICATION MonSpec
CONSTANTS
  x = x
  y = y
  Keys = {x}
  JsonClients = {1}
  GracePeriod = 1
  Visible = 1
  TimeMax = 3
  FetchMax <- MCFetchMax
CHECK_DEADLOCK FALSE
INVARIANTS
  DiffCurrent
  HistoryExact
  VisibleSound
