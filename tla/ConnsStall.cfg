SPECIFICATION ReadingConnsSpec
CONSTANTS
  t = t
  s = s
  Conns = {t}
  SshConns = {}
  MaxConn = 0
  BaseVersion = 1
  EnforceVersion = FALSE
  ChanSize = 1
  AnswerMax = 1
  Askers = {t}
  Queries = {0, 1, 2, 99}
  QueryMax = 2
  NotifyMax = 1
CHECK_DEADLOCK FALSE
PROPERTY
  NotifyEnds
