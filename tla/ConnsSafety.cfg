SPECIFICATION FairConnsSpec
CONSTANTS
  t = t
  s = s
  Conns = {t, s}
  SshConns = {s}
  MaxConn = 2
  BaseVersion = 0
  EnforceVersion = FALSE
  ChanSize = 1
  AnswerMax = 2
  Askers = {t}
  Queries = {1, 2}
  QueryMax = 1
  NotifyMax = 1
CHECK_DEADLOCK FALSE
INVARIANTS
  ConnsTypeOK
  CounterExact
  AnswersNegotiated
PROPERTIES
  GoneUnregistered
