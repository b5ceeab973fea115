SPECIFICATION Spec
CONSTANTS
  a = a
  b = b
  c = c
  x = x
  y = y
  Session = {a, b, c}
  Anonymous = {c}
  Message = {x, y}
  LimitId = LimitId
  LimitNotice = LimitNotice
  NoSession = NoSession
  TTL = 2
  MaxRows = 2
  MaxTime = 3
  MaxAnswers = 3
  ClockSteps = TRUE
  Limits = FALSE
INVARIANTS
  TypeOK
  HistoryKept
  SessionsAreIsolated
PROPERTIES
  PruneTakesOldest
  AnswerCanBeContinued
CHECK_DEADLOCK FALSE
