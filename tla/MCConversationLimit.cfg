SPECIFICATION Spec
CONSTANTS
  a = a
  b = b
  c = c
  x = x
  y = y
  Session = {a, b}
  Anonymous = {}
  Message = {x, y}
  LimitId = LimitId
  LimitNotice = LimitNotice
  NoSession = NoSession
  TTL = 2
  MaxRows = 2
  MaxTime = 3
  MaxAnswers = 3
  ClockSteps = FALSE
  Limits = TRUE
INVARIANTS
  AnswersStayWithTheirSession
CHECK_DEADLOCK FALSE
