SPECIFICATION Spec
CONSTANTS
  c1 = c1
  c2 = c2
  t1 = t1
  plan = plan
  build = build
  Request <- Requests3
  Title <- Titles
  Model <- Aliases
  Route <- Routes
  MaxPending = 1
  MaxRounds = 2
  MaxAttempts = 2
  OllamaFaults = FALSE
  Unloader = Unloader
  NoOne = NoOne
  NoModel = NoModel
INVARIANTS
  OneModelResident
CHECK_DEADLOCK FALSE
