SPECIFICATION FairSpec
CONSTANTS
  a = a
  b = b
  d = d
  t = t
  Launcher <- Tools
  Kind <- Kinds
  TTL = 1
  Grace = 1
  Late = 1
  Faults = {"suspend"}
  NoRouter = NoRouter
PROPERTIES
  AbandonedRouterEnds
CHECK_DEADLOCK FALSE
