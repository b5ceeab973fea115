SPECIFICATION Spec
CONSTANTS
  a = a
  b = b
  d = d
  t = t
  Launcher <- Windows
  Kind <- Kinds
  TTL = 2
  Grace = 2
  Late = 2
  Faults = {"http", "ollama", "decline"}
  NoRouter = NoRouter
SYMMETRY Exchange
INVARIANTS
  TypeOK
  GraceRunsWhileEmpty
  HeartbeatKeepsLease
PROPERTIES
  IdleStopSparesSessions
CHECK_DEADLOCK FALSE
