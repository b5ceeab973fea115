SPECIFICATION InstallationSpec
CONSTANTS
  Role = {1, 2}
  Window = {1, 2}
  Default = 1
  Candidates = {1, 2}
  Profile <- MCProfile
  Monitor = TRUE
  Wsl = TRUE
  Faults = FALSE
  None = None
  Half = Half
  Version = {1, 2, 3}
  PowerShell = FALSE
  NoVersion = NoVersion
  Mixed = Mixed
  Parts = {"setup"}
INVARIANTS
  SetupGetsThrough
