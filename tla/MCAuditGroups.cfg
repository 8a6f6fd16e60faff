\* Several groups, fail-closed, with commits while the rewrite runs.
SPECIFICATION Spec
CONSTANTS
  NoVersion = NoVersion
  Keys = {k1}
  Versions = {1, 2, NoVersion}
  MaxCommits = 3
  MaxRowsPerCommit = 2
  MaxRows = 3
  MaxParts = 2
  MaxRewrites = 1
  MaxGroups = 2
  SpillThreshold = 5
  AuditGate = TRUE
  AuditCrossGroup = FALSE
  AuditRequireSingleSurvivor = TRUE
  AuditFailClosed = TRUE
  PartialSelection = FALSE
  ConcurrentCommits = TRUE
  CanFail = FALSE
INVARIANTS
  OneSided
  Complete
  GateSound
  PreservesContent
CHECK_DEADLOCK FALSE
